-------------------------- MODULE DirectoryProofs --------------------------
(***************************************************************************)
(* What is proved of the modules that MCDirectory runs: the caches, the    *)
(* copies of a gateway, the queries to several networks, remote control    *)
(* and the types of them all.  Each theorem is about the specification of  *)
(* its own module and an inductive invariant of it; the last one is about  *)
(* all of them side by side.                                               *)
(***************************************************************************)
EXTENDS MCDirectory, TLAPS, FiniteSetTheorems, WellFoundedInduction

---------------------------------------------------------------------------
(* Caches *)

CacheTypes ==
    /\ CachesTypeOK /\ hosts \in [Files -> [Reflectors -> Entries]]
    /\ \A l \in Loaders : stage[l] = "done" => left[l] = {}

(* A new value of a record that is there or not. *)
Updated(r, address, protocol, addrLock, protoLock) ==
    Record(IF r = None THEN NewRecord ELSE r, address, protocol, addrLock, protoLock)

LEMMA UpdatedShape ==
    ASSUME NEW r \in GatewayRecords \cup {None}, NEW addrLock \in BOOLEAN, NEW protoLock \in BOOLEAN,
           NEW address \in Files \cup {"127.0.0.1", "ircDDB", "D-Plus"},
           NEW protocol \in Types \cup {"loopback"}, NEW u,
           u = Updated(r, address, protocol, addrLock, protoLock)
    PROVE  /\ u \in GatewayRecords
           /\ u.address = IF r # None /\ r.addrLock THEN r.address ELSE address
           /\ u.protocol = IF r # None /\ r.protoLock THEN r.protocol ELSE protocol
           /\ u.addrLock <=> (r # None /\ r.addrLock) \/ addrLock
           /\ u.protoLock <=> (r # None /\ r.protoLock) \/ protoLock
<1>1. CASE r = None
  <2>1. u = [address |-> address, addrLock |-> addrLock, protocol |-> protocol, protoLock |-> protoLock]
    BY <1>1 DEF Updated, Record, NewRecord
  <2>. QED BY <1>1, <2>1 DEF GatewayRecords
<1>2. CASE r # None
  BY <1>2 DEF Updated, Record, GatewayRecords
<1>. QED BY <1>1, <1>2

LEMMA UpdateIsUpdated ==
    ASSUME CachesTypeOK, NEW g \in Gateways, NEW address, NEW protocol, NEW addrLock, NEW protoLock,
           UpdateGateway(g, address, protocol, addrLock, protoLock)
    PROVE  /\ gateways'[g] = Updated(gateways[g], address, protocol, addrLock, protoLock)
           /\ \A k \in Gateways \ {g} : gateways'[k] = gateways[k]
           /\ gateways' = [gateways EXCEPT ![g] = Updated(gateways[g], address, protocol, addrLock, protoLock)]
BY DEF CachesTypeOK, UpdateGateway, Updated

LEMMA RecordUpdate ==
    ASSUME CachesTypeOK, NEW g \in Gateways, NEW address \in Files \cup {"127.0.0.1", "ircDDB", "D-Plus"},
           NEW protocol \in Types \cup {"loopback"}, NEW addrLock \in BOOLEAN, NEW protoLock \in BOOLEAN,
           UpdateGateway(g, address, protocol, addrLock, protoLock)
    PROVE  /\ \A k \in Gateways \ {g} : gateways'[k] = gateways[k]
           /\ gateways'[g] # None
           /\ gateways'[g].address = IF gateways[g] # None /\ gateways[g].addrLock
                                     THEN gateways[g].address ELSE address
           /\ gateways'[g].protocol = IF gateways[g] # None /\ gateways[g].protoLock
                                      THEN gateways[g].protocol ELSE protocol
           /\ gateways'[g].addrLock <=> (gateways[g] # None /\ gateways[g].addrLock) \/ addrLock
           /\ gateways'[g].protoLock <=> (gateways[g] # None /\ gateways[g].protoLock) \/ protoLock
<1> DEFINE r == gateways[g]
           u == Updated(r, address, protocol, addrLock, protoLock)
<1>1. r \in GatewayRecords \cup {None}
  BY DEF CachesTypeOK
<1>2. gateways'[g] = u /\ \A k \in Gateways \ {g} : gateways'[k] = gateways[k]
  BY UpdateIsUpdated
<1> HIDE DEF r
<1>3. /\ u \in GatewayRecords
      /\ u.address = IF r # None /\ r.addrLock THEN r.address ELSE address
      /\ u.protocol = IF r # None /\ r.protoLock THEN r.protocol ELSE protocol
      /\ u.addrLock <=> (r # None /\ r.addrLock) \/ addrLock
      /\ u.protoLock <=> (r # None /\ r.protoLock) \/ protoLock
  <2>1. u = Updated(r, address, protocol, addrLock, protoLock)
    OBVIOUS
  <2> HIDE DEF u
  <2>. QED BY <1>1, <2>1, UpdatedShape
<1> HIDE DEF u
<1>4. u # None
  BY <1>3, NoneAssumption
<1>. QED BY <1>2, <1>3, <1>4 DEF r

LEMMA TheOtherFile == (CHOOSE f \in Files : f # FirstFile) = "custom"
<1>1. \E f \in Files : f # FirstFile
  BY DEF Files, FirstFile
<1>2. (CHOOSE f \in Files : f # FirstFile) \in Files \ {FirstFile}
  BY <1>1
<1>. QED BY <1>2 DEF Files, FirstFile

(* What ircDDB tells of gateway g, and what loader l reads of it. *)
ByAnswer(g) == UpdateGateway(g, "ircDDB", "DExtra", FALSE, FALSE)

LoadOf(l, g) ==
    LET e == hosts[stage[l]][g]
    IN  /\ stage[l] \in Files /\ g \in Reflectors /\ g \in left[l]
        /\ left' = [left EXCEPT ![l] = @ \ {g}]
        /\ IF e = None THEN UNCHANGED gateways
           ELSE UpdateGateway(g, stage[l], e.type, e.locked, TRUE)
        /\ UNCHANGED <<hosts, repeaters, heardAt, stage>>

LEMMA LoadShape ==
    ASSUME CacheTypes, NEW l \in Loaders, Load(l)
    PROVE  \E g \in left[l] : LoadOf(l, g)
BY DEF Load, LoadOf, CacheTypes, CachesTypeOK

LEMMA CacheTypesInit == CacheInit => CacheTypes
<1> SUFFICES ASSUME CacheInit PROVE CacheTypes
  OBVIOUS
<1>1. /\ hosts \in [Files -> [Reflectors -> Entries]]
      /\ stage \in [Loaders -> Files \cup {"done"}] /\ left \in [Loaders -> SUBSET Reflectors]
      /\ repeaters \in [Repeaters -> Gateways \cup {None}]
      /\ heardAt \in [Callsigns -> Hearings \cup {None}]
  BY DEF CacheInit, Loaders, Files, FirstFile, Gateways
<1>2. Record(NewRecord, "127.0.0.1", "loopback", TRUE, TRUE) \in GatewayRecords
  BY DEF Record, NewRecord, GatewayRecords
<1>3. gateways \in [Gateways -> GatewayRecords \cup {None}]
  BY <1>2 DEF CacheInit
<1>4. \A l \in Loaders : stage[l] = "done" => left[l] = {}
  BY DEF CacheInit, FirstFile
<1>. QED BY <1>1, <1>3, <1>4 DEF CacheTypes, CachesTypeOK

LEMMA UpdateTypes ==
    ASSUME CachesTypeOK, NEW g \in Gateways, NEW addrLock \in BOOLEAN, NEW protoLock \in BOOLEAN,
           NEW address \in Files \cup {"127.0.0.1", "ircDDB", "D-Plus"},
           NEW protocol \in Types \cup {"loopback"},
           UpdateGateway(g, address, protocol, addrLock, protoLock)
    PROVE  gateways' \in [Gateways -> GatewayRecords \cup {None}]
<1>1. gateways[g] \in GatewayRecords \cup {None}
  BY DEF CachesTypeOK
<1>2. Updated(gateways[g], address, protocol, addrLock, protoLock) \in GatewayRecords
  BY <1>1, UpdatedShape
<1>. QED BY <1>2, UpdateIsUpdated DEF CachesTypeOK

LEMMA CacheTypesNext == CacheTypes /\ [CacheNext]_cacheVars => CacheTypes'
<1> SUFFICES ASSUME CacheTypes, [CacheNext]_cacheVars PROVE CacheTypes'
  OBVIOUS
<1>0. CachesTypeOK /\ hosts' = hosts
  BY DEF CacheTypes, CacheNext, cacheVars, Reload, Load, EndOfFile, Learns, Authenticated
<1>1. ASSUME NEW l \in Loaders, Reload(l) PROVE CacheTypes'
  BY <1>0, <1>1 DEF Reload, CacheTypes, CachesTypeOK, FirstFile, Files
<1>2. ASSUME NEW l \in Loaders, Load(l) PROVE CacheTypes'
  <2>1. PICK g \in left[l] : LoadOf(l, g)
    BY <1>2, LoadShape
  <2>2. gateways' \in [Gateways -> GatewayRecords \cup {None}]
    <3>1. CASE hosts[stage[l]][g] = None
      BY <1>0, <2>1, <3>1 DEF LoadOf, CachesTypeOK
    <3>2. CASE hosts[stage[l]][g] # None
      <4>1. hosts[stage[l]][g].type \in Types /\ hosts[stage[l]][g].locked \in BOOLEAN
        BY <2>1, <3>2 DEF CacheTypes, LoadOf, Entries
      <4>2. g \in Gateways
        BY <2>1 DEF LoadOf, Gateways
      <4>. QED BY <1>0, <2>1, <3>2, <4>1, <4>2, UpdateTypes DEF LoadOf
    <3>. QED BY <3>1, <3>2
  <2>. QED BY <1>0, <2>1, <2>2 DEF LoadOf, CacheTypes, CachesTypeOK
<1>3. ASSUME NEW l \in Loaders, EndOfFile(l) PROVE CacheTypes'
  <2>1. stage' \in [Loaders -> Files \cup {"done"}] /\ left' \in [Loaders -> SUBSET Reflectors]
    BY <1>0, <1>3, TheOtherFile DEF EndOfFile, CachesTypeOK, Files
  <2>2. \A k \in Loaders : stage'[k] = "done" => left'[k] = {}
    BY <1>0, <1>3, TheOtherFile DEF EndOfFile, CacheTypes, CachesTypeOK
  <2>. QED BY <1>0, <1>3, <2>1, <2>2 DEF EndOfFile, CacheTypes, CachesTypeOK
<1>4. CASE Learns
  <2>1. PICK g \in Gateways : ByAnswer(g)
    BY <1>4 DEF Learns, ByAnswer, Said
  <2>2. gateways' \in [Gateways -> GatewayRecords \cup {None}]
    BY <1>0, <2>1, UpdateTypes DEF ByAnswer, Types
  <2>3. repeaters' \in [Repeaters -> Gateways \cup {None}]
    BY <1>0, <1>4 DEF Learns, Said, UpdatePair, CachesTypeOK
  <2>4. heardAt' \in [Callsigns -> Hearings \cup {None}]
    <3>1. \/ heardAt' = heardAt
          \/ \E p \in Said, u \in Callsigns, stamp \in 1..LastStamp :
                heardAt' = [heardAt EXCEPT ![u] = [repeater |-> p[1], stamp |-> stamp]]
      BY <1>4 DEF Learns
    <3>2. \A p \in Said, stamp \in 1..LastStamp : [repeater |-> p[1], stamp |-> stamp] \in Hearings
      BY DEF Said, Hearings
    <3>. QED BY <1>0, <3>1, <3>2 DEF CachesTypeOK
  <2>. QED BY <1>0, <1>4, <2>2, <2>3, <2>4 DEF Learns, CacheTypes, CachesTypeOK
<1>5. CASE Authenticated
  <2>1. gateways' \in [Gateways -> GatewayRecords \cup {None}]
    BY <1>0, <1>5, UpdateTypes DEF Authenticated, Types, Gateways
  <2>. QED BY <1>0, <1>5, <2>1 DEF Authenticated, CacheTypes, CachesTypeOK
<1>6. CASE UNCHANGED cacheVars
  BY <1>0, <1>6 DEF cacheVars, CacheTypes, CachesTypeOK
<1>. QED BY <1>1, <1>2, <1>3, <1>4, <1>5, <1>6 DEF CacheNext

(* What leads to this gateway: its record, and the pairs of its repeaters. *)
OwnRecord == [address |-> "127.0.0.1", addrLock |-> TRUE, protocol |-> "loopback", protoLock |-> TRUE]

LocalInv ==
    /\ gateways[Own] = OwnRecord
    /\ \A r \in Locals : GatewayOf(r) = Own \/ repeaters[r] \notin {None, Standard[r]}

LEMMA OwnRecordThere == OwnRecord \in GatewayRecords /\ OwnRecord # None
<1>1. OwnRecord \in GatewayRecords
  BY DEF OwnRecord, GatewayRecords
<1>. QED BY <1>1, NoneAssumption

LEMMA LocalInitially == CacheInit => LocalInv
<1> SUFFICES ASSUME CacheInit PROVE LocalInv
  OBVIOUS
<1>1. gateways[Own] = OwnRecord
  BY DEF CacheInit, Gateways, Record, NewRecord, OwnRecord
<1>2. \A r \in Locals : GatewayOf(r) = Own \/ repeaters[r] \notin {None, Standard[r]}
  BY CachesAssumption, NoneAssumption DEF CacheInit, GatewayOf, Gateways
<1>. QED BY <1>1, <1>2 DEF LocalInv

LEMMA OwnLocked ==
    ASSUME CachesTypeOK, NEW g \in Gateways, NEW address, NEW protocol,
           NEW addrLock \in BOOLEAN, NEW protoLock \in BOOLEAN,
           UpdateGateway(g, address, protocol, addrLock, protoLock), gateways[Own] = OwnRecord
    PROVE  gateways'[Own] = OwnRecord
<1>1. CASE g = Own
  <2>1. OwnRecord # None
    BY OwnRecordThere
  <2>2. Updated(OwnRecord, address, protocol, addrLock, protoLock) = OwnRecord
    BY <2>1 DEF Updated, Record, OwnRecord
  <2>. QED BY <1>1, <2>2, UpdateIsUpdated
<1>2. CASE g # Own
  BY <1>2, UpdateIsUpdated DEF Gateways
<1>. QED BY <1>1, <1>2

LEMMA LocalNext == CacheTypes /\ LocalInv /\ [CacheNext]_cacheVars => LocalInv'
<1> SUFFICES ASSUME CacheTypes, LocalInv, [CacheNext]_cacheVars PROVE LocalInv'
  OBVIOUS
<1>0. CachesTypeOK /\ gateways[Own] = OwnRecord
  BY DEF CacheTypes, LocalInv
<1>1. ASSUME gateways'[Own] = OwnRecord, repeaters' = repeaters PROVE LocalInv'
  BY <1>1 DEF LocalInv, GatewayOf
<1>2. CASE UNCHANGED <<gateways, repeaters>>
  BY <1>0, <1>1, <1>2
<1>3. ASSUME NEW l \in Loaders, Load(l) PROVE LocalInv'
  <2>1. PICK g \in left[l] : LoadOf(l, g)
    BY <1>3, LoadShape
  <2>2. CASE hosts[stage[l]][g] = None
    BY <1>2, <2>1, <2>2 DEF LoadOf
  <2>3. CASE hosts[stage[l]][g] # None
    <3>1. hosts[stage[l]][g].locked \in BOOLEAN /\ g \in Gateways
      BY <2>1, <2>3 DEF LoadOf, CacheTypes, Entries, Gateways
    <3>2. gateways'[Own] = OwnRecord
      BY <1>0, <2>1, <2>3, <3>1, OwnLocked DEF LoadOf
    <3>. QED BY <1>1, <2>1, <3>2 DEF LoadOf
  <2>. QED BY <2>2, <2>3
<1>4. CASE Learns
  <2>1. PICK g \in Gateways : ByAnswer(g)
    BY <1>4 DEF Learns, ByAnswer, Said
  <2>2. gateways'[Own] = OwnRecord
    BY <1>0, <2>1, OwnLocked DEF ByAnswer
  <2>3. repeaters' = repeaters \/ \E p \in Said : UpdatePair(p[1], p[2])
    BY <1>4 DEF Learns
  <2>4. ASSUME NEW p \in Said, UpdatePair(p[1], p[2]), NEW r \in Locals
        PROVE  GatewayOf(r)' = Own \/ repeaters'[r] \notin {None, Standard[r]}
    <3>1. r \in Repeaters /\ p[1] \in Repeaters /\ p[2] \in Gateways
      BY CachesAssumption DEF Said
    <3>2. CASE Standard[p[1]] # p[2] /\ p[1] = r
      BY <1>0, <2>4, <3>1, <3>2, NoneAssumption DEF UpdatePair, GatewayOf, CachesTypeOK, Gateways
    <3>3. CASE ~(Standard[p[1]] # p[2] /\ p[1] = r)
      <4>1. repeaters'[r] = repeaters[r]
        BY <1>0, <2>4, <3>1, <3>3 DEF UpdatePair, CachesTypeOK
      <4>. QED BY <4>1 DEF LocalInv, GatewayOf
    <3>. QED BY <3>2, <3>3
  <2>5. CASE \E p \in Said : UpdatePair(p[1], p[2])
    BY <2>2, <2>4, <2>5 DEF LocalInv
  <2>. QED BY <1>1, <2>2, <2>3, <2>5
<1>5. CASE Authenticated
  <2>1. gateways'[Own] = OwnRecord
    BY <1>0, <1>5, OwnLocked DEF Authenticated, Gateways
  <2>. QED BY <1>1, <1>5, <2>1 DEF Authenticated
<1>. QED
  BY <1>2, <1>3, <1>4, <1>5 DEF CacheNext, Reload, EndOfFile, cacheVars

LEMMA LocalIsRight == CacheTypes /\ LocalInv => OwnStaysHere
<1> SUFFICES ASSUME CacheTypes, LocalInv PROVE OwnStaysHere
  OBVIOUS
<1>1. gateways[Own] = OwnRecord /\ OwnRecord # None
  BY OwnRecordThere DEF LocalInv
<1>2. Found(Own) = [gateway |-> Own, address |-> "127.0.0.1", protocol |-> "loopback"]
  BY <1>1 DEF Found, OwnRecord
<1>. QED BY <1>2 DEF OwnStaysHere, CachedRepeater, CachedUser, LocalInv

(* The record of a gateway that the files list.  Read(f, l, g) says that   *)
(* loader l has read its entry of file f, in this reading or, as the one   *)
(* the gateway begins with, before; LoaderOwes(l, g) that l will read the entry  *)
(* of the custom file after what it has read of the other.                 *)
Read(f, l, g) ==
    IF f = "internet"
    THEN \/ stage[l] = "custom" \/ (l = "gateway" /\ stage[l] = "done")
         \/ stage[l] = "internet" /\ g \notin left[l]
    ELSE (l = "gateway" /\ stage[l] = "done") \/ (stage[l] = "custom" /\ g \notin left[l])

LoaderOwes(l, g) == stage[l] = "internet" \/ (stage[l] = "custom" /\ g \in left[l])

Protocol(g) == IF Lists("internet", g) THEN hosts["internet"][g].type ELSE hosts["custom"][g].type
Overrides(g) == Lists("custom", g) /\ ~(Lists("internet", g) /\ hosts["internet"][g].locked)

ProtocolRight(g) ==
    /\ \A f \in Files, l \in Loaders :
          Lists(f, g) /\ Read(f, l, g) => gateways[g] # None /\ gateways[g].protoLock
    /\ gateways[g] # None /\ gateways[g].protoLock =>
          /\ \E f \in Files : Lists(f, g)
          /\ gateways[g].protocol = Protocol(g)

AddressRight(g) ==
    Overrides(g) =>
        /\ gateways[g] # None =>
              /\ gateways[g].address = "internet" => \E l \in Loaders : LoaderOwes(l, g)
              /\ gateways[g].addrLock => gateways[g].address = "custom"
        /\ hosts["custom"][g].locked =>
              \A l \in Loaders : Read("custom", l, g) => gateways[g] # None /\ gateways[g].addrLock

RecordRight(g) == ProtocolRight(g) /\ AddressRight(g)
FilesInv == \A g \in Reflectors \ {Own} : RecordRight(g)

LEMMA FilesInitially == CacheInit => FilesInv
<1> SUFFICES ASSUME CacheInit, NEW g \in Reflectors \ {Own} PROVE RecordRight(g)
  BY DEF FilesInv
<1>1. gateways[g] = None
  BY DEF CacheInit, Gateways
<1>2. \A l \in Loaders, f \in Files : ~Read(f, l, g)
  BY DEF CacheInit, Read, FirstFile, Loaders, Files
<1>. QED BY <1>1, <1>2 DEF RecordRight, ProtocolRight, AddressRight, Files

(* An entry that is not there is read without effect. *)
LEMMA LoadRight ==
    ASSUME CacheTypes, NEW l \in Loaders, NEW g \in left[l], LoadOf(l, g), g # Own, RecordRight(g)
    PROVE  RecordRight(g)'
<1> DEFINE e == hosts[stage[l]][g]
<1>0. /\ CachesTypeOK /\ stage[l] \in Files /\ g \in Gateways /\ g \in Reflectors
      /\ gateways[g] \in GatewayRecords \cup {None}
      /\ stage' = stage /\ hosts' = hosts /\ left' = [left EXCEPT ![l] = @ \ {g}]
      /\ hosts \in [Files -> [Reflectors -> Entries]]
  BY DEF CacheTypes, LoadOf, CachesTypeOK, Gateways
<1>1. \A k \in Loaders \ {l} : left'[k] = left[k]
  BY <1>0 DEF CachesTypeOK
<1>2. left'[l] = left[l] \ {g}
  BY <1>0 DEF CachesTypeOK
<1>3. \A f \in Files, k \in Loaders : Read(f, k, g)' => Read(f, k, g) \/ (k = l /\ f = stage[l])
  BY <1>0, <1>1, <1>2 DEF Read, Files
<1>4. \A k \in Loaders : LoaderOwes(k, g) => LoaderOwes(k, g)' \/ (k = l /\ stage[l] = "custom")
  BY <1>0, <1>1, <1>2 DEF LoaderOwes
<1>5. /\ \A f \in Files : Lists(f, g)' = Lists(f, g)
      /\ Protocol(g)' = Protocol(g) /\ Overrides(g)' = Overrides(g)
  BY <1>0 DEF Lists, Protocol, Overrides, Files
<1>6. CASE e = None
  <2>1. gateways' = gateways /\ ~Lists(stage[l], g)
    BY <1>6 DEF LoadOf, Lists
  <2>2. ProtocolRight(g)'
    BY <1>0, <1>3, <1>5, <2>1 DEF RecordRight, ProtocolRight
  <2>3. AddressRight(g)'
    <3>1. Overrides(g) => stage[l] # "custom"
      BY <2>1 DEF Overrides
    <3>2. "custom" \in Files
      BY DEF Files
    <3>. QED BY <1>0, <1>3, <1>4, <1>5, <2>1, <3>1, <3>2 DEF RecordRight, AddressRight
  <2>. QED BY <2>2, <2>3 DEF RecordRight
<1>7. CASE e # None
  <2>1. /\ e.type \in Types /\ e.locked \in BOOLEAN /\ Lists(stage[l], g)
    BY <1>0, <1>7 DEF Entries, Lists
  <2> DEFINE n == gateways'[g]
             r == gateways[g]
  <2>4. /\ n # None /\ n.protoLock
        /\ n.protocol = IF r # None /\ r.protoLock THEN r.protocol ELSE e.type
        /\ n.address = IF r # None /\ r.addrLock THEN r.address ELSE stage[l]
        /\ n.addrLock <=> (r # None /\ r.addrLock) \/ e.locked
    <3>1. UpdateGateway(g, stage[l], e.type, e.locked, TRUE)
      BY <1>7 DEF LoadOf
    <3>2. /\ stage[l] \in Files \cup {"127.0.0.1", "ircDDB", "D-Plus"}
          /\ e.type \in Types \cup {"loopback"} /\ e.locked \in BOOLEAN /\ TRUE \in BOOLEAN
      BY <1>0, <2>1
    <3> HIDE DEF e
    <3>3. ASSUME NEW a \in Files \cup {"127.0.0.1", "ircDDB", "D-Plus"}, NEW t \in Types \cup {"loopback"},
                 NEW b \in BOOLEAN, NEW d \in BOOLEAN, UpdateGateway(g, a, t, b, d)
          PROVE  /\ n # None
                 /\ n.address = IF r # None /\ r.addrLock THEN r.address ELSE a
                 /\ n.protocol = IF r # None /\ r.protoLock THEN r.protocol ELSE t
                 /\ n.addrLock <=> (r # None /\ r.addrLock) \/ b
                 /\ n.protoLock <=> (r # None /\ r.protoLock) \/ d
      <4>1. CachesTypeOK /\ g \in Gateways
        BY <1>0
      <4>. QED BY <3>3, <4>1, RecordUpdate
    <3> HIDE DEF n, r
    <3>. QED BY <3>1, <3>2, <3>3
  <2>5. stage[l] = "custom" /\ Lists("internet", g) => r # None /\ r.protoLock
    BY <1>0 DEF RecordRight, ProtocolRight, Read, Files
  <2>6. e.type = Protocol(g) \/ (r # None /\ r.protoLock)
    BY <1>0, <2>1, <2>5 DEF Protocol, Files
  <2>7. ProtocolRight(g)'
    <3>1. n.protocol = Protocol(g)
      BY <2>4, <2>6 DEF RecordRight, ProtocolRight
    <3>2. \E f \in Files : Lists(f, g)
      BY <1>0, <2>1
    <3> HIDE DEF r
    <3>. QED BY <1>5, <2>4, <3>1, <3>2 DEF ProtocolRight
  <2>8. ASSUME Overrides(g) PROVE stage[l] = "internet" => ~e.locked
    BY <1>0, <1>7, <2>8 DEF Overrides, Lists
  <2>9. AddressRight(g)'
    <3> SUFFICES ASSUME Overrides(g)
                 PROVE  /\ n.address = "internet" => \E k \in Loaders : LoaderOwes(k, g)'
                        /\ n.addrLock => n.address = "custom"
                        /\ hosts["custom"][g].locked => \A k \in Loaders : Read("custom", k, g)' => n.addrLock
      BY <1>0, <1>5, <2>4 DEF AddressRight
    <3>1. /\ r # None /\ r.addrLock => r.address = "custom"
          /\ hosts["custom"][g].locked =>
                \A k \in Loaders : Read("custom", k, g) => r # None /\ r.addrLock
      BY DEF RecordRight, AddressRight
    <3> HIDE DEF n, r
    <3>2. n.address = "internet" => \E k \in Loaders : LoaderOwes(k, g)'
      <4>1. n.address = "internet" => stage[l] = "internet"
        BY <2>4, <3>1
      <4>. QED BY <1>0, <4>1 DEF LoaderOwes
    <3>3. n.addrLock => n.address = "custom"
      <4>1. CASE stage[l] = "custom"
        BY <2>4, <3>1, <4>1
      <4>2. CASE stage[l] = "internet"
        BY <2>4, <2>8, <3>1, <4>2
      <4>. QED BY <1>0, <4>1, <4>2 DEF Files
    <3>4. ASSUME hosts["custom"][g].locked, NEW k \in Loaders, Read("custom", k, g)' PROVE n.addrLock
      <4>1. Read("custom", k, g) \/ stage[l] = "custom"
        BY <1>3, <3>4 DEF Files
      <4>. QED BY <2>4, <3>1, <3>4, <4>1
    <3>. QED BY <3>2, <3>3, <3>4
  <2>. QED BY <2>7, <2>9 DEF RecordRight
<1>. QED BY <1>6, <1>7

(* What ircDDB says changes nothing that is locked. *)
LEMMA AnswerRight ==
    ASSUME CacheTypes, NEW g \in Reflectors \ {Own}, ByAnswer(g), RecordRight(g),
           UNCHANGED <<hosts, stage, left>>
    PROVE  RecordRight(g)'
<1> DEFINE r == gateways[g]
           n == gateways'[g]
<1>0. CachesTypeOK /\ g \in Gateways /\ r \in GatewayRecords \cup {None}
  BY DEF CacheTypes, CachesTypeOK, Gateways
<1>3. /\ n # None
      /\ n.protoLock <=> r # None /\ r.protoLock
      /\ n.protoLock => n.protocol = r.protocol
      /\ n.address = IF r # None /\ r.addrLock THEN r.address ELSE "ircDDB"
      /\ n.addrLock <=> r # None /\ r.addrLock
  <2>1. UpdateGateway(g, "ircDDB", "DExtra", FALSE, FALSE)
    BY DEF ByAnswer
  <2>. QED BY <1>0, <2>1, RecordUpdate DEF Types
<1>4. /\ \A f, l : Read(f, l, g)' = Read(f, l, g)
      /\ \A l : LoaderOwes(l, g)' = LoaderOwes(l, g)
      /\ \A f : Lists(f, g)' = Lists(f, g)
      /\ Protocol(g)' = Protocol(g) /\ Overrides(g)' = Overrides(g)
  BY DEF Read, LoaderOwes, Lists, Protocol, Overrides
<1>5. ProtocolRight(g)'
  <2>1. ProtocolRight(g)
    BY DEF RecordRight
  <2>. QED BY <1>3, <1>4, <2>1 DEF ProtocolRight
<1>6. AddressRight(g)'
  <2>1. AddressRight(g) /\ hosts' = hosts
    BY DEF RecordRight
  <2>. QED BY <1>3, <1>4, <2>1 DEF AddressRight
<1>. QED BY <1>5, <1>6 DEF RecordRight

LEMMA OthersRecord ==
    ASSUME NEW g, gateways'[g] = gateways[g], hosts' = hosts, RecordRight(g),
           \A l \in Loaders :
              /\ \A f \in Files : Read(f, l, g)' => Read(f, l, g)
              /\ LoaderOwes(l, g) => LoaderOwes(l, g)'
    PROVE  RecordRight(g)'
<1>1. /\ \A f : Lists(f, g)' = Lists(f, g)
      /\ Protocol(g)' = Protocol(g) /\ Overrides(g)' = Overrides(g) /\ "custom" \in Files
  BY DEF Lists, Protocol, Overrides, Files
<1>2. ProtocolRight(g)'
  BY <1>1 DEF RecordRight, ProtocolRight
<1>3. AddressRight(g)'
  BY <1>1 DEF RecordRight, AddressRight
<1>. QED BY <1>2, <1>3 DEF RecordRight

LEMMA FilesNext == CacheTypes /\ FilesInv /\ [CacheNext]_cacheVars => FilesInv'
<1> SUFFICES ASSUME CacheTypes, FilesInv, [CacheNext]_cacheVars, NEW g \in Reflectors \ {Own}
             PROVE  RecordRight(g)'
  BY DEF FilesInv
<1>0. CachesTypeOK /\ g \in Gateways /\ RecordRight(g)
  BY DEF CacheTypes, FilesInv, Gateways
<1>1. ASSUME gateways'[g] = gateways[g], UNCHANGED <<hosts, stage, left>> PROVE RecordRight(g)'
  <2>1. \A l, f : /\ Read(f, l, g)' = Read(f, l, g)
                  /\ LoaderOwes(l, g)' = LoaderOwes(l, g)
    BY <1>1 DEF Read, LoaderOwes
  <2>. QED BY <1>0, <1>1, <2>1, OthersRecord
<1>2. ASSUME NEW l \in Loaders, Reload(l) PROVE RecordRight(g)'
  <2>1. /\ stage' = [stage EXCEPT ![l] = "internet"] /\ left' = [left EXCEPT ![l] = Reflectors]
        /\ stage[l] = "done" /\ gateways' = gateways /\ hosts' = hosts
    BY <1>2 DEF Reload, FirstFile
  <2>2. \A k \in Loaders \ {l} : stage'[k] = stage[k] /\ left'[k] = left[k]
    BY <2>1, <1>0 DEF CachesTypeOK
  <2>3. stage'[l] = "internet" /\ left'[l] = Reflectors
    BY <2>1, <1>0 DEF CachesTypeOK
  <2>4. \A k \in Loaders : /\ \A f \in Files : Read(f, k, g)' => Read(f, k, g)
                           /\ LoaderOwes(k, g) => LoaderOwes(k, g)'
    BY <2>2, <2>3 DEF Read, LoaderOwes
  <2>. QED BY <1>0, <2>1, <2>4, OthersRecord
<1>3. ASSUME NEW l \in Loaders, EndOfFile(l) PROVE RecordRight(g)'
  <2>1. /\ stage' = [stage EXCEPT ![l] = IF @ = "internet" THEN "custom" ELSE "done"]
        /\ left' = [left EXCEPT ![l] = IF stage[l] = "internet" THEN Reflectors ELSE {}]
        /\ stage[l] # "done" /\ left[l] = {} /\ gateways' = gateways /\ hosts' = hosts
    BY <1>3, TheOtherFile DEF EndOfFile, FirstFile
  <2>2. \A k \in Loaders \ {l} : stage'[k] = stage[k] /\ left'[k] = left[k]
    BY <2>1, <1>0 DEF CachesTypeOK
  <2>3. /\ stage'[l] = IF stage[l] = "internet" THEN "custom" ELSE "done"
        /\ left'[l] = IF stage[l] = "internet" THEN Reflectors ELSE {}
        /\ stage[l] \in {"internet", "custom"}
    BY <2>1, <1>0 DEF CachesTypeOK, Files
  <2>4. ASSUME NEW k \in Loaders
        PROVE  /\ \A f \in Files : Read(f, k, g)' => Read(f, k, g)
               /\ LoaderOwes(k, g) => LoaderOwes(k, g)'
    BY <2>1, <2>2, <2>3 DEF Read, LoaderOwes, Files
  <2>. QED BY <1>0, <2>1, <2>4, OthersRecord
<1>4. ASSUME NEW l \in Loaders, Load(l) PROVE RecordRight(g)'
  <2>1. PICK k \in left[l] : LoadOf(l, k)
    BY <1>4, LoadShape
  <2>2. CASE k = g
    BY <1>0, <2>1, <2>2, LoadRight
  <2>3. CASE k # g
    <3>1. gateways'[g] = gateways[g]
      <4>1. CASE hosts[stage[l]][k] = None
        BY <2>1, <4>1 DEF LoadOf
      <4>2. CASE hosts[stage[l]][k] # None
        <5>1. /\ UpdateGateway(k, stage[l], hosts[stage[l]][k].type, hosts[stage[l]][k].locked, TRUE)
              /\ k \in Gateways
          BY <2>1, <4>2 DEF LoadOf, Gateways
        <5>. QED BY <1>0, <2>3, <5>1 DEF UpdateGateway, CachesTypeOK
      <4>. QED BY <4>1, <4>2
    <3>2. /\ left' = [left EXCEPT ![l] = @ \ {k}] /\ stage' = stage /\ hosts' = hosts
      BY <2>1 DEF LoadOf
    <3>3. \A o \in Loaders : g \in left'[o] <=> g \in left[o]
      BY <1>0, <2>3, <3>2 DEF CachesTypeOK
    <3>4. \A o \in Loaders : /\ \A f \in Files : Read(f, o, g)' => Read(f, o, g)
                             /\ LoaderOwes(o, g) => LoaderOwes(o, g)'
      BY <3>2, <3>3 DEF Read, LoaderOwes
    <3>. QED BY <1>0, <3>1, <3>2, <3>4, OthersRecord
  <2>. QED BY <2>2, <2>3
<1>5. CASE Learns
  <2>1. PICK k \in Gateways : ByAnswer(k)
    BY <1>5 DEF Learns, ByAnswer, Said
  <2>2. UNCHANGED <<hosts, stage, left>>
    BY <1>5 DEF Learns
  <2>3. CASE k = g
    BY <1>0, <2>1, <2>2, <2>3, AnswerRight
  <2>4. CASE k # g
    <3>1. gateways'[g] = gateways[g]
      BY <1>0, <2>1, <2>4 DEF ByAnswer, UpdateGateway, CachesTypeOK
    <3>. QED BY <1>1, <2>2, <3>1
  <2>. QED BY <2>3, <2>4
<1>6. CASE Authenticated
  <2>1. g # Nameless
    BY CachesAssumption
  <2>2. gateways'[g] = gateways[g]
    BY <1>0, <1>6, <2>1 DEF Authenticated, UpdateGateway, CachesTypeOK
  <2>. QED BY <1>1, <1>6, <2>2 DEF Authenticated
<1>7. CASE UNCHANGED cacheVars
  BY <1>1, <1>7 DEF cacheVars
<1>. QED BY <1>2, <1>3, <1>4, <1>5, <1>6, <1>7 DEF CacheNext

LEMMA FilesAreRight == CacheTypes /\ FilesInv => CustomOverrides /\ FilesDecide
<1> SUFFICES ASSUME CacheTypes, FilesInv PROVE CustomOverrides /\ FilesDecide
  OBVIOUS
<1>1. ASSUME ~Reloading, NEW g \in Reflectors \ {Own}
      PROVE  /\ \A l \in Loaders : ~LoaderOwes(l, g)
             /\ \A f \in Files : Read(f, "gateway", g)
             /\ RecordRight(g) /\ "gateway" \in Loaders
  BY <1>1 DEF Reloading, LoaderOwes, Read, FilesInv, Loaders, Files
<1>2. CustomOverrides
  <2> SUFFICES ASSUME NEW g \in Reflectors \ {Own}, Overrides(g), ~Reloading
               PROVE  /\ gateways[g].address # "internet"
                      /\ hosts["custom"][g].locked => gateways[g].address = "custom"
    BY DEF CustomOverrides, Overrides
  <2>1. gateways[g] # None
    BY <1>1 DEF RecordRight, ProtocolRight, Overrides, Files
  <2>2. AddressRight(g)
    BY <1>1 DEF RecordRight
  <2>. QED BY <1>1, <2>1, <2>2 DEF AddressRight, Files
<1>3. FilesDecide
  <2> SUFFICES ASSUME ~Reloading, NEW g \in Reflectors \ {Own}, NEW f \in Files, Lists(f, g),
                      f = "internet" \/ ~Lists("internet", g)
               PROVE  gateways[g].protocol = hosts[f][g].type
    BY DEF FilesDecide
  <2>1. gateways[g].protocol = Protocol(g)
    BY <1>1 DEF RecordRight, ProtocolRight
  <2>. QED BY <2>1 DEF Protocol, Files
<1>. QED BY <1>2, <1>3

(* Whatever the two loaders, ircDDB and the authenticator write in which   *)
(* order: what is found at this gateway is local, the custom file has the  *)
(* last word on an address and the files on a protocol.                    *)
THEOREM CachesStayRight == CacheSpec => []CachesRight
<1>1. CacheInit => CacheTypes /\ LocalInv /\ FilesInv
  BY CacheTypesInit, LocalInitially, FilesInitially
<1>2. CacheTypes /\ LocalInv /\ FilesInv /\ [CacheNext]_cacheVars => (CacheTypes /\ LocalInv /\ FilesInv)'
  BY CacheTypesNext, LocalNext, FilesNext
<1>3. CacheTypes /\ LocalInv /\ FilesInv => CachesRight
  BY LocalIsRight, FilesAreRight DEF CachesRight
<1>. QED BY <1>1, <1>2, <1>3, PTL DEF CacheSpec

---------------------------------------------------------------------------
(* IrcNames *)

LEMMA MaxOfBounded ==
    ASSUME NEW N \in Nat, NEW S, S \subseteq 0..N, S # {}
    PROVE  Max(S) \in S /\ \A y \in S : y =< Max(S)
<1> DEFINE less == {p \in Nat \X Nat : p[1] < p[2]}
           T == {N - x : x \in S}
<1>1. IsWellFoundedOn(less, Nat)
  BY NatLessThanWellFounded DEF OpToRel
<1>2. T \subseteq Nat /\ T # {}
  <2>1. \A x \in S : N - x \in Nat
    OBVIOUS
  <2>. QED BY <2>1
<1>3. PICK d \in T : \A y \in T : ~ (<<y, d>> \in less)
  <2> HIDE DEF less, T
  <2>. QED BY <1>1, <1>2, WFMin
<1>4. PICK x \in S : d = N - x
  BY <1>3
<1>5. ASSUME NEW y \in S PROVE y =< x
  <2>1. N - y \in T /\ <<N - y, d>> \in Nat \X Nat
    BY <1>2, <1>3
  <2>2. ~(N - y < d)
    BY <1>3, <2>1
  <2>. QED BY <1>4, <2>2
<1>. QED BY <1>5 DEF Max

(* The number of a new copy is above those of all that are there. *)
LEMMA UsnAbove ==
    ASSUME NEW m, NEW M \in Nat, NEW nicks, m \in UserMap(nicks, M), NEW same
    PROVE  /\ CalculateUsn(m, same) \in Nat \ {0}
           /\ \A n \in same \cap DOMAIN m : m[n].usn < CalculateUsn(m, same)
<1> DEFINE S == {0} \cup {m[n].usn : n \in same \cap DOMAIN m}
<1>1. \A n \in DOMAIN m : m[n].usn \in 1..M
  BY DEF UserMap
<1>2. S \subseteq 0..M /\ S # {}
  BY <1>1
<1>3. Max(S) \in S /\ \A y \in S : y =< Max(S)
  <2> HIDE DEF S
  <2>. QED BY <1>2, MaxOfBounded
<1>4. CalculateUsn(m, same) = Max(S) + 1
  BY DEF CalculateUsn
<1>5. Max(S) \in Nat
  BY <1>2, <1>3
<1>6. ASSUME NEW n \in same \cap DOMAIN m PROVE m[n].usn < Max(S) + 1
  <2>1. m[n].usn \in S /\ m[n].usn \in Nat
    BY <1>1
  <2> HIDE DEF S
  <2>. QED BY <1>3, <1>5, <2>1
<1> HIDE DEF S
<1>. QED BY <1>4, <1>5, <1>6

LEMMA UserMapShape ==
    ASSUME NEW m, NEW nicks, NEW M
    PROVE  m \in UserMap(nicks, M) <=>
              /\ DOMAIN m \subseteq nicks /\ m = [n \in DOMAIN m |-> m[n]]
              /\ \A n \in DOMAIN m : m[n] \in [op : BOOLEAN, usn : 1..M]
BY DEF UserMap

LEMMA EmptyMap == UserListReset \in UserMap(Copies, MaxJoins) /\ DOMAIN UserListReset = {}
<1>1. DOMAIN UserListReset = {} /\ UserListReset = [n \in DOMAIN UserListReset |-> UserListReset[n]]
  BY DEF UserListReset
<1> HIDE DEF UserListReset
<1>. QED BY <1>1, UserMapShape

(* The numbers of the copies tell who came before whom. *)
NamesInv ==
    /\ NamesTypeOK
    /\ \A a, b \in DOMAIN userMap :
          /\ a \in earlier[b] <=> userMap[a].usn < userMap[b].usn
          /\ userMap[a].usn = userMap[b].usn => a = b

LEMMA NamesJoin ==
    ASSUME NamesInv, NEW n \in Copies, NameJoins(n)
    PROVE  NamesInv'
<1> DEFINE D == DOMAIN userMap
           new == CalculateUsn(userMap, Copies)
           m == UserJoin(userMap, n, Copies)
<1>1. /\ userMap \in UserMap(Copies, MaxJoins) /\ D \subseteq Copies
      /\ \A k \in D : userMap[k] \in [op : BOOLEAN, usn : 1..MaxJoins]
  BY UserMapShape DEF NamesInv, NamesTypeOK
<1>2. /\ new \in 1..MaxJoins
      /\ \A k \in D : userMap[k].usn < new
  <2>1. /\ new \in Nat \ {0} /\ \A k \in Copies \cap D : userMap[k].usn < new
    BY <1>1, UsnAbove, NamesAssumption
  <2>2. new <= MaxJoins
    BY DEF NameJoins
  <2> HIDE DEF new
  <2>. QED BY <1>1, <2>1, <2>2, NamesAssumption
<1>3. userMap' = m /\ earlier' = [k \in D \cup {n} |-> (IF k = n THEN D ELSE earlier[k]) \ {n}]
  BY DEF NameJoins
<1>4. /\ DOMAIN m = D \cup {n} /\ m[n] = [op |-> FALSE, usn |-> new]
      /\ \A k \in D \ {n} : m[k] = userMap[k]
      /\ m = [k \in DOMAIN m |-> m[k]]
  BY DEF UserJoin
<1> HIDE DEF new, m
<1>5. m \in UserMap(Copies, MaxJoins)
  <2>1. DOMAIN m \subseteq Copies
    BY <1>1, <1>4
  <2>2. ASSUME NEW k \in DOMAIN m PROVE m[k] \in [op : BOOLEAN, usn : 1..MaxJoins]
    <3>1. CASE k = n
      <4>1. [op |-> FALSE, usn |-> new] \in [op : BOOLEAN, usn : 1..MaxJoins]
        BY <1>2
      <4>. QED BY <1>4, <3>1, <4>1
    <3>2. CASE k # n
      BY <1>1, <1>4, <3>2
    <3>. QED BY <3>1, <3>2
  <2>. QED BY <1>4, <2>1, <2>2, UserMapShape
<1>6. /\ DOMAIN earlier' = DOMAIN m
      /\ \A k \in DOMAIN m : earlier'[k] \subseteq DOMAIN m
  BY <1>3, <1>4 DEF NamesInv, NamesTypeOK
<1>7. ASSUME NEW a \in DOMAIN m, NEW b \in DOMAIN m
      PROVE  /\ a \in earlier'[b] <=> m[a].usn < m[b].usn
             /\ m[a].usn = m[b].usn => a = b
  <2>1. CASE a # n /\ b # n
    BY <1>3, <1>4, <2>1 DEF NamesInv
  <2>2. CASE a # n /\ b = n
    <3>1. m[a].usn < m[b].usn /\ a \in D /\ m[a].usn \in Nat /\ m[b].usn \in Nat
      <4>1. m[b].usn = new /\ new \in Nat
        BY <1>2, <1>4, <2>2
      <4>2. a \in D /\ m[a] = userMap[a] /\ userMap[a].usn \in Nat /\ userMap[a].usn < new
        BY <1>1, <1>2, <1>4, <2>2
      <4>. QED BY <4>1, <4>2
    <3>. QED BY <1>3, <1>4, <2>2, <3>1
  <2>3. CASE a = n /\ b # n
    <3>1. m[b].usn < m[a].usn /\ b \in D /\ m[a].usn \in Nat /\ m[b].usn \in Nat
      <4>1. m[a].usn = new /\ new \in Nat
        BY <1>2, <1>4, <2>3
      <4>2. b \in D /\ m[b] = userMap[b] /\ userMap[b].usn \in Nat /\ userMap[b].usn < new
        BY <1>1, <1>2, <1>4, <2>3
      <4>. QED BY <4>1, <4>2
    <3>. QED BY <1>3, <1>4, <2>3, <3>1
  <2>4. CASE a = n /\ b = n
    BY <1>2, <1>3, <1>4, <2>4
  <2>. QED BY <2>1, <2>2, <2>3, <2>4
<1>. QED BY <1>3, <1>5, <1>6, <1>7, ZenonT(40) DEF NamesInv, NamesTypeOK

LEMMA NamesNextInv == NamesInv /\ [NamesNext]_namesVars => NamesInv'
<1> SUFFICES ASSUME NamesInv, [NamesNext]_namesVars PROVE NamesInv'
  OBVIOUS
<1>1. ASSUME NEW n \in Copies, NameJoins(n) PROVE NamesInv'
  BY <1>1, NamesJoin
<1>2. ASSUME NEW n \in Copies, NameLeaves(n) PROVE NamesInv'
  <2> DEFINE D == DOMAIN userMap \ {n}
  <2>1. /\ userMap' = [k \in D |-> userMap[k]]
        /\ earlier' = [k \in D |-> earlier[k] \ {n}]
    BY <1>2 DEF NameLeaves, RemoveUser, Restrict
  <2>2. userMap \in UserMap(Copies, MaxJoins) /\ D \subseteq DOMAIN userMap
    BY DEF NamesInv, NamesTypeOK
  <2>3. userMap' \in UserMap(Copies, MaxJoins)
    BY <2>1, <2>2, UserMapShape
  <2>. QED BY <2>1, <2>2, <2>3 DEF NamesInv, NamesTypeOK
<1>3. CASE NamesReset
  BY <1>3, EmptyMap DEF NamesReset, NamesInv, NamesTypeOK
<1>4. CASE UNCHANGED namesVars
  BY <1>4 DEF namesVars, NamesInv, NamesTypeOK
<1>. QED BY <1>1, <1>2, <1>3, <1>4 DEF NamesNext

LEMMA NamesInvInit == NamesInit => NamesInv
BY EmptyMap DEF NamesInit, NamesInv, NamesTypeOK

LEMMA LatestHasLast == NamesInv => LatestAddress
<1> SUFFICES ASSUME NamesInv, DOMAIN userMap # {}
             PROVE  LET n == AddressFromCall(userMap, Copies)
                    IN  n \in DOMAIN userMap /\ earlier[n] = DOMAIN userMap \ {n}
  BY DEF LatestAddress
<1> DEFINE D == DOMAIN userMap
           S == {userMap[k].usn : k \in D}
           n == AddressFromCall(userMap, Copies)
<1>1. /\ D \subseteq Copies /\ \A k \in D : userMap[k] \in [op : BOOLEAN, usn : 1..MaxJoins]
  BY UserMapShape DEF NamesInv, NamesTypeOK
<1>2. S \subseteq 0..MaxJoins /\ S # {}
  BY <1>1
<1>3. Max(S) \in S /\ \A y \in S : y =< Max(S)
  <2> HIDE DEF S
  <2>. QED BY <1>2, MaxOfBounded, NamesAssumption
<1>4. \E k \in D : \A j \in D : userMap[j].usn <= userMap[k].usn
  BY <1>3
<1>5. n \in D /\ \A j \in D : userMap[j].usn <= userMap[n].usn
  <2>1. Copies \cap D = D
    BY <1>1
  <2>. QED BY <1>4, <2>1 DEF AddressFromCall
<1> HIDE DEF n
<1>6. \A j \in D \ {n} : userMap[j].usn < userMap[n].usn
  BY <1>1, <1>5 DEF NamesInv
<1>7. earlier[n] = D \ {n}
  BY <1>1, <1>5, <1>6 DEF NamesInv, NamesTypeOK
<1>. QED BY <1>5, <1>7 DEF n

(* However often the copies of a gateway come, crash and come back, a     *)
(* stream goes to the one that came last: its number is above those of    *)
(* the others, also when it came under a name that was still there.        *)
THEOREM LatestIsFound == NamesSpec => []LatestAddress
BY NamesInvInit, NamesNextInv, LatestHasLast, PTL DEF NamesSpec

---------------------------------------------------------------------------
(* Remote control *)

OnTheWay == DOMAIN datagrams

RemoteTypes ==
    /\ RemoteTypeOK /\ buffer \in [Programs -> Request]
    /\ \A p \in Programs : phase[p] \in AwaitsAnswer => polls[p] < MaxPolls

(* A number is known to the one it was given to, and only the last one is  *)
(* the one of the program that tried to log in last.                       *)
KnownNumber(p, r) == r <= random /\ (r = random => owner = p)

NumbersInv ==
    /\ \A m \in OnTheWay : m.kind = "SHA" => KnownNumber(m.from, m.random)
    /\ \A m \in OnTheWay : m.kind = "RND" => KnownNumber(m.to, m.random)
    /\ \A p \in Programs : buffer[p].kind = "SHA" => KnownNumber(p, buffer[p].random)

(* The requests of a program that are on their way, and what it is told.   *)
(* One without the password may have any there but a hash.                 *)
NoRequest(p, kinds) ==
    \A m \in OnTheWay : m.kind \in kinds /\ (p \in trusted \/ m.kind = "SHA") => m.from # p
NoAck(p)    == \A m \in OnTheWay : m.kind = "ACK" => m.to # p
OneAck(p)   == \A m \in OnTheWay : m.kind = "ACK" /\ m.to = p => datagrams[m] <= 1
SpentSha(p) == \A m \in OnTheWay : m.kind = "SHA" /\ m.from = p /\ m.random = random => loggedIn

(* How far the gateway is with a program, for what the program has got to. *)
BeforeHash(p) ==
    phase[p] \in {"idle", "login"} =>
        /\ buffer[p].kind = "LIN" /\ p \notin done
        /\ NoAck(p) /\ NoRequest(p, {"SHA", "LNK"})
AtHash(p) ==
    phase[p] = "hash" =>
        /\ buffer[p].kind = "SHA" /\ p \notin done
        /\ NoRequest(p, {"LNK"}) /\ OneAck(p)
        /\ \A m \in OnTheWay : m.kind = "SHA" /\ m.from = p => m.random = buffer[p].random
        /\ NoAck(p) \/ (buffer[p].random = random => loggedIn)
AtCommand(p) ==
    phase[p] = "command" =>
        /\ buffer[p].kind = "LNK"
        /\ p \notin done => NoAck(p) /\ SpentSha(p)
AtEnd(p) ==
    /\ phase[p] = "accepted" => p \in done
    /\ phase[p] # "accepted" => NoRequest(p, {"LOG"})
    /\ buffer[p].kind # "LOG"

ProgramInv(p) == BeforeHash(p) /\ AtHash(p) /\ AtCommand(p) /\ AtEnd(p)

(* One program at a time, no delay: there is one datagram, the next one. *)
Nobodys == \A p \in Programs : phase[p] \notin AwaitsAnswer
Wired(m) == datagrams = One(m)
AloneAt(p) ==
    /\ phase[p] = "login" =>
         \/ Wired(buffer[p])
         \/ owner = p /\ ~loggedIn /\ Wired([to |-> p, kind |-> "RND", random |-> random])
    /\ phase[p] = "hash" =>
         /\ owner = p /\ buffer[p].random = random
         /\ \/ ~loggedIn /\ Wired(buffer[p])
            \/ loggedIn /\ Wired([to |-> p, kind |-> "ACK"])
    /\ phase[p] = "command" =>
         owner = p /\ loggedIn /\ (Wired(buffer[p]) \/ Wired([to |-> p, kind |-> "ACK"]))

AloneInv ==
    alone =>
        /\ trusted = Programs /\ sensible = Programs
        /\ \A p \in Programs : phase[p] \in {"idle", "login", "hash", "command", "accepted"}
        /\ \A p, q \in Programs : phase[p] \in AwaitsAnswer /\ phase[q] \in AwaitsAnswer => p = q
        /\ Nobodys => datagrams = EmptyBag \/ \E p \in Programs : Wired([from |-> p, kind |-> "LOG"])
        /\ \A p \in Programs : AloneAt(p)

RemoteInv ==
    RemoteTypes /\ NumbersInv /\ OnlyTrusted /\ (\A p \in Programs : ProgramInv(p)) /\ AloneInv

(* Bags: fewer datagrams than before, or at most one more of a kind. *)
Fewer(b, c) == IsABag(b) /\ DOMAIN b \subseteq DOMAIN c /\ \A m \in DOMAIN b : b[m] <= c[m]
Plus(b, c, n) ==
    /\ IsABag(c) /\ DOMAIN c \subseteq DOMAIN b \cup {n}
    /\ \A m \in DOMAIN c \ {n} : c[m] <= b[m]
    /\ n \in DOMAIN c /\ n \notin DOMAIN b => c[n] = 1

LEMMA LeftIsFewer ==
    ASSUME NEW b, IsABag(b), NEW n \in DOMAIN b
    PROVE  /\ Fewer(b (-) One(n), b)
           /\ b[n] <= 1 => n \notin DOMAIN (b (-) One(n))
BY DEF Fewer, IsABag, (-), One, SetToBag

LEMMA CarriedIsPlus ==
    ASSUME NEW b, IsABag(b), NEW n
    PROVE  Plus(b, Carried(b, n), n)
<1>1. IsABag(b (+) One(n)) /\ DOMAIN (b (+) One(n)) = DOMAIN b \cup {n}
  BY DEF IsABag, (+), One, SetToBag
<1>2. \A m \in DOMAIN (b (+) One(n)) \ {n} : (b (+) One(n))[m] <= b[m]
  BY DEF IsABag, (+), One, SetToBag
<1>3. n \notin DOMAIN b => (b (+) One(n))[n] = 1
  BY DEF IsABag, (+), One, SetToBag
<1>4. Plus(b, b (+) One(n), n)
  BY <1>1, <1>2, <1>3 DEF Plus
<1>5. Plus(b, b, n)
  BY DEF Plus, IsABag
<1>. QED BY <1>4, <1>5 DEF Carried

LEMMA WithoutIsFewer ==
    ASSUME NEW b, IsABag(b), NEW p
    PROVE  Fewer(WithoutAnswersTo(p, b), b)
BY DEF Fewer, IsABag, WithoutAnswersTo

LEMMA FewerOfFewer ==
    ASSUME NEW a, NEW b, NEW c, Fewer(a, b), Fewer(b, c), IsABag(c)
    PROVE  Fewer(a, c)
<1>. SUFFICES ASSUME NEW m \in DOMAIN a PROVE a[m] <= c[m]
  BY DEF Fewer
<1>1. m \in DOMAIN b /\ m \in DOMAIN c /\ a[m] <= b[m] /\ b[m] <= c[m]
  BY DEF Fewer
<1>2. a[m] \in Nat /\ b[m] \in Nat /\ c[m] \in Nat
  BY <1>1 DEF Fewer, IsABag
<1>. QED BY <1>1, <1>2

LEMMA PlusOfFewer ==
    ASSUME NEW a, NEW b, NEW c, NEW n, Fewer(a, b), Plus(a, c, n), IsABag(b)
    PROVE  Plus(b, c, n)
<1>1. ASSUME NEW m \in DOMAIN c \ {n} PROVE c[m] <= b[m]
  BY <1>1 DEF Fewer, Plus, IsABag
<1>. QED BY <1>1 DEF Fewer, Plus

(* One datagram and none. *)
LEMMA WireOfOne ==
    ASSUME NEW n
    PROVE  /\ One(n) (-) One(n) = EmptyBag
           /\ Carried(EmptyBag, n) = One(n)
           /\ DOMAIN One(n) = {n} /\ DOMAIN EmptyBag = {}
<1>1. DOMAIN One(n) = {n} /\ One(n) = [m \in {n} |-> 1]
  BY DEF One, SetToBag
<1>2. EmptyBag = [m \in {} |-> 1] /\ DOMAIN EmptyBag = {}
  BY DEF EmptyBag, SetToBag
<1>3. DOMAIN (One(n) (-) One(n)) = {}
  BY <1>1 DEF (-)
<1>4. One(n) (-) One(n) = EmptyBag
  BY <1>2, <1>3 DEF (-)
<1>5. EmptyBag (+) One(n) = One(n)
  BY <1>1, <1>2 DEF (+)
<1>6. BagCardinality(EmptyBag) = 0
  BY DEF BagCardinality, EmptyBag, SetToBag
<1>. QED BY <1>1, <1>2, <1>4, <1>5, <1>6, RemoteAssumption DEF Carried

LEMMA WithoutOfEmpty ==
    ASSUME NEW p PROVE WithoutAnswersTo(p, EmptyBag) = EmptyBag
BY DEF WithoutAnswersTo, EmptyBag, SetToBag

(* The shapes of datagrams. *)
LEMMA DatagramShape ==
    /\ \A m \in Request : /\ m.from \in Programs /\ m.kind \in {"LIN", "LNK", "LOG", "SHA"}
                          /\ "from" \in DOMAIN m /\ "to" \notin DOMAIN m
                          /\ m.kind = "SHA" => m.random \in Nat
    /\ \A m \in Response : /\ m.to \in Programs /\ m.kind \in {"ACK", "NAK", "RND"}
                           /\ "to" \in DOMAIN m /\ "from" \notin DOMAIN m
                           /\ m.kind = "RND" => m.random \in Nat
BY DEF Request, Response, Randoms

LEMMA RequestsMade ==
    ASSUME NEW p \in Programs
    PROVE  /\ [from |-> p, kind |-> "LIN"] \in Request
           /\ [from |-> p, kind |-> "LNK"] \in Request
           /\ [from |-> p, kind |-> "LOG"] \in Request
           /\ \A r \in Nat : [from |-> p, kind |-> "SHA", random |-> r] \in Request
           /\ [to |-> p, kind |-> "ACK"] \in Response
           /\ [to |-> p, kind |-> "NAK"] \in Response
           /\ \A r \in Nat : [to |-> p, kind |-> "RND", random |-> r] \in Response
BY DEF Request, Response, Randoms

LEMMA SameAck ==
    ASSUME NEW m \in Response, m.kind = "ACK"
    PROVE  m = [to |-> m.to, kind |-> "ACK"]
BY DEF Response

LEMMA WireShape ==
    ASSUME RemoteTypes
    PROVE  /\ IsABag(datagrams)
           /\ \A m \in OnTheWay : /\ m \in Request \cup Response
                                  /\ m.kind \in {"SHA", "LNK", "LOG", "LIN"} => m \in Request
                                  /\ m.kind \in {"ACK", "NAK", "RND"} => m \in Response
                                  /\ m.kind \in {"SHA", "RND"} => m.random \in Nat
           /\ \A p \in Programs : /\ buffer[p] \in Request /\ buffer[p].from = p
                                  /\ buffer[p].kind = "SHA" => buffer[p].random \in Nat
           /\ random \in Nat
<1>1. IsABag(datagrams) /\ OnTheWay \subseteq Request \cup Response /\ random \in Nat
  BY DEF RemoteTypes, RemoteTypeOK, BagToSet, OnTheWay, Randoms
<1>2. \A p \in Programs : buffer[p] \in Request /\ buffer[p].from = p
  BY DEF RemoteTypes, RemoteTypeOK
<1>. QED BY <1>1, <1>2, DatagramShape

(* A step that is about another program. *)
About(m, q) ==
    \/ m.kind \in {"SHA", "LNK", "LOG"} /\ m.from = q
    \/ m.kind = "ACK" /\ m.to = q
NothingNewFor(q) ==
    /\ IsABag(datagrams')
    /\ \A m \in DOMAIN datagrams' : About(m, q) => m \in OnTheWay /\ datagrams'[m] <= datagrams[m]
GatewayKeeps(q) ==
    \/ random' = random /\ (loggedIn /\ owner = q /\ phase[q] # "accepted" => loggedIn')
    \/ random' \in Nat /\ random < random'

LEMMA QuietProgram ==
    ASSUME RemoteTypes, NumbersInv, NEW q \in Programs, ProgramInv(q),
           phase'[q] = phase[q], buffer'[q] = buffer[q], q \in done' <=> q \in done,
           trusted' = trusted, NothingNewFor(q), GatewayKeeps(q)
    PROVE  ProgramInv(q)'
<1>0. /\ \A m \in DOMAIN datagrams' : About(m, q) => m \in OnTheWay /\ datagrams'[m] <= datagrams[m]
      /\ \A m \in OnTheWay : datagrams[m] \in Nat
      /\ \A m \in DOMAIN datagrams' : datagrams'[m] \in Nat
  BY WireShape DEF NothingNewFor, IsABag, OnTheWay
<1>a. NoAck(q) => NoAck(q)'
  BY <1>0 DEF NoAck, OnTheWay, About
<1>b. OneAck(q) => OneAck(q)'
  BY <1>0 DEF OneAck, OnTheWay, About
<1>c. /\ NoRequest(q, {"LNK"}) => NoRequest(q, {"LNK"})'
      /\ NoRequest(q, {"SHA", "LNK"}) => NoRequest(q, {"SHA", "LNK"})'
      /\ NoRequest(q, {"LOG"}) => NoRequest(q, {"LOG"})'
  BY <1>0 DEF NoRequest, OnTheWay, About
<1>d. /\ \A m \in OnTheWay : m.kind = "SHA" /\ m.from = q =>
           m.random \in Nat /\ m.random <= random /\ (m.random = random => owner = q)
      /\ buffer[q].kind = "SHA" =>
           buffer[q].random \in Nat /\ buffer[q].random <= random /\ (buffer[q].random = random => owner = q)
      /\ random \in Nat
  BY WireShape DEF NumbersInv, KnownNumber
<1>1. BeforeHash(q)'
  BY <1>a, <1>c DEF ProgramInv, BeforeHash
<1>2. ASSUME phase[q] = "hash" PROVE AtHash(q)'
  <2>1. /\ buffer[q].kind = "SHA" /\ q \notin done
        /\ NoRequest(q, {"LNK"}) /\ OneAck(q)
        /\ \A m \in OnTheWay : m.kind = "SHA" /\ m.from = q => m.random = buffer[q].random
        /\ NoAck(q) \/ (buffer[q].random = random => loggedIn)
    BY <1>2 DEF ProgramInv, AtHash
  <2>2. \A m \in DOMAIN datagrams' : m.kind = "SHA" /\ m.from = q => m.random = buffer[q].random
    BY <2>1, <1>0 DEF About
  <2>3. NoAck(q)' \/ (buffer[q].random = random' => loggedIn')
    <3>1. CASE NoAck(q)
      BY <3>1, <1>a
    <3>2. CASE (buffer[q].random = random => loggedIn) /\ random' = random
      BY <3>2, <2>1, <1>d, <1>2 DEF GatewayKeeps
    <3>3. CASE random' \in Nat /\ random < random'
      BY <3>3, <2>1, <1>d
    <3>. QED BY <2>1, <3>1, <3>2, <3>3 DEF GatewayKeeps
  <2>. QED BY <2>1, <2>2, <2>3, <1>b, <1>c DEF AtHash, OnTheWay
<1>3. ASSUME phase[q] = "command" PROVE AtCommand(q)'
  <2>1. SpentSha(q) => SpentSha(q)'
    <3>1. SUFFICES ASSUME SpentSha(q), NEW m \in DOMAIN datagrams', m.kind = "SHA", m.from = q, m.random = random'
                   PROVE  loggedIn'
      BY DEF SpentSha, OnTheWay
    <3>2. m \in OnTheWay
      BY <3>1, <1>0 DEF About
    <3>3. m.random \in Nat /\ m.random <= random /\ (m.random = random => owner = q)
      BY <3>1, <3>2, <1>d
    <3>4. random' = random /\ (loggedIn /\ owner = q /\ phase[q] # "accepted" => loggedIn')
      BY <3>1, <3>3, <1>d DEF GatewayKeeps
    <3>5. loggedIn
      BY <3>1, <3>2, <3>4 DEF SpentSha
    <3>. QED BY <3>1, <3>3, <3>4, <3>5, <1>3
  <2>. QED BY <1>3, <2>1, <1>a DEF ProgramInv, AtCommand
<1>4. AtEnd(q)'
  BY <1>c DEF ProgramInv, AtEnd
<1>. QED BY <1>1, <1>2, <1>3, <1>4 DEF ProgramInv, AtHash, AtCommand

(* A program that gives up. *)
LEMMA StoppedProgram ==
    ASSUME RemoteTypes, NEW q \in Programs, ProgramInv(q), phase[q] # "accepted",
           phase'[q] \in {"rejected", "bad password", "silence"}, buffer'[q] = buffer[q],
           trusted' = trusted, NothingNewFor(q)
    PROVE  ProgramInv(q)'
<1>1. NoRequest(q, {"LOG"}) => NoRequest(q, {"LOG"})'
  BY DEF NothingNewFor, NoRequest, OnTheWay, About
<1>. QED BY <1>1 DEF ProgramInv, BeforeHash, AtHash, AtCommand, AtEnd

KnownNext(p, r) == r <= random' /\ (r = random' => owner' = p)

(* Numbers stay the numbers of those they were given to. *)
LEMMA NumbersKept ==
    ASSUME RemoteTypes, NumbersInv, NEW n, DOMAIN datagrams' \subseteq OnTheWay \cup {n},
           n.kind = "SHA" => KnownNext(n.from, n.random),
           n.kind = "RND" => KnownNext(n.to, n.random),
           \A p \in Programs : \/ buffer'[p] = buffer[p]
                               \/ buffer'[p].kind = "SHA" => KnownNext(p, buffer'[p].random),
           UNCHANGED <<owner, random>> \/ (random' \in Nat /\ random < random')
    PROVE  NumbersInv'
<1>1. ASSUME NEW p, NEW r \in Nat, KnownNumber(p, r) PROVE KnownNext(p, r)
  BY <1>1, WireShape DEF KnownNumber, KnownNext
<1>2. \A m \in DOMAIN datagrams' : m.kind = "SHA" => KnownNext(m.from, m.random)
  BY <1>1, WireShape DEF NumbersInv
<1>3. \A m \in DOMAIN datagrams' : m.kind = "RND" => KnownNext(m.to, m.random)
  BY <1>1, WireShape DEF NumbersInv
<1>4. \A p \in Programs : buffer'[p].kind = "SHA" => KnownNext(p, buffer'[p].random)
  <2>. SUFFICES ASSUME NEW p \in Programs, buffer'[p].kind = "SHA" PROVE KnownNext(p, buffer'[p].random)
    OBVIOUS
  <2>1. CASE buffer'[p] = buffer[p]
    <3>1. buffer[p].random \in Nat /\ KnownNumber(p, buffer[p].random)
      BY <2>1, WireShape DEF NumbersInv
    <3>2. KnownNext(p, buffer[p].random)
      BY <3>1, WireShape, <2>1 DEF KnownNumber, KnownNext
    <3>. QED BY <3>2, <2>1
  <2>. QED BY <2>1
<1>. QED BY <1>2, <1>3, <1>4 DEF NumbersInv, OnTheWay, KnownNumber, KnownNext

(* Everything but what holds of one program at a time. *)
SafeInv == RemoteTypes /\ NumbersInv /\ OnlyTrusted /\ \A p \in Programs : ProgramInv(p)

LEMMA FewerIsPlus ==
    ASSUME NEW b, NEW c, NEW n, Fewer(c, b)
    PROVE  Plus(b, c, n)
BY DEF Fewer, Plus

LEMMA WireAfter ==
    ASSUME RemoteTypes, NEW n \in Request \cup Response, Plus(datagrams, datagrams', n)
    PROVE  /\ IsABag(datagrams') /\ BagToSet(datagrams') \subseteq Request \cup Response
           /\ DOMAIN datagrams' \subseteq OnTheWay \cup {n}
           /\ \A q \in Programs : ~About(n, q) => NothingNewFor(q)
<1>1. OnTheWay \subseteq Request \cup Response
  BY WireShape
<1>2. /\ IsABag(datagrams') /\ DOMAIN datagrams' \subseteq OnTheWay \cup {n}
      /\ \A m \in DOMAIN datagrams' \ {n} : datagrams'[m] <= datagrams[m]
  BY DEF Plus, OnTheWay
<1>3. BagToSet(datagrams') \subseteq Request \cup Response
  BY <1>1, <1>2 DEF BagToSet
<1>4. ASSUME NEW q \in Programs, ~About(n, q) PROVE NothingNewFor(q)
  BY <1>2, <1>4 DEF NothingNewFor
<1>. QED BY <1>2, <1>3, <1>4

(* A step of a program: it sends a request of its own or nothing. *)
LEMMA ProgramMoves ==
    ASSUME SafeInv, NEW p \in Programs, UNCHANGED <<gateway, setting>>,
           NEW n \in Request, n.from = p, Plus(datagrams, datagrams', n),
           NEW x \in Phases, phase' = [phase EXCEPT ![p] = x],
           NEW c \in 0 .. MaxPolls, polls' = [polls EXCEPT ![p] = c], x \in AwaitsAnswer => c < MaxPolls,
           NEW r \in 0 .. MaxRetries - 1, retryCount' = [retryCount EXCEPT ![p] = r],
           NEW b \in Request, b.from = p, buffer' = [buffer EXCEPT ![p] = b],
           n.kind = "SHA" => KnownNumber(p, n.random), b.kind = "SHA" => KnownNumber(p, b.random),
           ProgramInv(p)'
    PROVE  SafeInv'
<1>0. RemoteTypes /\ NumbersInv /\ OnlyTrusted /\ \A q \in Programs : ProgramInv(q)
  BY DEF SafeInv
<1>1. UNCHANGED <<loggedIn, owner, random, done, trusted, sensible, alone>>
  BY DEF gateway, setting
<1>2. /\ phase \in [Programs -> Phases] /\ polls \in [Programs -> 0 .. MaxPolls]
      /\ retryCount \in [Programs -> 0 .. MaxRetries - 1] /\ buffer \in [Programs -> Request]
      /\ \A q \in Programs : phase[q] \in AwaitsAnswer => polls[q] < MaxPolls
      /\ \A q \in Programs : buffer[q].from = q
      /\ loggedIn \in BOOLEAN /\ owner \in Programs \cup {Nobody} /\ random \in Randoms
      /\ done \subseteq Programs /\ trusted \subseteq Programs /\ sensible \subseteq Programs
      /\ alone \in BOOLEAN
  BY <1>0 DEF RemoteTypes, RemoteTypeOK
<1>3. /\ IsABag(datagrams') /\ BagToSet(datagrams') \subseteq Request \cup Response
      /\ DOMAIN datagrams' \subseteq OnTheWay \cup {n}
      /\ \A q \in Programs : ~About(n, q) => NothingNewFor(q)
  BY <1>0, WireAfter
<1>4. RemoteTypes'
  <2>1. /\ phase' \in [Programs -> Phases] /\ polls' \in [Programs -> 0 .. MaxPolls]
        /\ retryCount' \in [Programs -> 0 .. MaxRetries - 1] /\ buffer' \in [Programs -> Request]
    BY <1>2
  <2>2. \A q \in Programs : phase'[q] \in AwaitsAnswer => polls'[q] < MaxPolls
    BY <1>2
  <2>3. \A q \in Programs : buffer'[q] \in Request /\ buffer'[q].from = q
    BY <1>2, <2>1
  <2>. QED BY <1>1, <1>2, <1>3, <2>1, <2>2, <2>3 DEF RemoteTypes, RemoteTypeOK
<1>5. NumbersInv'
  <2>1. n.kind # "RND"
    BY DatagramShape
  <2>2. \A q \in Programs : \/ buffer'[q] = buffer[q]
                            \/ buffer'[q].kind = "SHA" => KnownNext(q, buffer'[q].random)
    BY <1>1, <1>2 DEF KnownNumber, KnownNext
  <2>3. n.kind = "SHA" => KnownNext(n.from, n.random)
    BY <1>1 DEF KnownNumber, KnownNext
  <2>. QED BY <1>0, <1>1, <1>3, <2>1, <2>2, <2>3, NumbersKept
<1>6. OnlyTrusted'
  BY <1>0, <1>1 DEF OnlyTrusted
<1>7. ASSUME NEW q \in Programs, q # p PROVE ProgramInv(q)'
  <2>1. ~About(n, q)
    BY <1>7, DatagramShape DEF About
  <2>2. phase'[q] = phase[q] /\ buffer'[q] = buffer[q] /\ (q \in done' <=> q \in done)
    BY <1>1, <1>2, <1>7
  <2>3. GatewayKeeps(q)
    BY <1>1 DEF GatewayKeeps
  <2>. QED BY <1>0, <1>1, <1>3, <2>1, <2>2, <2>3, QuietProgram
<1>. QED BY <1>4, <1>5, <1>6, <1>7 DEF SafeInv

(* A step of the gateway: it sends an answer or nothing. *)
LEMMA GatewayMoves ==
    ASSUME SafeInv, UNCHANGED <<phase, polls, retryCount, buffer, setting>>,
           NEW n \in Response, Plus(datagrams, datagrams', n),
           n.kind = "RND" => KnownNext(n.to, n.random),
           loggedIn' \in BOOLEAN, owner' \in Programs \cup {Nobody}, done' \subseteq Programs,
           UNCHANGED <<owner, random>> \/ (random' \in Nat /\ random < random'),
           OnlyTrusted', \A q \in Programs : ProgramInv(q)'
    PROVE  SafeInv'
<1>0. RemoteTypes /\ NumbersInv /\ UNCHANGED <<trusted, sensible, alone>>
  BY DEF SafeInv, setting
<1>3. /\ IsABag(datagrams') /\ BagToSet(datagrams') \subseteq Request \cup Response
      /\ DOMAIN datagrams' \subseteq OnTheWay \cup {n}
  BY <1>0, WireAfter
<1>4. RemoteTypes'
  BY <1>0, <1>3 DEF RemoteTypes, RemoteTypeOK, Randoms
<1>5. NumbersInv'
  <2>1. n.kind # "SHA"
    BY DatagramShape
  <2>. QED BY <1>0, <1>3, <2>1, NumbersKept
<1>. QED BY <1>4, <1>5 DEF SafeInv

LEMMA ProgramTypes ==
    ASSUME SafeInv, NEW p \in Programs
    PROVE  /\ phase \in [Programs -> Phases] /\ polls \in [Programs -> 0 .. MaxPolls]
           /\ retryCount \in [Programs -> 0 .. MaxRetries - 1] /\ buffer \in [Programs -> Request]
           /\ phase[p] \in AwaitsAnswer => polls[p] < MaxPolls
           /\ polls[p] \in Nat /\ 0 \in 0 .. MaxPolls /\ 0 < MaxPolls
           /\ 0 \in 0 .. MaxRetries - 1 /\ 1 \in 0 .. MaxRetries - 1
           /\ buffer[p] \in Request /\ buffer[p].from = p
           /\ buffer[p].kind = "SHA" => buffer[p].random \in Nat /\ KnownNumber(p, buffer[p].random)
<1>1. RemoteTypes /\ NumbersInv
  BY DEF SafeInv
<1>. QED BY <1>1, WireShape, RemoteAssumption DEF RemoteTypes, RemoteTypeOK, NumbersInv

LEMMA LoginIsSafe ==
    ASSUME SafeInv, NEW p \in Programs, Login(p)
    PROVE  SafeInv'
<1>0. RemoteTypes /\ ProgramInv(p)
  BY DEF SafeInv
<1>1. /\ phase[p] = "idle" /\ phase' = [phase EXCEPT ![p] = "login"]
      /\ polls' = [polls EXCEPT ![p] = 0] /\ retryCount' = [retryCount EXCEPT ![p] = 1]
      /\ buffer' = [buffer EXCEPT ![p] = buffer[p]]
      /\ datagrams' = Carried(datagrams, buffer[p]) /\ UNCHANGED <<gateway, setting>>
  BY DEF Login, Ask
<1>2. Plus(datagrams, datagrams', buffer[p])
  BY <1>0, <1>1, WireShape, CarriedIsPlus
<1>3. DOMAIN datagrams' \subseteq OnTheWay \cup {buffer[p]} /\ done' = done /\ trusted' = trusted
  BY <1>1, <1>2 DEF Plus, OnTheWay, gateway, setting
<1>4. /\ buffer[p].kind = "LIN" /\ p \notin done
      /\ NoAck(p) /\ NoRequest(p, {"SHA", "LNK"}) /\ NoRequest(p, {"LOG"})
  BY <1>0, <1>1 DEF ProgramInv, BeforeHash, AtEnd
<1>5. NoAck(p)' /\ NoRequest(p, {"SHA", "LNK"})' /\ NoRequest(p, {"LOG"})'
  BY <1>3, <1>4 DEF NoAck, NoRequest, OnTheWay
<1>6. phase'[p] = "login" /\ buffer'[p] = buffer[p]
  BY <1>1, ProgramTypes
<1>7. ProgramInv(p)'
  BY <1>3, <1>4, <1>5, <1>6 DEF ProgramInv, BeforeHash, AtHash, AtCommand, AtEnd
<1>. QED BY <1>1, <1>2, <1>7, ProgramMoves, ProgramTypes DEF Phases

(* A program without the password sends what it likes: no invariant speaks *)
(* of it, and it is not the one that is logged in.                         *)
LEMMA UnbiddenIsSafe ==
    ASSUME SafeInv, NEW p \in Programs, NEW kind \in {"LNK", "LOG"}, Unbidden(p, kind)
    PROVE  SafeInv'
<1>0. RemoteTypes /\ ProgramInv(p)
  BY DEF SafeInv
<1>1. PICK n \in Request : n = [from |-> p, kind |-> kind]
  BY RequestsMade
<1>2. n.from = p /\ n.kind \in {"LNK", "LOG"}
  BY <1>1
<1>3. /\ p \notin trusted /\ datagrams' = Carried(datagrams, n)
      /\ UNCHANGED <<phase, polls, retryCount, buffer, gateway, setting>>
      /\ done' = done /\ trusted' = trusted /\ random' = random /\ loggedIn' = loggedIn
  BY <1>1 DEF Unbidden, gateway, setting
<1>4. Plus(datagrams, datagrams', n)
  BY <1>0, <1>3, WireShape, CarriedIsPlus
<1>5. /\ DOMAIN datagrams' \subseteq OnTheWay \cup {n}
      /\ \A m \in DOMAIN datagrams' : m # n => datagrams'[m] <= datagrams[m]
      /\ IsABag(datagrams) /\ IsABag(datagrams')
  BY <1>0, <1>4, WireShape DEF Plus, OnTheWay
<1>6. /\ NoAck(p) => NoAck(p)'
      /\ SpentSha(p) => SpentSha(p)'
      /\ \A kinds : NoRequest(p, kinds) => NoRequest(p, kinds)'
      /\ (\A m \in OnTheWay : m.kind = "SHA" /\ m.from = p => m.random = buffer[p].random)
            => \A m \in DOMAIN datagrams' : m.kind = "SHA" /\ m.from = p => m.random = buffer[p].random
  BY <1>2, <1>3, <1>5 DEF NoAck, SpentSha, NoRequest, OnTheWay
<1>7. OneAck(p) => OneAck(p)'
  <2>1. SUFFICES ASSUME OneAck(p), NEW m \in DOMAIN datagrams', m.kind = "ACK", m.to = p
                 PROVE  datagrams'[m] <= 1
    BY DEF OneAck, OnTheWay
  <2>2. m \in OnTheWay /\ datagrams'[m] <= datagrams[m] /\ datagrams[m] <= 1
    BY <1>2, <1>5, <2>1 DEF OneAck
  <2>. QED BY <1>5, <2>1, <2>2 DEF IsABag, OnTheWay
<1>8. ProgramInv(p)'
  BY <1>0, <1>3, <1>6, <1>7 DEF ProgramInv, BeforeHash, AtHash, AtCommand, AtEnd, OnTheWay
<1>9. /\ phase[p] \in Phases /\ polls[p] \in 0 .. MaxPolls /\ retryCount[p] \in 0 .. MaxRetries - 1
      /\ phase' = [phase EXCEPT ![p] = phase[p]] /\ polls' = [polls EXCEPT ![p] = polls[p]]
      /\ retryCount' = [retryCount EXCEPT ![p] = retryCount[p]]
      /\ buffer' = [buffer EXCEPT ![p] = buffer[p]]
  BY <1>3, ProgramTypes
<1>. QED BY <1>2, <1>3, <1>4, <1>8, <1>9, ProgramTypes, ProgramMoves

(* A program looks and finds nothing for it. *)
LEMMA LooksOn ==
    ASSUME SafeInv, NEW p \in Programs, phase[p] \in AwaitsAnswer, GoOn(p), UNCHANGED <<buffer, gateway, setting>>,
           NEW r \in 0 .. MaxRetries - 1, retryCount' = [retryCount EXCEPT ![p] = r],
           Plus(datagrams, datagrams', buffer[p])
    PROVE  SafeInv'
<1>0. RemoteTypes /\ NumbersInv /\ ProgramInv(p)
  BY DEF SafeInv
<1> DEFINE x == IF polls[p] + 1 >= MaxPolls THEN "silence" ELSE phase[p]
           c == polls[p] + 1
<1>1. phase' = [phase EXCEPT ![p] = x] /\ polls' = [polls EXCEPT ![p] = c]
  BY ProgramTypes DEF GoOn
<1>2. x \in Phases /\ c \in 0 .. MaxPolls /\ (x \in AwaitsAnswer => c < MaxPolls)
  <2>1. polls[p] \in Nat /\ polls[p] < MaxPolls /\ MaxPolls \in Nat /\ phase[p] \in Phases
    BY ProgramTypes, RemoteAssumption
  <2>2. c \in 0 .. MaxPolls /\ (x # "silence" => c < MaxPolls)
    BY <2>1
  <2>. QED BY <2>1, <2>2 DEF Phases, AwaitsAnswer
<1>3. /\ buffer' = [buffer EXCEPT ![p] = buffer[p]] /\ done' = done /\ random' = random
      /\ loggedIn' = loggedIn /\ trusted' = trusted
  BY ProgramTypes DEF gateway, setting
<1>4. IsABag(datagrams') /\ DOMAIN datagrams' \subseteq OnTheWay \cup {buffer[p]}
  BY <1>0, WireAfter, ProgramTypes
<1>5. \A m \in DOMAIN datagrams' : m # buffer[p] => datagrams'[m] <= datagrams[m]
  BY DEF Plus
<1>k. buffer[p].kind \in {"LIN", "SHA", "LNK"} /\ (phase[p] # "command" => buffer[p].kind # "LNK")
      /\ (phase[p] = "login" => buffer[p].kind = "LIN") /\ (phase[p] = "hash" => buffer[p].kind = "SHA")
      /\ (phase[p] = "command" => buffer[p].kind = "LNK")
  BY <1>0 DEF ProgramInv, BeforeHash, AtHash, AtCommand, AwaitsAnswer
<1>a. NoAck(p) => NoAck(p)'
  BY <1>4, <1>k DEF NoAck, OnTheWay
<1>l. NoRequest(p, {"LOG"})'
  BY <1>0, <1>3, <1>4, <1>k DEF NoRequest, OnTheWay, ProgramInv, AtEnd, AwaitsAnswer
<1>6. ProgramInv(p)'
  <2>0. phase'[p] = x /\ buffer'[p] = buffer[p]
    BY <1>1, ProgramTypes
  <2>1. CASE phase'[p] = "silence"
    BY <2>1, <1>l, <1>k, <2>0 DEF ProgramInv, BeforeHash, AtHash, AtCommand, AtEnd
  <2>2. CASE phase[p] = "login" /\ phase'[p] = "login"
    <3>1. NoRequest(p, {"SHA", "LNK"}) => NoRequest(p, {"SHA", "LNK"})'
      BY <2>2, <1>3, <1>4, <1>k DEF NoRequest, OnTheWay
    <3>. QED BY <2>2, <3>1, <1>0, <1>a, <1>l, <2>0, <1>3 DEF ProgramInv, BeforeHash, AtHash, AtCommand, AtEnd
  <2>3. CASE phase[p] = "hash" /\ phase'[p] = "hash"
    <3>0. /\ buffer[p].kind = "SHA" /\ p \notin done
          /\ NoRequest(p, {"LNK"}) /\ OneAck(p)
          /\ \A m \in OnTheWay : m.kind = "SHA" /\ m.from = p => m.random = buffer[p].random
          /\ NoAck(p) \/ (buffer[p].random = random => loggedIn)
      BY <2>3, <1>0 DEF ProgramInv, AtHash
    <3>1. NoRequest(p, {"LNK"})'
      BY <3>0, <1>3, <1>4, <1>k DEF NoRequest, OnTheWay
    <3>2. OneAck(p)'
      <4>1. SUFFICES ASSUME NEW m \in DOMAIN datagrams', m.kind = "ACK", m.to = p PROVE datagrams'[m] <= 1
        BY DEF OneAck, OnTheWay
      <4>2. m \in OnTheWay /\ datagrams'[m] <= datagrams[m] /\ datagrams[m] <= 1
        BY <4>1, <3>0, <1>4, <1>5 DEF OneAck
      <4>3. datagrams'[m] \in Nat /\ datagrams[m] \in Nat
        BY <4>1, <4>2, <1>0, <1>4, WireShape DEF IsABag, OnTheWay
      <4>. QED BY <4>2, <4>3
    <3>3. \A m \in DOMAIN datagrams' : m.kind = "SHA" /\ m.from = p => m.random = buffer[p].random
      BY <3>0, <1>4
    <3>4. AtHash(p)'
      BY <3>0, <3>1, <3>2, <3>3, <1>a, <2>0, <1>3 DEF AtHash, OnTheWay
    <3>. QED BY <2>3, <3>0, <3>4, <1>l, <2>0 DEF ProgramInv, BeforeHash, AtCommand, AtEnd
  <2>4. CASE phase[p] = "command" /\ phase'[p] = "command"
    <3>1. SpentSha(p) => SpentSha(p)'
      BY <2>4, <1>3, <1>4, <1>k DEF SpentSha, OnTheWay
    <3>. QED BY <2>4, <3>1, <1>0, <1>a, <1>l, <2>0, <1>3 DEF ProgramInv, BeforeHash, AtHash, AtCommand, AtEnd
  <2>. QED BY <2>0, <2>1, <2>2, <2>3, <2>4 DEF AwaitsAnswer
<1>7. /\ buffer[p] \in Request /\ buffer[p].from = p
      /\ buffer[p].kind = "SHA" => KnownNumber(p, buffer[p].random)
  BY ProgramTypes
<1>8. UNCHANGED <<gateway, setting>>
  OBVIOUS
<1> HIDE DEF x, c
<1>. QED BY <1>1, <1>2, <1>3, <1>6, <1>7, <1>8, ProgramMoves

LEMMA RetryIsSafe ==
    ASSUME SafeInv, NEW p \in Programs, Retry(p)
    PROVE  SafeInv'
<1> DEFINE r == IF retryCount[p] = 0 \/ retryCount[p] + 1 >= MaxRetries THEN 0 ELSE retryCount[p] + 1
           still == IF phase'[p] \in AwaitsAnswer THEN datagrams ELSE WithoutAnswersTo(p, datagrams)
<1>0. IsABag(datagrams)
  BY WireShape DEF SafeInv
<1>1. phase[p] \in AwaitsAnswer /\ GoOn(p) /\ UNCHANGED <<buffer, gateway, setting>>
  BY DEF Retry
<1>2. retryCount' = [retryCount EXCEPT ![p] = r] /\ r \in 0 .. MaxRetries - 1
  <2>1. retryCount[p] \in 0 .. MaxRetries - 1 /\ MaxRetries \in Nat
    BY ProgramTypes, RemoteAssumption
  <2>2. r \in 0 .. MaxRetries - 1
    BY <2>1
  <2>. QED BY <2>2 DEF Retry
<1>3. datagrams' = still \/ datagrams' = Carried(still, buffer[p])
  BY DEF Retry
<1>4. Fewer(still, datagrams)
  BY <1>0, WithoutIsFewer DEF Fewer, IsABag
<1>5. Plus(datagrams, still, buffer[p]) /\ IsABag(still)
  BY <1>4, FewerIsPlus DEF Fewer
<1> HIDE DEF still, r
<1>6. Plus(still, Carried(still, buffer[p]), buffer[p])
  BY <1>5, CarriedIsPlus
<1>7. Plus(datagrams, Carried(still, buffer[p]), buffer[p])
  BY <1>0, <1>4, <1>6, PlusOfFewer
<1>8. Plus(datagrams, datagrams', buffer[p])
  BY <1>3, <1>5, <1>7
<1>. QED BY <1>1, <1>2, <1>8, LooksOn

(* What a program makes of an answer. *)
Rest(m) == datagrams (-) One(m)
AsksNext(p, m, next, request) ==
    Ask(p, next, request) /\ datagrams' = Carried(Rest(m), request)
Ends(p, m, why) ==
    /\ Stop(p, why) /\ datagrams' = WithoutAnswersTo(p, Rest(m))
    /\ retryCount' = [retryCount EXCEPT ![p] = 0] /\ UNCHANGED buffer
Drops(p, m) ==
    /\ GoOn(p)
    /\ datagrams' = Rest(m) \/ datagrams' = WithoutAnswersTo(p, Rest(m))
    /\ retryCount' = [retryCount EXCEPT ![p] = 0] /\ UNCHANGED buffer
Succeeds(p, m) ==
    /\ Stop(p, "accepted") /\ retryCount' = [retryCount EXCEPT ![p] = 1] /\ UNCHANGED buffer
    /\ datagrams' = Carried(WithoutAnswersTo(p, Rest(m)), [from |-> p, kind |-> "LOG"])

LEMMA AnswersTaken ==
    ASSUME NEW p, NEW m, TakesAnswer(p, m)
    PROVE  /\ phase[p] \in AwaitsAnswer /\ m.to = p /\ UNCHANGED <<gateway, setting>>
           /\ \/ /\ phase[p] = "login" /\ m.kind = "RND"
                 /\ AsksNext(p, m, "hash", [from |-> p, kind |-> "SHA", random |-> m.random])
              \/ /\ phase[p] = "hash" /\ m.kind = "ACK"
                 /\ AsksNext(p, m, "command", [from |-> p, kind |-> "LNK"])
              \/ phase[p] = "hash" /\ m.kind = "NAK" /\ Ends(p, m, "bad password")
              \/ phase[p] = "command" /\ m.kind = "NAK" /\ Ends(p, m, "rejected")
              \/ phase[p] = "command" /\ m.kind = "ACK" /\ Succeeds(p, m)
              \/ /\ ~(phase[p] = "login" /\ m.kind = "RND") /\ ~(phase[p] = "hash" /\ m.kind = "ACK")
                 /\ ~(phase[p] = "hash" /\ m.kind = "NAK") /\ ~(phase[p] = "command" /\ m.kind = "NAK")
                 /\ ~(phase[p] = "command" /\ m.kind = "ACK") /\ Drops(p, m)
<1>1. /\ phase[p] \in AwaitsAnswer /\ m.to = p /\ UNCHANGED <<gateway, setting>>
      /\ CASE phase[p] = "login" /\ m.kind = "RND" ->
                AsksNext(p, m, "hash", [from |-> p, kind |-> "SHA", random |-> m.random])
           [] phase[p] = "hash" /\ m.kind = "ACK" ->
                AsksNext(p, m, "command", [from |-> p, kind |-> "LNK"])
           [] phase[p] = "hash" /\ m.kind = "NAK"    -> Ends(p, m, "bad password")
           [] phase[p] = "command" /\ m.kind = "NAK" -> Ends(p, m, "rejected")
           [] phase[p] = "command" /\ m.kind = "ACK" -> Succeeds(p, m)
           [] OTHER -> Drops(p, m)
  BY DEF TakesAnswer, AsksNext, Ends, Succeeds, Drops, Rest
<1>. QED BY <1>1

LEMMA WireTaken ==
    ASSUME SafeInv, NEW m \in OnTheWay, NEW p, NEW n
    PROVE  /\ IsABag(Rest(m)) /\ Plus(datagrams, Rest(m), n)
           /\ Plus(datagrams, WithoutAnswersTo(p, Rest(m)), n)
           /\ Plus(datagrams, Carried(Rest(m), n), n)
           /\ Plus(datagrams, Carried(WithoutAnswersTo(p, Rest(m)), n), n)
           /\ datagrams[m] <= 1 => m \notin DOMAIN Rest(m)
<1>0. IsABag(datagrams)
  BY WireShape DEF SafeInv
<1>1. Fewer(Rest(m), datagrams) /\ (datagrams[m] <= 1 => m \notin DOMAIN Rest(m))
  BY <1>0, LeftIsFewer DEF Rest, OnTheWay
<1>2. Fewer(WithoutAnswersTo(p, Rest(m)), Rest(m)) /\ IsABag(Rest(m))
  BY <1>1, WithoutIsFewer DEF Fewer
<1>3. Fewer(WithoutAnswersTo(p, Rest(m)), datagrams) /\ IsABag(WithoutAnswersTo(p, Rest(m)))
  BY <1>0, <1>1, <1>2, FewerOfFewer DEF Fewer
<1>4. Plus(datagrams, Carried(Rest(m), n), n)
  BY <1>0, <1>1, <1>2, CarriedIsPlus, PlusOfFewer
<1>5. Plus(datagrams, Carried(WithoutAnswersTo(p, Rest(m)), n), n)
  BY <1>0, <1>3, CarriedIsPlus, PlusOfFewer
<1>. QED BY <1>1, <1>2, <1>3, <1>4, <1>5, FewerIsPlus

LEMMA TakesAnswerIsSafe ==
    ASSUME SafeInv, NEW p \in Programs, NEW m \in Responses, TakesAnswer(p, m)
    PROVE  SafeInv'
<1>0. RemoteTypes /\ NumbersInv /\ ProgramInv(p)
  BY DEF SafeInv
<1>1. m \in OnTheWay /\ m \in Response /\ m.to = p
  <2>1. m \in OnTheWay /\ m \in Request \cup Response /\ "to" \in DOMAIN m
    BY <1>0, WireShape DEF Responses, BagToSet, OnTheWay
  <2>. QED BY <2>1, DatagramShape, AnswersTaken
<1>2. phase[p] \in AwaitsAnswer /\ UNCHANGED <<gateway, setting>>
  BY AnswersTaken
<1>3. done' = done /\ random' = random /\ loggedIn' = loggedIn /\ trusted' = trusted
  BY <1>2 DEF gateway, setting
<1>4. IsABag(datagrams)
  BY <1>0, WireShape
<1>5. /\ phase \in [Programs -> Phases] /\ polls \in [Programs -> 0 .. MaxPolls]
      /\ buffer \in [Programs -> Request] /\ buffer[p] \in Request /\ buffer[p].from = p
      /\ retryCount \in [Programs -> 0 .. MaxRetries - 1]
      /\ 0 \in 0 .. MaxPolls /\ 0 < MaxPolls /\ 0 \in 0 .. MaxRetries - 1 /\ 1 \in 0 .. MaxRetries - 1
      /\ polls' = [polls EXCEPT ![p] = polls[p]] <=> polls' = polls
      /\ buffer' = [buffer EXCEPT ![p] = buffer[p]] <=> buffer' = buffer
      /\ polls[p] \in 0 .. MaxPolls
      /\ buffer[p].kind = "SHA" => KnownNumber(p, buffer[p].random)
  BY ProgramTypes
<1>6. NoRequest(p, {"LOG"}) /\ phase[p] # "accepted" /\ buffer[p].kind # "LOG"
  BY <1>0, <1>2 DEF ProgramInv, AtEnd, AwaitsAnswer
<1>a. CASE /\ phase[p] = "login" /\ m.kind = "RND"
           /\ AsksNext(p, m, "hash", [from |-> p, kind |-> "SHA", random |-> m.random])
  <2>1. PICK n \in Request : n = [from |-> p, kind |-> "SHA", random |-> m.random]
    BY <1>1, <1>a, DatagramShape, RequestsMade
  <2>2. n.from = p /\ n.kind = "SHA" /\ n.random = m.random
    BY <2>1
  <2>3. /\ phase' = [phase EXCEPT ![p] = "hash"] /\ polls' = [polls EXCEPT ![p] = 0]
        /\ retryCount' = [retryCount EXCEPT ![p] = 1] /\ buffer' = [buffer EXCEPT ![p] = n]
        /\ datagrams' = Carried(Rest(m), n)
    BY <1>a, <2>1 DEF AsksNext, Ask
  <2>4. Plus(datagrams, datagrams', n)
    BY <1>1, <2>3, WireTaken
  <2>5. KnownNumber(p, n.random)
    BY <1>0, <1>1, <1>a, <2>2 DEF NumbersInv
  <2>6. phase'[p] = "hash" /\ buffer'[p] = n
    BY <1>5, <2>3
  <2>7. DOMAIN datagrams' \subseteq OnTheWay \cup {n}
    BY <2>4 DEF Plus, OnTheWay
  <2>8. p \notin done /\ NoAck(p) /\ NoRequest(p, {"SHA", "LNK"})
    BY <1>0, <1>a DEF ProgramInv, BeforeHash
  <2>9. NoAck(p)' /\ NoRequest(p, {"LNK"})' /\ NoRequest(p, {"LOG"})'
    BY <1>3, <1>6, <2>2, <2>7, <2>8 DEF NoAck, NoRequest, OnTheWay
  <2>10. \A k \in DOMAIN datagrams' : k.kind = "SHA" /\ k.from = p => k.random = n.random
    BY <2>7, <2>8 DEF NoRequest
  <2>11. OneAck(p)'
    BY <2>9 DEF NoAck, OneAck
  <2>12. ProgramInv(p)'
    BY <1>3, <2>2, <2>6, <2>8, <2>9, <2>10, <2>11
    DEF ProgramInv, BeforeHash, AtHash, AtCommand, AtEnd, OnTheWay
  <2>13. "hash" \in Phases
    BY DEF Phases
  <2>. QED BY <1>2, <1>5, <2>2, <2>3, <2>4, <2>5, <2>12, <2>13, ProgramMoves
<1>b. CASE /\ phase[p] = "hash" /\ m.kind = "ACK"
           /\ AsksNext(p, m, "command", [from |-> p, kind |-> "LNK"])
  <2>1. PICK n \in Request : n = [from |-> p, kind |-> "LNK"]
    BY RequestsMade
  <2>2. n.from = p /\ n.kind = "LNK"
    BY <2>1
  <2>3. /\ phase' = [phase EXCEPT ![p] = "command"] /\ polls' = [polls EXCEPT ![p] = 0]
        /\ retryCount' = [retryCount EXCEPT ![p] = 1] /\ buffer' = [buffer EXCEPT ![p] = n]
        /\ datagrams' = Carried(Rest(m), n)
    BY <1>b, <2>1 DEF AsksNext, Ask
  <2>4. Plus(datagrams, datagrams', n) /\ Plus(Rest(m), datagrams', n)
    BY <1>1, <2>3, WireTaken, CarriedIsPlus
  <2>6. phase'[p] = "command" /\ buffer'[p] = n
    BY <1>5, <2>3
  <2>7. DOMAIN datagrams' \subseteq OnTheWay \cup {n} /\ DOMAIN datagrams' \subseteq DOMAIN Rest(m) \cup {n}
    BY <2>4 DEF Plus, OnTheWay
  <2>8. /\ p \notin done /\ OneAck(p)
        /\ \A k \in OnTheWay : k.kind = "SHA" /\ k.from = p => k.random = buffer[p].random
        /\ NoAck(p) \/ (buffer[p].random = random => loggedIn)
    BY <1>0, <1>b DEF ProgramInv, AtHash
  <2>9. NoRequest(p, {"LOG"})'
    BY <1>3, <1>6, <2>2, <2>7 DEF NoRequest, OnTheWay
  <2>10. NoAck(p)'
    <3>1. SUFFICES ASSUME NEW k \in DOMAIN datagrams', k.kind = "ACK", k.to = p PROVE FALSE
      BY DEF NoAck, OnTheWay
    <3>2. k \in OnTheWay /\ k \in DOMAIN Rest(m)
      BY <3>1, <2>2, <2>7
    <3>3. k \in Response
      BY <1>0, <3>1, <3>2, WireShape
    <3>4. k = m
      BY <1>1, <1>b, <3>1, <3>3, SameAck
    <3>5. datagrams[m] <= 1
      BY <2>8, <1>1, <1>b DEF OneAck
    <3>. QED BY <1>1, <3>2, <3>4, <3>5, WireTaken
  <2>11. SpentSha(p)'
    <3>1. SUFFICES ASSUME NEW k \in DOMAIN datagrams', k.kind = "SHA", k.from = p, k.random = random PROVE loggedIn
      BY <1>3 DEF SpentSha, OnTheWay
    <3>2. k.random = buffer[p].random
      BY <3>1, <2>2, <2>7, <2>8
    <3>. QED BY <3>1, <3>2, <2>8, <1>1, <1>b DEF NoAck
  <2>12. ProgramInv(p)'
    BY <2>2, <2>6, <2>9, <2>10, <2>11 DEF ProgramInv, BeforeHash, AtHash, AtCommand, AtEnd
  <2>13. "command" \in Phases
    BY DEF Phases
  <2>. QED BY <1>2, <1>5, <2>2, <2>3, <2>4, <2>12, <2>13, ProgramMoves
<1>c. ASSUME NEW why \in {"bad password", "rejected"}, Ends(p, m, why) PROVE SafeInv'
  <2>1. /\ phase' = [phase EXCEPT ![p] = why] /\ polls' = [polls EXCEPT ![p] = polls[p]]
        /\ retryCount' = [retryCount EXCEPT ![p] = 0] /\ buffer' = [buffer EXCEPT ![p] = buffer[p]]
        /\ datagrams' = WithoutAnswersTo(p, Rest(m))
    BY <1>c, <1>5 DEF Ends, Stop
  <2>2. Plus(datagrams, datagrams', buffer[p]) /\ Plus(datagrams, datagrams', [from |-> p, kind |-> "LIN"])
    BY <1>1, <2>1, WireTaken
  <2>3. NothingNewFor(p)
    <3>1. ~About([from |-> p, kind |-> "LIN"], p)
      BY DEF About
    <3>. QED BY <1>0, <2>2, <3>1, WireAfter, RequestsMade
  <2>4. phase'[p] = why /\ buffer'[p] = buffer[p]
    BY <2>1, <1>5
  <2>5. ProgramInv(p)'
    BY <1>0, <1>3, <1>6, <2>3, <2>4, StoppedProgram
  <2>6. why \in Phases /\ why \notin AwaitsAnswer
    BY DEF Phases, AwaitsAnswer
  <2>. QED BY <1>2, <1>5, <2>1, <2>2, <2>5, <2>6, ProgramMoves
<1>d. CASE phase[p] = "command" /\ m.kind = "ACK" /\ Succeeds(p, m)
  <2>1. PICK n \in Request : n = [from |-> p, kind |-> "LOG"]
    BY RequestsMade
  <2>2. n.from = p /\ n.kind = "LOG"
    BY <2>1
  <2>3. /\ phase' = [phase EXCEPT ![p] = "accepted"] /\ polls' = [polls EXCEPT ![p] = polls[p]]
        /\ retryCount' = [retryCount EXCEPT ![p] = 1] /\ buffer' = [buffer EXCEPT ![p] = buffer[p]]
        /\ datagrams' = Carried(WithoutAnswersTo(p, Rest(m)), n)
    BY <1>d, <1>5, <2>1 DEF Succeeds, Stop
  <2>4. Plus(datagrams, datagrams', n)
    BY <1>1, <2>3, WireTaken
  <2>5. phase'[p] = "accepted" /\ buffer'[p] = buffer[p]
    BY <2>3, <1>5
  <2>6. p \in done
    BY <1>0, <1>1, <1>d DEF ProgramInv, AtCommand, NoAck
  <2>7. ProgramInv(p)'
    BY <1>3, <1>6, <2>5, <2>6 DEF ProgramInv, BeforeHash, AtHash, AtCommand, AtEnd
  <2>8. "accepted" \in Phases /\ "accepted" \notin AwaitsAnswer
    BY DEF Phases, AwaitsAnswer
  <2>. QED BY <1>2, <1>5, <2>2, <2>3, <2>4, <2>7, <2>8, ProgramMoves
<1>e. CASE Drops(p, m)
  <2>1. /\ GoOn(p) /\ UNCHANGED buffer /\ retryCount' = [retryCount EXCEPT ![p] = 0]
        /\ datagrams' = Rest(m) \/ datagrams' = WithoutAnswersTo(p, Rest(m))
    BY <1>e DEF Drops
  <2>2. Plus(datagrams, datagrams', buffer[p])
    BY <1>1, <2>1, WireTaken
  <2>. QED BY <1>2, <1>5, <2>1, <2>2, LooksOn
<1>. QED BY <1>a, <1>b, <1>c, <1>d, <1>e, AnswersTaken

(* What the gateway makes of a request. *)
Tells(m, kind) ==
    datagrams' = IF owner = Nobody \/ phase[owner] \notin AwaitsAnswer THEN Rest(m)
                 ELSE Carried(Rest(m), [to |-> owner, kind |-> kind])
Greets(m) ==
    /\ m.kind = "LIN" /\ loggedIn' = FALSE /\ owner' = m.from /\ random' = random + 1 /\ done' = done
    /\ datagrams' = IF phase[m.from] \notin AwaitsAnswer THEN Rest(m)
                    ELSE Carried(Rest(m), [to |-> m.from, kind |-> "RND", random |-> random + 1])
Refuses(m) == m.kind # "LIN" /\ Tells(m, "NAK") /\ UNCHANGED gateway
Believes(m) ==
    /\ m.kind = "SHA" /\ ~loggedIn /\ m.from \in trusted /\ m.random = random
    /\ Tells(m, "ACK") /\ loggedIn' = TRUE /\ UNCHANGED <<owner, random, done>>
Obeys(m) ==
    /\ m.kind = "LNK" /\ loggedIn /\ m.from = owner /\ m.from \in sensible
    /\ Tells(m, "ACK") /\ done' = done \cup {m.from} /\ UNCHANGED <<loggedIn, owner, random>>
LetsGo(m) ==
    /\ m.kind = "LOG" /\ (loggedIn => m.from = owner)
    /\ datagrams' = Rest(m) /\ loggedIn' = FALSE /\ UNCHANGED <<owner, random, done>>

LEMMA RequestsHandled ==
    ASSUME NEW m, Serve(m), loggedIn \in BOOLEAN
    PROVE  /\ UNCHANGED <<phase, polls, retryCount, buffer, setting>>
           /\ \/ Greets(m)
              \/ Refuses(m) /\ Stranger(m)
              \/ Refuses(m) /\ m.kind = "SHA" /\ (~loggedIn => ~Valid(m))
              \/ Refuses(m) /\ m.kind = "LNK" /\ ~(loggedIn /\ m.from \in sensible)
              \/ Believes(m) \/ Obeys(m) \/ LetsGo(m)
<1>1. UNCHANGED <<phase, polls, retryCount, buffer, setting>> /\ Handle(m)
  BY DEF Serve
<1>2. \/ Greets(m)
      \/ m.kind # "LIN" /\ Stranger(m) /\ Tells(m, "NAK") /\ UNCHANGED gateway
      \/ /\ m.kind = "SHA" /\ ~Stranger(m)
         /\ \/ loggedIn /\ Tells(m, "NAK") /\ UNCHANGED gateway
            \/ ~loggedIn /\ Valid(m) /\ Tells(m, "ACK") /\ loggedIn' = TRUE /\ UNCHANGED <<owner, random, done>>
            \/ ~loggedIn /\ ~Valid(m) /\ Tells(m, "NAK") /\ loggedIn' = FALSE /\ UNCHANGED <<owner, random, done>>
      \/ /\ m.kind = "LNK" /\ ~Stranger(m)
         /\ IF loggedIn /\ m.from \in sensible
            THEN Tells(m, "ACK") /\ done' = done \cup {m.from} /\ UNCHANGED <<loggedIn, owner, random>>
            ELSE Tells(m, "NAK") /\ UNCHANGED gateway
      \/ /\ m.kind = "LOG" /\ ~Stranger(m)
         /\ datagrams' = Rest(m) /\ loggedIn' = FALSE /\ UNCHANGED <<owner, random, done>>
  BY <1>1 DEF Handle, Tells, Greets, Rest
<1>4. ASSUME m.kind = "SHA", ~Stranger(m), ~loggedIn, ~Valid(m), Tells(m, "NAK"),
             loggedIn' = FALSE, UNCHANGED <<owner, random, done>>
      PROVE  Refuses(m)
  BY <1>4 DEF Refuses, gateway
<1>5. ASSUME m.kind = "SHA", ~loggedIn, Valid(m), Tells(m, "ACK"), loggedIn' = TRUE, UNCHANGED <<owner, random, done>>
      PROVE  Believes(m)
  BY <1>5 DEF Believes, Valid
<1>6. ASSUME m.kind = "LNK", ~Stranger(m), loggedIn, m.from \in sensible, Tells(m, "ACK"),
             done' = done \cup {m.from}, UNCHANGED <<loggedIn, owner, random>>
      PROVE  Obeys(m)
  BY <1>6 DEF Obeys, Stranger
<1>7. ASSUME m.kind = "LOG", ~Stranger(m), datagrams' = Rest(m), loggedIn' = FALSE, UNCHANGED <<owner, random, done>>
      PROVE  LetsGo(m)
  BY <1>7 DEF LetsGo, Stranger
<1>8. ASSUME m.kind # "LIN", Tells(m, "NAK"), UNCHANGED gateway PROVE Refuses(m)
  BY <1>8 DEF Refuses
<1>. QED BY <1>1, <1>2, <1>4, <1>5, <1>6, <1>7, <1>8

LEMMA ServeIsSafe ==
    ASSUME SafeInv, NEW m \in Requests, Serve(m)
    PROVE  SafeInv'
<1>0. RemoteTypes /\ NumbersInv /\ OnlyTrusted /\ \A q \in Programs : ProgramInv(q)
  BY DEF SafeInv
<1>1. m \in OnTheWay /\ m \in Request /\ m.from \in Programs /\ (m.kind = "SHA" => m.random \in Nat)
  <2>1. m \in OnTheWay /\ m \in Request \cup Response /\ "from" \in DOMAIN m
    BY <1>0, WireShape DEF Requests, BagToSet, OnTheWay
  <2>. QED BY <2>1, DatagramShape
<1>2. UNCHANGED <<phase, polls, retryCount, buffer, setting>> /\ loggedIn \in BOOLEAN
      /\ owner \in Programs \cup {Nobody} /\ random \in Nat /\ done \subseteq Programs
  BY <1>0, RequestsHandled DEF RemoteTypes, RemoteTypeOK, Randoms
<1>3. \A q \in Programs : phase'[q] = phase[q] /\ buffer'[q] = buffer[q]
  BY <1>2
<1>t. trusted' = trusted
  BY <1>2 DEF setting
<1>n. [to |-> m.from, kind |-> "NAK"] \in Response
  BY <1>1, RequestsMade
<1>5. ASSUME NEW kind \in {"ACK", "NAK"}, Tells(m, kind)
      PROVE  \E n \in Response : /\ n.kind = kind /\ (n.to = owner \/ datagrams' = Rest(m))
                                 /\ Plus(datagrams, datagrams', n)
  <2>1. CASE owner = Nobody \/ phase[owner] \notin AwaitsAnswer
    <3>1. PICK n \in Response : n.kind = kind
      BY <1>1, RequestsMade
    <3>. QED BY <1>1, <1>5, <2>1, <3>1, WireTaken DEF Tells
  <2>2. CASE ~(owner = Nobody \/ phase[owner] \notin AwaitsAnswer)
    <3>1. [to |-> owner, kind |-> kind] \in Response /\ datagrams' = Carried(Rest(m), [to |-> owner, kind |-> kind])
      BY <1>2, <1>5, <2>2, RequestsMade DEF Tells
    <3>. QED BY <1>1, <3>1, WireTaken
  <2>. QED BY <2>1, <2>2
<1>a. CASE Greets(m)
  <2>1. /\ loggedIn' = FALSE /\ owner' = m.from /\ random' = random + 1 /\ done' = done
    BY <1>a DEF Greets
  <2>2. \E n \in Response : /\ n.kind = "RND" /\ n.to = m.from /\ n.random = random + 1
                            /\ Plus(datagrams, datagrams', n)
    <3>1. [to |-> m.from, kind |-> "RND", random |-> random + 1] \in Response
      <4>1. random + 1 \in Nat
        BY <1>2
      <4>. QED BY <1>1, <4>1, RequestsMade
    <3>2. \A n : Plus(datagrams, Rest(m), n) /\ Plus(datagrams, Carried(Rest(m), n), n)
      BY <1>1, WireTaken
    <3>. QED BY <1>a, <3>1, <3>2 DEF Greets
  <2>3. PICK n \in Response : n.kind = "RND" /\ n.to = m.from /\ n.random = random + 1 /\ Plus(datagrams, datagrams', n)
    BY <2>2
  <2>4. ASSUME NEW q \in Programs PROVE ProgramInv(q)'
    <3>1. NothingNewFor(q)
      BY <1>0, <2>3, WireAfter DEF About
    <3>2. GatewayKeeps(q)
      BY <1>2, <2>1 DEF GatewayKeeps
    <3>. QED BY <1>0, <1>3, <1>t, <2>1, <3>1, <3>2, QuietProgram
  <2>5. OnlyTrusted'
    BY <1>0, <1>t, <2>1 DEF OnlyTrusted
  <2>6. KnownNext(n.to, n.random) /\ random' \in Nat /\ random < random'
    BY <1>2, <2>1, <2>3 DEF KnownNext
  <2>. QED BY <1>1, <1>2, <2>1, <2>3, <2>4, <2>5, <2>6, GatewayMoves
<1>b. CASE Refuses(m)
  <2>1. PICK n \in Response : n.kind = "NAK" /\ Plus(datagrams, datagrams', n)
    BY <1>5, <1>b DEF Refuses
  <2>2. UNCHANGED <<loggedIn, owner, random, done>>
    BY <1>b DEF Refuses, gateway
  <2>4. ASSUME NEW q \in Programs PROVE ProgramInv(q)'
    <3>1. NothingNewFor(q)
      BY <1>0, <2>1, WireAfter DEF About
    <3>2. GatewayKeeps(q)
      BY <2>2 DEF GatewayKeeps
    <3>. QED BY <1>0, <1>3, <1>t, <2>2, <3>1, <3>2, QuietProgram
  <2>5. OnlyTrusted'
    BY <1>0, <1>t, <2>2 DEF OnlyTrusted
  <2>. QED BY <1>2, <2>1, <2>2, <2>4, <2>5, GatewayMoves
<1>c. CASE Believes(m)
  <2>1. /\ m.kind = "SHA" /\ ~loggedIn /\ m.from \in trusted /\ m.random = random
        /\ loggedIn' = TRUE /\ UNCHANGED <<owner, random, done>>
    BY <1>c DEF Believes
  <2>2. PICK n \in Response : /\ n.kind = "ACK" /\ (n.to = owner \/ datagrams' = Rest(m))
                              /\ Plus(datagrams, datagrams', n)
    BY <1>5, <1>c DEF Believes
  <2>3. owner = m.from
    BY <1>0, <1>1, <2>1 DEF NumbersInv, KnownNumber
  <2>4. DOMAIN datagrams' \subseteq OnTheWay \cup {n}
    BY <2>2 DEF Plus, OnTheWay
  <2>5. ASSUME NEW q \in Programs, q # m.from PROVE ProgramInv(q)'
    <3>1. NothingNewFor(q)
      <4>1. CASE n.to = owner
        BY <1>0, <2>2, <2>3, <2>5, <4>1, WireAfter DEF About
      <4>2. CASE datagrams' = Rest(m)
        <5>1. Plus(datagrams, datagrams', [to |-> m.from, kind |-> "NAK"])
          BY <1>1, <4>2, WireTaken
        <5>2. ~About([to |-> m.from, kind |-> "NAK"], q)
          BY DEF About
        <5>. QED BY <1>0, <1>n, <5>1, <5>2, WireAfter
      <4>. QED BY <2>2, <4>1, <4>2
    <3>2. GatewayKeeps(q)
      BY <2>1 DEF GatewayKeeps
    <3>. QED BY <1>0, <1>3, <1>t, <2>1, <3>1, <3>2, QuietProgram
  <2>6. ProgramInv(m.from)'
    <3> DEFINE q == m.from
    <3>0. q \in Programs /\ phase'[q] = phase[q] /\ buffer'[q] = buffer[q] /\ ProgramInv(q) /\ m.kind = "SHA"
      BY <1>0, <1>1, <1>3, <2>1
    <3>1. ~NoRequest(q, {"SHA", "LNK"})
      BY <1>1, <3>0 DEF NoRequest
    <3>2. phase[q] \notin {"idle", "login"}
      BY <3>0, <3>1 DEF ProgramInv, BeforeHash
    <3> HIDE DEF q
    <3>l. NoRequest(q, {"LOG"}) => NoRequest(q, {"LOG"})'
      BY <1>t, <2>2, <2>4 DEF NoRequest, OnTheWay
    <3>3. ASSUME phase[q] = "hash" PROVE AtHash(q)'
      <4>1. /\ buffer[q].kind = "SHA" /\ q \notin done
            /\ NoRequest(q, {"LNK"})
            /\ \A k \in OnTheWay : k.kind = "SHA" /\ k.from = q => k.random = buffer[q].random
            /\ NoAck(q) \/ (buffer[q].random = random => loggedIn)
        BY <3>0, <3>3 DEF ProgramInv, AtHash
      <4>2. buffer[q].random = random
        BY <4>1, <1>1, <2>1 DEF q
      <4>3. NoAck(q)
        BY <4>1, <4>2, <2>1
      <4>4. OneAck(q)'
        <5>1. SUFFICES ASSUME NEW k \in DOMAIN datagrams', k.kind = "ACK", k.to = q PROVE datagrams'[k] <= 1
          BY DEF OneAck, OnTheWay
        <5>2. k \notin OnTheWay
          BY <4>3, <5>1 DEF NoAck
        <5>3. k = n /\ n \notin DOMAIN datagrams
          BY <2>4, <5>1, <5>2 DEF OnTheWay
        <5>. QED BY <2>2, <5>1, <5>3 DEF Plus
      <4>5. NoRequest(q, {"LNK"})'
        BY <1>t, <2>2, <2>4, <4>1 DEF NoRequest, OnTheWay
      <4>6. \A k \in DOMAIN datagrams' : k.kind = "SHA" /\ k.from = q => k.random = buffer[q].random
        BY <2>2, <2>4, <4>1
      <4>. QED BY <2>1, <3>0, <4>1, <4>4, <4>5, <4>6 DEF AtHash, OnTheWay
    <3>4. ASSUME phase[q] = "command" PROVE AtCommand(q)'
      <4>1. q \in done
        <5>1. SpentSha(q) => FALSE
          BY <1>1, <2>1 DEF SpentSha, q
        <5>. QED BY <3>0, <3>4, <5>1 DEF ProgramInv, AtCommand
      <4>. QED BY <2>1, <3>0, <3>4, <4>1 DEF ProgramInv, AtCommand
    <3>. QED BY <2>1, <3>0, <3>2, <3>3, <3>4, <3>l
         DEF ProgramInv, BeforeHash, AtHash, AtCommand, AtEnd, q
  <2>7. OnlyTrusted'
    BY <1>0, <1>t, <2>1, <2>3 DEF OnlyTrusted
  <2>8. \A q \in Programs : ProgramInv(q)'
    BY <2>5, <2>6
  <2>. QED BY <1>2, <2>1, <2>2, <2>7, <2>8, GatewayMoves
<1>d. CASE Obeys(m)
  <2>1. /\ m.kind = "LNK" /\ loggedIn /\ m.from = owner
        /\ done' = done \cup {m.from} /\ UNCHANGED <<loggedIn, owner, random>>
    BY <1>d DEF Obeys
  <2>2. PICK n \in Response : /\ n.kind = "ACK" /\ (n.to = owner \/ datagrams' = Rest(m))
                              /\ Plus(datagrams, datagrams', n)
    BY <1>5, <1>d DEF Obeys
  <2>4. DOMAIN datagrams' \subseteq OnTheWay \cup {n}
    BY <2>2 DEF Plus, OnTheWay
  <2>5. ASSUME NEW q \in Programs, q # m.from PROVE ProgramInv(q)'
    <3>1. NothingNewFor(q)
      <4>1. CASE n.to = owner
        BY <1>0, <2>1, <2>2, <2>5, <4>1, WireAfter DEF About
      <4>2. CASE datagrams' = Rest(m)
        <5>1. Plus(datagrams, datagrams', [to |-> m.from, kind |-> "NAK"])
          BY <1>1, <4>2, WireTaken
        <5>2. ~About([to |-> m.from, kind |-> "NAK"], q)
          BY DEF About
        <5>. QED BY <1>0, <1>n, <5>1, <5>2, WireAfter
      <4>. QED BY <2>2, <4>1, <4>2
    <3>2. GatewayKeeps(q) /\ (q \in done' <=> q \in done)
      BY <2>1, <2>5 DEF GatewayKeeps
    <3>. QED BY <1>0, <1>3, <1>t, <3>1, <3>2, QuietProgram
  <2>6. ProgramInv(m.from)'
    <3> DEFINE q == m.from
    <3>0. /\ q \in Programs /\ phase'[q] = phase[q] /\ buffer'[q] = buffer[q] /\ ProgramInv(q)
          /\ m.kind = "LNK" /\ q \in trusted
      BY <1>0, <1>1, <1>3, <2>1 DEF OnlyTrusted
    <3>1. ~NoRequest(q, {"SHA", "LNK"}) /\ ~NoRequest(q, {"LNK"})
      BY <1>1, <3>0 DEF NoRequest
    <3>2. phase[q] \notin {"idle", "login", "hash"} /\ q \in done'
      BY <2>1, <3>0, <3>1 DEF ProgramInv, BeforeHash, AtHash
    <3> HIDE DEF q
    <3>l. NoRequest(q, {"LOG"}) => NoRequest(q, {"LOG"})'
      BY <1>t, <2>2, <2>4 DEF NoRequest, OnTheWay
    <3>. QED BY <3>0, <3>2, <3>l DEF ProgramInv, BeforeHash, AtHash, AtCommand, AtEnd, q
  <2>7. OnlyTrusted'
    BY <1>0, <1>t, <2>1 DEF OnlyTrusted
  <2>8. \A q \in Programs : ProgramInv(q)'
    BY <2>5, <2>6
  <2>. QED BY <1>1, <1>2, <2>1, <2>2, <2>7, <2>8, GatewayMoves
<1>e. CASE LetsGo(m)
  <2>1. /\ m.kind = "LOG" /\ (loggedIn => m.from = owner)
        /\ datagrams' = Rest(m) /\ loggedIn' = FALSE /\ UNCHANGED <<owner, random, done>>
    BY <1>e DEF LetsGo
  <2>2. PICK n \in Response : n.kind = "NAK" /\ Plus(datagrams, datagrams', n)
    <3>1. PICK n \in Response : n.kind = "NAK"
      BY <1>n
    <3>. QED BY <1>1, <2>1, <3>1, WireTaken
  <2>4. ASSUME NEW q \in Programs PROVE ProgramInv(q)'
    <3>1. NothingNewFor(q)
      BY <1>0, <2>2, WireAfter DEF About
    <3>2. ~(loggedIn /\ owner = q /\ phase[q] # "accepted")
      <4>1. q \in trusted /\ phase[q] # "accepted" => m.from # q
        BY <1>0, <1>1, <2>1 DEF ProgramInv, AtEnd, NoRequest
      <4>. QED BY <1>0, <2>1, <4>1 DEF OnlyTrusted
    <3>3. GatewayKeeps(q)
      BY <2>1, <3>2 DEF GatewayKeeps
    <3>. QED BY <1>0, <1>3, <1>t, <2>1, <3>1, <3>3, QuietProgram
  <2>5. OnlyTrusted'
    BY <1>0, <1>t, <2>1 DEF OnlyTrusted
  <2>. QED BY <1>2, <2>1, <2>2, <2>4, <2>5, GatewayMoves
<1>. QED BY <1>2, <1>a, <1>b, <1>c, <1>d, <1>e, RequestsHandled

LEMMA AloneAfter ==
    ASSUME AloneInv, alone, UNCHANGED setting, NEW p \in Programs,
           \A q \in Programs \ {p} : phase[q] \notin AwaitsAnswer /\ phase'[q] = phase[q],
           phase'[p] \in {"login", "hash", "command", "accepted"}, AloneAt(p)',
           phase'[p] = "accepted" =>
               datagrams' = EmptyBag \/ \E q \in Programs : datagrams' = One([from |-> q, kind |-> "LOG"])
    PROVE  AloneInv'
<1>1. alone' = alone /\ trusted' = trusted /\ sensible' = sensible
  BY DEF setting
<1>2. /\ trusted = Programs /\ sensible = Programs
      /\ \A q \in Programs : phase[q] \in {"idle", "login", "hash", "command", "accepted"}
  BY DEF AloneInv
<1>3. \A q \in Programs : phase'[q] \in {"idle", "login", "hash", "command", "accepted"}
  BY <1>2
<1>4. \A q, o \in Programs : phase'[q] \in AwaitsAnswer /\ phase'[o] \in AwaitsAnswer => q = o
  OBVIOUS
<1>5. \A q \in Programs : AloneAt(q)'
  BY DEF AloneAt, AwaitsAnswer
<1>6. Nobodys' => datagrams' = EmptyBag \/ \E q \in Programs : datagrams' = One([from |-> q, kind |-> "LOG"])
  BY DEF Nobodys, AwaitsAnswer
<1>. QED BY <1>1, <1>2, <1>3, <1>4, <1>5, <1>6 DEF AloneInv, Wired

LEMMA AloneOne ==
    ASSUME SafeInv, AloneInv, alone, NEW p \in Programs, phase[p] \in AwaitsAnswer
    PROVE  /\ \A q \in Programs \ {p} : phase[q] \notin AwaitsAnswer
           /\ AloneAt(p) /\ trusted = Programs /\ sensible = Programs
           /\ phase[p] = "login" => buffer[p].kind = "LIN"
           /\ phase[p] = "hash" => buffer[p].kind = "SHA"
           /\ phase[p] = "command" => buffer[p].kind = "LNK"
           /\ buffer[p] \in Request /\ buffer[p].from = p
BY ProgramTypes DEF SafeInv, AloneInv, ProgramInv, BeforeHash, AtHash, AtCommand

LEMMA LoginAlone ==
    ASSUME SafeInv, AloneInv, alone, NEW p \in Programs, Login(p)
    PROVE  AloneInv'
<1>1. /\ datagrams = EmptyBag /\ \A q \in Programs : phase[q] \notin AwaitsAnswer
      /\ phase' = [phase EXCEPT ![p] = "login"] /\ buffer' = [buffer EXCEPT ![p] = buffer[p]]
      /\ datagrams' = Carried(datagrams, buffer[p]) /\ UNCHANGED setting
  BY DEF Login, Ask
<1>2. phase \in [Programs -> Phases] /\ buffer \in [Programs -> Request]
  BY ProgramTypes
<1>3. phase'[p] = "login" /\ (\A q \in Programs \ {p} : phase'[q] = phase[q]) /\ buffer'[p] = buffer[p]
  BY <1>1, <1>2
<1>4. datagrams' = One(buffer'[p])
  BY <1>1, <1>3, WireOfOne
<1>5. AloneAt(p)'
  BY <1>3, <1>4 DEF AloneAt, Wired
<1>. QED BY <1>1, <1>3, <1>5, AloneAfter

LEMMA RetryAlone ==
    ASSUME SafeInv, AloneInv, alone, NEW p \in Programs, Retry(p)
    PROVE  FALSE
<1>1. phase[p] \in AwaitsAnswer /\ \A m \in OnTheWay : m # buffer[p] /\ ("to" \in DOMAIN m => m.to # p)
  BY DEF Retry, BagToSet, OnTheWay
<1>2. AloneAt(p)
  BY <1>1, AloneOne
<1>3. \A n : Wired(n) => n \in OnTheWay
  BY WireOfOne DEF Wired, OnTheWay
<1>4. ~Wired(buffer[p])
  BY <1>1, <1>3
<1>5. ~Wired([to |-> p, kind |-> "ACK"])
  <2>1. "to" \in DOMAIN [to |-> p, kind |-> "ACK"] /\ [to |-> p, kind |-> "ACK"].to = p
    OBVIOUS
  <2>. QED BY <1>1, <1>3, <2>1
<1>6. ~Wired([to |-> p, kind |-> "RND", random |-> random])
  <2>1. /\ "to" \in DOMAIN [to |-> p, kind |-> "RND", random |-> random]
        /\ [to |-> p, kind |-> "RND", random |-> random].to = p
    OBVIOUS
  <2>. QED BY <1>1, <1>3, <2>1
<1>. QED BY <1>1, <1>2, <1>4, <1>5, <1>6 DEF AloneAt, AwaitsAnswer

LEMMA TakesAnswerAlone ==
    ASSUME SafeInv, AloneInv, alone, NEW p \in Programs, NEW m \in Responses, TakesAnswer(p, m)
    PROVE  AloneInv'
<1>1. phase[p] \in AwaitsAnswer /\ UNCHANGED <<gateway, setting>>
  BY AnswersTaken
<1>2. /\ \A q \in Programs \ {p} : phase[q] \notin AwaitsAnswer
      /\ AloneAt(p) /\ buffer[p] \in Request
  BY <1>1, AloneOne
<1>3. m \in OnTheWay /\ m \notin Request
  BY DatagramShape DEF Responses, BagToSet, OnTheWay
<1>4. \A n : Wired(n) => n = m /\ Rest(m) = EmptyBag
  BY <1>3, WireOfOne DEF Wired, OnTheWay, Rest
<1>5. ~Wired(buffer[p])
  BY <1>2, <1>3, <1>4
<1>6. phase \in [Programs -> Phases] /\ buffer \in [Programs -> Request]
  BY ProgramTypes
<1>7. random' = random /\ loggedIn' = loggedIn /\ owner' = owner
  BY <1>1 DEF gateway
<1>a. CASE phase[p] = "login"
  <2>1. owner = p /\ ~loggedIn /\ Wired([to |-> p, kind |-> "RND", random |-> random])
    BY <1>2, <1>5, <1>a DEF AloneAt
  <2>2. m.kind = "RND" /\ m.random = random /\ Rest(m) = EmptyBag
    BY <1>4, <2>1
  <2>3. AsksNext(p, m, "hash", [from |-> p, kind |-> "SHA", random |-> random])
    BY <1>a, <2>2, AnswersTaken
  <2>4. PICK n : n = [from |-> p, kind |-> "SHA", random |-> random]
    OBVIOUS
  <2>5. /\ phase' = [phase EXCEPT ![p] = "hash"] /\ buffer' = [buffer EXCEPT ![p] = n]
        /\ datagrams' = Carried(EmptyBag, n)
    BY <2>2, <2>3, <2>4 DEF AsksNext, Ask
  <2>6. phase'[p] = "hash" /\ (\A q \in Programs \ {p} : phase'[q] = phase[q]) /\ buffer'[p] = n
    BY <1>6, <2>5
  <2>7. datagrams' = One(n) /\ n.random = random
    BY <2>4, <2>5, WireOfOne
  <2>8. AloneAt(p)'
    BY <1>7, <2>1, <2>6, <2>7 DEF AloneAt, Wired
  <2>. QED BY <1>1, <1>2, <2>6, <2>8, AloneAfter
<1>b. CASE phase[p] = "hash"
  <2>1. owner = p /\ loggedIn /\ Wired([to |-> p, kind |-> "ACK"])
    BY <1>2, <1>5, <1>b DEF AloneAt
  <2>2. m.kind = "ACK" /\ Rest(m) = EmptyBag
    BY <1>4, <2>1
  <2>3. AsksNext(p, m, "command", [from |-> p, kind |-> "LNK"])
    BY <1>b, <2>2, AnswersTaken
  <2>4. PICK n : n = [from |-> p, kind |-> "LNK"]
    OBVIOUS
  <2>5. /\ phase' = [phase EXCEPT ![p] = "command"] /\ buffer' = [buffer EXCEPT ![p] = n]
        /\ datagrams' = Carried(EmptyBag, n)
    BY <2>2, <2>3, <2>4 DEF AsksNext, Ask
  <2>6. phase'[p] = "command" /\ (\A q \in Programs \ {p} : phase'[q] = phase[q]) /\ buffer'[p] = n
    BY <1>6, <2>5
  <2>7. datagrams' = One(n)
    BY <2>5, WireOfOne
  <2>8. AloneAt(p)'
    BY <1>7, <2>1, <2>6, <2>7 DEF AloneAt, Wired
  <2>. QED BY <1>1, <1>2, <2>6, <2>8, AloneAfter
<1>c. CASE phase[p] = "command"
  <2>1. owner = p /\ loggedIn /\ Wired([to |-> p, kind |-> "ACK"])
    BY <1>2, <1>5, <1>c DEF AloneAt
  <2>2. m.kind = "ACK" /\ Rest(m) = EmptyBag
    BY <1>4, <2>1
  <2>3. Succeeds(p, m)
    BY <1>c, <2>2, AnswersTaken
  <2>4. phase' = [phase EXCEPT ![p] = "accepted"] /\ datagrams' = One([from |-> p, kind |-> "LOG"])
    BY <2>2, <2>3, WireOfOne, WithoutOfEmpty DEF Succeeds, Stop
  <2>5. phase'[p] = "accepted" /\ (\A q \in Programs \ {p} : phase'[q] = phase[q])
    BY <1>6, <2>4
  <2>6. AloneAt(p)'
    BY <2>5 DEF AloneAt
  <2>. QED BY <1>1, <1>2, <2>4, <2>5, <2>6, AloneAfter
<1>. QED BY <1>1, <1>a, <1>b, <1>c DEF AwaitsAnswer

LEMMA ServeAlone ==
    ASSUME SafeInv, AloneInv, alone, NEW m \in Requests, Serve(m)
    PROVE  AloneInv'
<1>0. RemoteTypes /\ loggedIn \in BOOLEAN /\ owner \in Programs \cup {Nobody} /\ Nobody \notin Programs
  BY RemoteAssumption DEF SafeInv, RemoteTypes, RemoteTypeOK
<1>1. UNCHANGED <<phase, polls, retryCount, buffer, setting>>
  BY <1>0, RequestsHandled
<1>2. m \in OnTheWay /\ m \in Request /\ m \notin Response /\ m.from \in Programs
  BY <1>0, WireShape, DatagramShape DEF Requests, BagToSet, OnTheWay
<1>3. \A n : Wired(n) => n = m /\ Rest(m) = EmptyBag
  BY <1>2, WireOfOne DEF Wired, OnTheWay, Rest
<1>a. CASE Nobodys
  <2>1. datagrams = EmptyBag \/ \E q \in Programs : Wired([from |-> q, kind |-> "LOG"])
    BY <1>a DEF AloneInv
  <2>2. datagrams # EmptyBag
    BY <1>2, WireOfOne DEF OnTheWay
  <2>3. Rest(m) = EmptyBag /\ m.kind = "LOG"
    <3>1. PICK q \in Programs : Wired([from |-> q, kind |-> "LOG"])
      BY <2>1, <2>2
    <3>2. [from |-> q, kind |-> "LOG"] = m /\ Rest(m) = EmptyBag
      BY <1>3, <3>1
    <3>. QED BY <3>2
  <2>4. datagrams' = EmptyBag
    <3>1. owner = Nobody \/ phase[owner] \notin AwaitsAnswer
      BY <1>0, <1>a DEF Nobodys
    <3>2. Refuses(m) \/ LetsGo(m)
      BY <1>0, <2>3, RequestsHandled DEF Greets, Believes, Obeys
    <3>. QED BY <2>3, <3>1, <3>2 DEF Refuses, Tells, LetsGo
  <2>5. phase' = phase /\ alone' = alone /\ trusted' = trusted /\ sensible' = sensible
    BY <1>1 DEF setting
  <2>. QED BY <1>a, <2>4, <2>5 DEF AloneInv, Nobodys, AloneAt, AwaitsAnswer
<1>b. CASE ~Nobodys
  <2>1. PICK p \in Programs : phase[p] \in AwaitsAnswer
    BY <1>b DEF Nobodys
  <2>2. /\ \A q \in Programs \ {p} : phase[q] \notin AwaitsAnswer
        /\ AloneAt(p) /\ trusted = Programs /\ sensible = Programs
        /\ phase[p] = "login" => buffer[p].kind = "LIN"
        /\ phase[p] = "hash" => buffer[p].kind = "SHA"
        /\ phase[p] = "command" => buffer[p].kind = "LNK"
        /\ buffer[p] \in Request /\ buffer[p].from = p
    BY <2>1, AloneOne
  <2>3. \A n : Wired(n) => n \notin Response
    BY <1>2, <1>3
  <2>4. Wired(buffer[p]) /\ m = buffer[p] /\ Rest(m) = EmptyBag /\ m.from = p
    <3>1. ~Wired([to |-> p, kind |-> "ACK"]) /\ ~Wired([to |-> p, kind |-> "RND", random |-> random])
      <4>1. random \in Nat
        BY <1>0, WireShape
      <4>. QED BY <2>3, <4>1, RequestsMade
    <3>2. Wired(buffer[p])
      BY <2>1, <2>2, <3>1 DEF AloneAt, AwaitsAnswer
    <3>. QED BY <1>3, <2>2, <3>2
  <2>5. \A q \in Programs : phase'[q] = phase[q] /\ buffer'[q] = buffer[q]
    BY <1>1
  <2>6. AloneAt(p)'
    <3>1. CASE phase[p] = "login"
      <4>1. Greets(m)
        BY <1>0, <2>2, <2>4, <3>1, RequestsHandled DEF Refuses, Believes, Obeys, LetsGo
      <4>2. /\ loggedIn' = FALSE /\ owner' = p /\ random' = random + 1
            /\ datagrams' = Carried(EmptyBag, [to |-> p, kind |-> "RND", random |-> random'])
        BY <2>1, <2>4, <4>1 DEF Greets
      <4>3. datagrams' = One([to |-> p, kind |-> "RND", random |-> random'])
        BY <4>2, WireOfOne
      <4>. QED BY <2>5, <3>1, <4>2, <4>3 DEF AloneAt, Wired
    <3>2. CASE phase[p] = "hash"
      <4>1. owner = p /\ buffer[p].random = random /\ ~loggedIn
        <5>1. ~Wired([to |-> p, kind |-> "ACK"])
          BY <2>3, RequestsMade
        <5>. QED BY <2>2, <3>2, <5>1 DEF AloneAt
      <4>2. Believes(m)
        <5>1. m.kind = "SHA" /\ ~Stranger(m) /\ Valid(m)
          BY <2>2, <2>4, <3>2, <4>1 DEF Stranger, Valid
        <5>. QED BY <1>0, <4>1, <5>1, RequestsHandled DEF Greets, Obeys, LetsGo
      <4>3. /\ loggedIn' = TRUE /\ owner' = p /\ random' = random
            /\ datagrams' = Carried(EmptyBag, [to |-> p, kind |-> "ACK"])
        BY <1>0, <2>1, <2>4, <4>1, <4>2 DEF Believes, Tells
      <4>4. datagrams' = One([to |-> p, kind |-> "ACK"])
        BY <4>3, WireOfOne
      <4>. QED BY <2>5, <3>2, <4>1, <4>3, <4>4 DEF AloneAt, Wired
    <3>3. CASE phase[p] = "command"
      <4>1. owner = p /\ loggedIn
        BY <2>2, <3>3 DEF AloneAt
      <4>2. Obeys(m)
        <5>1. m.kind = "LNK" /\ ~Stranger(m) /\ m.from \in sensible
          BY <2>2, <2>4, <3>3, <4>1 DEF Stranger
        <5>. QED BY <1>0, <4>1, <5>1, RequestsHandled DEF Greets, Believes, LetsGo
      <4>3. /\ loggedIn' = loggedIn /\ owner' = p
            /\ datagrams' = Carried(EmptyBag, [to |-> p, kind |-> "ACK"])
        BY <1>0, <2>1, <2>4, <4>1, <4>2 DEF Obeys, Tells
      <4>4. datagrams' = One([to |-> p, kind |-> "ACK"])
        BY <4>3, WireOfOne
      <4>. QED BY <2>5, <3>3, <4>1, <4>3, <4>4 DEF AloneAt, Wired
    <3>. QED BY <2>1, <3>1, <3>2, <3>3 DEF AwaitsAnswer
  <2>7. phase'[p] \in {"login", "hash", "command", "accepted"} /\ phase'[p] # "accepted"
    BY <2>1, <2>5 DEF AwaitsAnswer
  <2>. QED BY <1>1, <2>1, <2>2, <2>5, <2>6, <2>7, AloneAfter
<1>. QED BY <1>a, <1>b

LEMMA RemoteInvInit == RemoteInit => SafeInv /\ AloneInv
<1>. SUFFICES ASSUME RemoteInit PROVE SafeInv /\ AloneInv
  OBVIOUS
<1>1. /\ datagrams = EmptyBag /\ phase = [p \in Programs |-> "idle"] /\ polls = [p \in Programs |-> 0]
      /\ retryCount = [p \in Programs |-> 0]
      /\ buffer = [p \in Programs |-> [from |-> p, kind |-> "LIN"]]
      /\ loggedIn = FALSE /\ owner = Nobody /\ random = 0 /\ done = {}
      /\ trusted \subseteq Programs /\ sensible \subseteq Programs /\ alone \in BOOLEAN
      /\ alone => trusted = Programs /\ sensible = Programs
  BY DEF RemoteInit
<1>2. OnTheWay = {} /\ IsABag(datagrams) /\ BagToSet(datagrams) = {}
  BY <1>1 DEF OnTheWay, IsABag, BagToSet, EmptyBag, SetToBag
<1>3. \A p \in Programs : buffer[p] \in Request /\ buffer[p].from = p /\ buffer[p].kind = "LIN"
  BY <1>1, RequestsMade
<1>4. RemoteTypes
  <2>1. buffer \in [Programs -> Request]
    BY <1>1, RequestsMade
  <2>2. 0 \in 0 .. MaxPolls /\ 0 \in 0 .. MaxRetries - 1
    BY RemoteAssumption
  <2>. QED BY <1>1, <1>2, <1>3, <2>1, <2>2
       DEF RemoteTypes, RemoteTypeOK, Phases, AwaitsAnswer, Randoms
<1>5. NumbersInv
  BY <1>2, <1>3 DEF NumbersInv
<1>6. OnlyTrusted
  BY <1>1 DEF OnlyTrusted
<1>7. \A p \in Programs : ProgramInv(p)
  BY <1>1, <1>2, <1>3
  DEF ProgramInv, BeforeHash, AtHash, AtCommand, AtEnd, NoAck, NoRequest
<1>8. AloneInv
  BY <1>1 DEF AloneInv, AloneAt, Nobodys, AwaitsAnswer
<1>. QED BY <1>4, <1>5, <1>6, <1>7, <1>8 DEF SafeInv

LEMMA RemoteInvStep == SafeInv /\ AloneInv /\ [RemoteNext]_remoteVars => SafeInv' /\ AloneInv'
<1>. SUFFICES ASSUME SafeInv, AloneInv, [RemoteNext]_remoteVars PROVE SafeInv' /\ AloneInv'
  OBVIOUS
<1>0. ASSUME UNCHANGED setting, ~alone PROVE AloneInv'
  BY <1>0 DEF AloneInv, setting
<1>1. ASSUME NEW p \in Programs, Login(p) PROVE SafeInv' /\ AloneInv'
  BY <1>1, <1>0, LoginIsSafe, LoginAlone DEF Login
<1>2. ASSUME NEW p \in Programs, Retry(p) PROVE SafeInv' /\ AloneInv'
  BY <1>2, <1>0, RetryIsSafe, RetryAlone DEF Retry
<1>3. ASSUME NEW p \in Programs, NEW m \in Responses, TakesAnswer(p, m) PROVE SafeInv' /\ AloneInv'
  BY <1>3, <1>0, TakesAnswerIsSafe, TakesAnswerAlone, AnswersTaken
<1>4. ASSUME NEW m \in Requests, Serve(m) PROVE SafeInv' /\ AloneInv'
  BY <1>4, <1>0, ServeIsSafe, ServeAlone DEF Serve
<1>6. ASSUME NEW p \in Programs, NEW kind \in {"LNK", "LOG"}, Unbidden(p, kind) PROVE SafeInv' /\ AloneInv'
  <2>1. UNCHANGED setting /\ ~alone
    BY <1>6 DEF Unbidden, AloneInv
  <2>. QED BY <1>0, <1>6, <2>1, UnbiddenIsSafe
<1>5. CASE UNCHANGED remoteVars
  BY <1>5, ZenonT(40) DEF remoteVars, gateway, setting, SafeInv, RemoteTypes, RemoteTypeOK, NumbersInv, KnownNumber,
              OnlyTrusted, ProgramInv, BeforeHash, AtHash, AtCommand, AtEnd, NoAck, OneAck, NoRequest,
              SpentSha, OnTheWay, AloneInv, AloneAt, Nobodys, Wired
<1>. QED BY <1>1, <1>2, <1>3, <1>4, <1>5, <1>6 DEF RemoteNext

LEMMA LoginIsRight == SafeInv /\ AloneInv => LoginSound
BY DEF SafeInv, AloneInv, LoginSound, AcceptedIsDone, AloneSucceeds, ProgramInv, AtEnd

(* Whatever datagrams are lost or late and however the logins of several   *)
(* programs mix: a program told that its command was accepted has had it   *)
(* carried out, nobody without the password gets anything done, and one    *)
(* that is alone on a network without delay succeeds                       *)
(* (CRemoteHandler::process, dgwremotecontrol's main).                     *)
THEOREM LoginAlwaysSound == RemoteSpec => []LoginSound
BY RemoteInvInit, RemoteInvStep, LoginIsRight, PTL DEF RemoteSpec

---------------------------------------------------------------------------
(* Queries to several networks *)

MultiTypes ==
    /\ MultiTypeOK /\ inbox \in [Clients -> Seq(Answer)]
    /\ \A c \in Clients, k \in Keys : underway[c][k] <= questions

(* What a query on a user holds, while all that was counted knows him. *)
NewestOf(known, given) ==
    \/ given = {} /\ known = 0
    \/ known \in given /\ \A g \in given : g <= known
NewestSoFar ==
    \A u \in Users : queries[u] # NoQuestion /\ 0 \notin queries[u].given
                       => NewestOf(queries[u].known, queries[u].given)

MultiInv == MultiTypes /\ NewestSoFar /\ NewestWins /\ NoneLost

LEMMA MaxIs ==
    ASSUME NEW S \in SUBSET Nat, NEW x \in S, \A y \in S : y <= x
    PROVE  x = Max(S)
<1>1. \A z \in S : (\A y \in S : z >= y) <=> z = x
  OBVIOUS
<1>. QED BY <1>1 DEF Max

LEMMA QuestionShape ==
    /\ NewQuestion \in Question /\ NewQuestion # NoQuestion
    /\ NewQuestion.known = 0 /\ NewQuestion.count = 0 /\ NewQuestion.given = {}
    /\ \A q \in Question : /\ q.known \in Known /\ q.count \in 0 .. Networks - 1 /\ q.given \subseteq Known
                           /\ q # NoQuestion
    /\ Networks \in Nat /\ 1 \in Clients /\ Known \subseteq Nat
<1>1. Networks \in Nat \ {0} /\ MaxStamp \in Nat
  BY MultiAssumption
<1>2. /\ NewQuestion.known = 0 /\ NewQuestion.count = 0 /\ NewQuestion.given = {}
      /\ NoQuestion.count = Networks
  BY DEF NewQuestion, NoQuestion
<1>3. NewQuestion \in Question
  BY <1>1 DEF NewQuestion, Question, Known
<1>4. \A q \in Question : q.known \in Known /\ q.count \in 0 .. Networks - 1 /\ q.given \subseteq Known
  BY DEF Question
<1>5. \A q \in Question : q # NoQuestion
  BY <1>1, <1>2, <1>4
<1>6. 1 \in Clients /\ Known \subseteq Nat
  BY <1>1 DEF Clients, Known
<1>. QED BY <1>1, <1>2, <1>3, <1>4, <1>5, <1>6

(* One more answer in a query. *)
LEMMA UpdateShape ==
    ASSUME NEW q \in Question, NEW a \in Answer, NEW r, r = Update(q, a)
    PROVE  /\ r \in Question /\ r.count = q.count /\ r.given = q.given \cup {a.known}
           /\ a.key \in Users /\ 0 \notin r.given /\ (0 \notin q.given => NewestOf(q.known, q.given))
                => NewestOf(r.known, r.given)
<1>1. /\ q.known \in Known /\ q.count \in 0 .. Networks - 1 /\ q.given \subseteq Known
      /\ a.known \in Known /\ a.key \in Keys /\ Known \subseteq Nat
  BY QuestionShape DEF Answer
<1>2. PICK x \in Known : x = IF Stamp(a.key, a.known) = 0 \/ Stamp(a.key, a.known) >= Stamp(a.key, q.known)
                             THEN a.known ELSE q.known
  BY <1>1
<1>3. r = [q EXCEPT !.known = x, !.given = q.given \cup {a.known}]
  BY <1>2 DEF Update
<1>4. r = [known |-> x, count |-> q.count, given |-> q.given \cup {a.known}]
  BY <1>3 DEF Question
<1>5. r \in Question /\ r.known = x /\ r.count = q.count /\ r.given = q.given \cup {a.known}
  BY <1>1, <1>4 DEF Question
<1>6. ASSUME a.key \in Users, 0 \notin r.given, 0 \notin q.given => NewestOf(q.known, q.given)
      PROVE  NewestOf(r.known, r.given)
  <2>1. a.known # 0 /\ NewestOf(q.known, q.given)
    BY <1>5, <1>6
  <2>2. x = IF a.known >= q.known THEN a.known ELSE q.known
    BY <1>1, <1>2, <1>6, <2>1 DEF Stamp
  <2>. QED BY <1>1, <1>5, <2>1, <2>2 DEF NewestOf
<1>. QED BY <1>5, <1>6

(* The networks that owe an answer. *)
Owing(k) == {c \in Clients : Owes(c, k)}

LEMMA ClientsFinite == IsFiniteSet(Clients) /\ Cardinality(Clients) = Networks
<1>1. Networks \in Nat \ {0}
  BY MultiAssumption
<1>. QED BY <1>1, FS_Interval DEF Clients

LEMMA OwingIsFinite ==
    ASSUME NEW k
    PROVE  IsFiniteSet(Owing(k)) /\ Cardinality(Owing(k)) \in Nat
BY ClientsFinite, FS_Subset, FS_CardinalityType DEF Owing

LEMMA OwingGrows ==
    ASSUME NEW k, \A c \in Clients : Owes(c, k) => Owes(c, k)'
    PROVE  Cardinality(Owing(k)) <= Cardinality(Owing(k)') /\ Cardinality(Owing(k)') \in Nat
<1>1. Owing(k) \subseteq Owing(k)' /\ Owing(k)' \subseteq Clients
  BY DEF Owing
<1>. QED BY <1>1, ClientsFinite, FS_Subset, FS_CardinalityType

LEMMA OwingButOne ==
    ASSUME NEW k, NEW d, \A c \in Clients \ {d} : Owes(c, k) => Owes(c, k)'
    PROVE  Cardinality(Owing(k)) <= Cardinality(Owing(k)') + 1 /\ Cardinality(Owing(k)') \in Nat
<1>1. Owing(k) \ {d} \subseteq Owing(k)' /\ Owing(k)' \subseteq Clients
  BY DEF Owing
<1>2. /\ IsFiniteSet(Owing(k)) /\ Cardinality(Owing(k)) \in Nat
      /\ IsFiniteSet(Owing(k)') /\ Cardinality(Owing(k)') \in Nat
  BY <1>1, OwingIsFinite, ClientsFinite, FS_Subset, FS_CardinalityType
<1>3. Cardinality(Owing(k) \ {d}) <= Cardinality(Owing(k)')
  BY <1>1, <1>2, FS_Subset
<1>4. Cardinality(Owing(k)) <= Cardinality(Owing(k) \ {d}) + 1
  <2>1. Cardinality(Owing(k) \ {d}) = IF d \in Owing(k) THEN Cardinality(Owing(k)) - 1 ELSE Cardinality(Owing(k))
    BY <1>2, FS_RemoveElement
  <2>. QED BY <1>2, <2>1
<1>5. Cardinality(Owing(k) \ {d}) \in Nat
  BY <1>2, FS_RemoveElement, FS_CardinalityType
<1>. QED BY <1>2, <1>3, <1>4, <1>5

LEMMA OwingAll ==
    ASSUME NEW k, \A c \in Clients : Owes(c, k)'
    PROVE  Cardinality(Owing(k)') = Networks
<1>1. Owing(k)' = Clients
  BY DEF Owing
<1>. QED BY <1>1, ClientsFinite

LEMMA OwingIs == NoneLost <=> \A k \in Keys : queries[k] # NoQuestion => queries[k].count + Cardinality(Owing(k)) >= Networks
BY DEF NoneLost, Owing

LEMMA MultiShape ==
    ASSUME MultiTypes
    PROVE  /\ knows \in [Clients -> [Keys -> Known]]
           /\ underway \in [Clients -> [Keys -> 0 .. MaxQuestions]]
           /\ inbox \in [Clients -> Seq(Answer)]
           /\ queries \in [Keys -> Question \cup {NoQuestion}]
           /\ told \in Seq([key : Keys, known : Known, given : SUBSET Known])
           /\ questions \in 0 .. MaxQuestions /\ turn \in Clients /\ MaxQuestions \in Nat
           /\ \A c \in Clients, k \in Keys : underway[c][k] \in Nat /\ underway[c][k] <= questions
           /\ Users \subseteq Keys /\ Places \subseteq Keys /\ Users \cap Places = {}
<1>1. MultiTypeOK /\ inbox \in [Clients -> Seq(Answer)]
      /\ \A c \in Clients, k \in Keys : underway[c][k] <= questions
  BY DEF MultiTypes
<1>2. underway \in [Clients -> [Keys -> 0 .. MaxQuestions]] /\ MaxQuestions \in Nat
  BY <1>1, MultiAssumption DEF MultiTypeOK
<1>3. \A c \in Clients, k \in Keys : underway[c][k] \in Nat
  BY <1>2
<1>. QED BY <1>1, <1>2, <1>3, MultiAssumption DEF MultiTypeOK, Keys

(* Something more in a queue. *)
LEMMA MoreInQueue ==
    ASSUME NEW s \in Seq(Answer), NEW a \in Answer, NEW t, t = Append(s, a)
    PROVE  /\ t \in Seq(Answer)
           /\ \E i \in DOMAIN t : t[i].key = a.key
           /\ \A k : (\E i \in DOMAIN s : s[i].key = k) => \E i \in DOMAIN t : t[i].key = k
<1>1. /\ t \in Seq(Answer) /\ Len(s) \in Nat /\ DOMAIN s = 1 .. Len(s) /\ DOMAIN t = 1 .. Len(s) + 1
      /\ t[Len(s) + 1] = a /\ \A i \in 1 .. Len(s) : t[i] = s[i]
  OBVIOUS
<1>2. \E i \in DOMAIN t : t[i].key = a.key
  BY <1>1
<1>3. ASSUME NEW k, NEW i \in DOMAIN s, s[i].key = k PROVE \E j \in DOMAIN t : t[j].key = k
  <2>1. i \in DOMAIN t /\ t[i] = s[i]
    BY <1>1
  <2>. QED BY <1>3, <2>1
<1>. QED BY <1>1, <1>2, <1>3

FirstOf(s, t, a) == s # <<>> /\ t = Tail(s) /\ a = Head(s)
LEMMA HeadOfQueue ==
    ASSUME NEW s \in Seq(Answer), NEW t, NEW a, FirstOf(s, t, a)
    PROVE  /\ t \in Seq(Answer) /\ a \in Answer
           /\ \A i \in DOMAIN s : s[i].key # a.key => \E j \in DOMAIN t : t[j].key = s[i].key
<1>1. /\ t \in Seq(Answer) /\ a \in Answer /\ a = s[1] /\ Len(s) \in Nat \ {0}
      /\ DOMAIN s = 1 .. Len(s) /\ DOMAIN t = 1 .. Len(s) - 1
      /\ \A i \in 1 .. Len(s) - 1 : t[i] = s[i + 1]
  BY DEF FirstOf
<1>2. ASSUME NEW i \in DOMAIN s, s[i].key # a.key PROVE \E j \in DOMAIN t : t[j].key = s[i].key
  <2>1. i # 1 /\ i \in Nat
    BY <1>1, <1>2
  <2>2. i - 1 \in DOMAIN t /\ t[i - 1] = s[i]
    BY <1>1, <2>1
  <2>. QED BY <1>2, <2>2
<1>. QED BY <1>1, <1>2

(* The parts of the invariant a step leaves alone. *)
LEMMA QueriesKept ==
    ASSUME MultiInv, UNCHANGED <<queries, told>>, \A c \in Clients, k \in Keys : Owes(c, k) => Owes(c, k)'
    PROVE  NewestSoFar' /\ NewestWins' /\ NoneLost'
<1>1. NewestSoFar' /\ NewestWins'
  BY DEF MultiInv, NewestSoFar, NewestWins
<1>2. ASSUME NEW k \in Keys, queries[k] # NoQuestion
      PROVE  queries[k].count + Cardinality(Owing(k)') >= Networks
  <2>1. queries[k] \in Question
    BY <1>2, MultiShape DEF MultiInv
  <2>2. queries[k].count \in Nat /\ Networks \in Nat
    BY <2>1, QuestionShape
  <2>3. Cardinality(Owing(k)) <= Cardinality(Owing(k)') /\ Cardinality(Owing(k)') \in Nat
    BY OwingGrows
  <2>4. Cardinality(Owing(k)) \in Nat /\ queries[k].count + Cardinality(Owing(k)) >= Networks
    BY <1>2, OwingIs, OwingIsFinite DEF MultiInv
  <2>. QED BY <2>2, <2>3, <2>4
<1>3. NoneLost'
  BY <1>2 DEF NoneLost, Owing
<1>. QED BY <1>1, <1>3

LEMMA HearInv ==
    ASSUME MultiInv, NEW c \in Clients, NEW u \in Users, NEW t \in Known, Hear(c, u, t)
    PROVE  MultiInv'
<1> DEFINE a == [key |-> u, known |-> t]
<1>0. MultiTypes /\ u \in Keys
  BY MultiShape DEF MultiInv
<1>1. a \in Answer /\ a.key = u
  BY <1>0 DEF Answer
<1> HIDE DEF a
<1>2. /\ knows' = [knows EXCEPT ![c][u] = t] /\ inbox' = [inbox EXCEPT ![c] = Append(inbox[c], a)]
      /\ UNCHANGED <<underway, queries, told, questions, turn>>
  BY <1>0, MultiShape DEF Hear, a
<1>3. /\ inbox[c] \in Seq(Answer) /\ inbox'[c] = Append(inbox[c], a)
      /\ \A d \in Clients \ {c} : inbox'[d] = inbox[d]
  BY <1>0, <1>2, MultiShape
<1>4. /\ inbox'[c] \in Seq(Answer)
      /\ \A k : (\E i \in DOMAIN inbox[c] : inbox[c][i].key = k) => \E i \in DOMAIN inbox'[c] : inbox'[c][i].key = k
  BY <1>1, <1>3, MoreInQueue
<1>5. inbox' \in [Clients -> Seq(Answer)] /\ knows' \in [Clients -> [Keys -> Known]]
  BY <1>0, <1>2, <1>4, <1>3, MultiShape
<1>6. MultiTypes'
  BY <1>0, <1>2, <1>5 DEF MultiTypes, MultiTypeOK
<1>7. \A d \in Clients, k \in Keys : Owes(d, k) => Owes(d, k)'
  BY <1>2, <1>3, <1>4 DEF Owes
<1>. QED BY <1>2, <1>6, <1>7, QueriesKept DEF MultiInv

LEMMA ReplyInv ==
    ASSUME MultiInv, NEW c \in Clients, NEW u \in Users, Reply(c, u)
    PROVE  MultiInv'
<1> DEFINE a == Says(c, u)
<1>0. MultiTypes /\ u \in Keys
  BY MultiShape DEF MultiInv
<1>1. a \in Answer /\ a.key = u
  BY <1>0, MultiShape DEF Answer, Says
<1> HIDE DEF a
<1>2. /\ underway[c][u] > 0 /\ underway' = [underway EXCEPT ![c][u] = underway[c][u] - 1]
      /\ inbox' = [inbox EXCEPT ![c] = Append(inbox[c], a)]
      /\ UNCHANGED <<knows, queries, told, questions, turn>>
  BY <1>0, MultiShape DEF Reply, a
<1>3. /\ inbox[c] \in Seq(Answer) /\ inbox'[c] = Append(inbox[c], a)
      /\ \A d \in Clients \ {c} : inbox'[d] = inbox[d]
  BY <1>0, <1>2, MultiShape
<1>4. /\ inbox'[c] \in Seq(Answer)
      /\ \E i \in DOMAIN inbox'[c] : inbox'[c][i].key = u
      /\ \A k : (\E i \in DOMAIN inbox[c] : inbox[c][i].key = k) => \E i \in DOMAIN inbox'[c] : inbox'[c][i].key = k
  BY <1>1, <1>3, MoreInQueue, SMTT(40)
<1>5. inbox' \in [Clients -> Seq(Answer)]
  BY <1>0, <1>2, <1>4, <1>3, MultiShape
<1>6. /\ underway' \in [Clients -> [Keys -> 0 .. MaxQuestions]]
      /\ \A d \in Clients, k \in Keys : underway'[d][k] <= questions
      /\ \A d \in Clients, k \in Keys : d # c \/ k # u => underway'[d][k] = underway[d][k]
  <2>1. underway \in [Clients -> [Keys -> 0 .. MaxQuestions]] /\ underway[c] \in [Keys -> 0 .. MaxQuestions]
        /\ underway[c][u] - 1 \in 0 .. MaxQuestions /\ underway[c][u] - 1 <= questions
    BY <1>0, <1>2, MultiShape
  <2>2. \A d \in Clients, k \in Keys :
            underway'[d][k] = IF d = c /\ k = u THEN underway[c][u] - 1 ELSE underway[d][k]
    BY <1>0, <1>2, <2>1
  <2>3. underway' \in [Clients -> [Keys -> 0 .. MaxQuestions]]
    BY <1>2, <2>1
  <2>. QED BY <1>0, <2>1, <2>2, <2>3, MultiShape
<1>7. MultiTypes'
  BY <1>0, <1>2, <1>5, <1>6 DEF MultiTypes, MultiTypeOK
<1>8. \A d \in Clients, k \in Keys : Owes(d, k) => Owes(d, k)'
  BY <1>2, <1>3, <1>4, <1>6 DEF Owes
<1>. QED BY <1>2, <1>7, <1>8, QueriesKept DEF MultiInv

(* A question is asked of every network. *)
LEMMA AskedInv ==
    ASSUME MultiInv, NEW k \in Keys, queries' = PushQuestion(queries, k, NewQuestion), UNCHANGED told,
           \A c \in Clients, j \in Keys : Owes(c, j) => Owes(c, j)', \A c \in Clients : Owes(c, k)'
    PROVE  /\ queries' \in [Keys -> Question \cup {NoQuestion}]
           /\ NewestSoFar' /\ NewestWins' /\ NoneLost'
<1>0. queries \in [Keys -> Question \cup {NoQuestion}] /\ Users \subseteq Keys
  BY MultiShape DEF MultiInv
<1>1. \A j \in Keys : queries'[j] = queries[j] \/ (j = k /\ queries'[j] = NewQuestion)
  BY <1>0 DEF PushQuestion
<1>2. queries' \in [Keys -> Question \cup {NoQuestion}]
  BY <1>0, QuestionShape DEF PushQuestion
<1>3. NewestSoFar'
  BY <1>0, <1>1, QuestionShape DEF MultiInv, NewestSoFar, NewestOf
<1>4. NewestWins'
  BY DEF MultiInv, NewestWins
<1>5. ASSUME NEW j \in Keys, queries'[j] # NoQuestion
      PROVE  queries'[j].count + Cardinality(Owing(j)') >= Networks
  <2>1. queries'[j].count \in Nat /\ Networks \in Nat
    BY <1>2, <1>5, QuestionShape
  <2>2. CASE queries'[j] = queries[j]
    <3>1. Cardinality(Owing(j)) <= Cardinality(Owing(j)') /\ Cardinality(Owing(j)') \in Nat
      BY OwingGrows
    <3>2. Cardinality(Owing(j)) \in Nat /\ queries[j].count + Cardinality(Owing(j)) >= Networks
      BY <1>5, <2>2, OwingIs, OwingIsFinite DEF MultiInv
    <3>. QED BY <2>1, <2>2, <3>1, <3>2
  <2>3. CASE j = k /\ queries'[j] = NewQuestion
    <3>1. Cardinality(Owing(j)') = Networks
      BY <2>3, OwingAll
    <3>. QED BY <2>1, <3>1
  <2>. QED BY <1>1, <2>2, <2>3
<1>6. NoneLost'
  BY <1>5 DEF NoneLost, Owing
<1>. QED BY <1>2, <1>3, <1>4, <1>6

LEMMA AskForUserInv ==
    ASSUME MultiInv, NEW u \in Users, AskForUser(u)
    PROVE  MultiInv'
<1>0. MultiTypes /\ u \in Keys
  BY MultiShape DEF MultiInv
<1>1. /\ questions < MaxQuestions /\ questions' = questions + 1
      /\ queries' = PushQuestion(queries, u, NewQuestion)
      /\ underway' = [c \in Clients |-> [underway[c] EXCEPT ![u] = underway[c][u] + 1]]
      /\ UNCHANGED <<knows, inbox, told, turn>>
  BY DEF AskForUser
<1>2. \A c \in Clients, k \in Keys :
          underway'[c][k] = IF k = u THEN underway[c][u] + 1 ELSE underway[c][k]
  BY <1>0, <1>1, MultiShape
<1>3. /\ underway' \in [Clients -> [Keys -> 0 .. MaxQuestions]] /\ questions' \in 0 .. MaxQuestions
      /\ \A c \in Clients, k \in Keys : underway'[c][k] <= questions'
  <2>1. questions' \in 0 .. MaxQuestions
    BY <1>0, <1>1, MultiShape
  <2>2. \A c \in Clients : underway[c][u] + 1 \in 0 .. MaxQuestions /\ underway[c] \in [Keys -> 0 .. MaxQuestions]
    BY <1>0, <1>1, MultiShape
  <2>3. underway' \in [Clients -> [Keys -> 0 .. MaxQuestions]]
    BY <1>1, <2>2
  <2>4. \A c \in Clients, k \in Keys : underway'[c][k] <= questions'
    <3>1. ASSUME NEW c \in Clients, NEW k \in Keys PROVE underway'[c][k] <= questions'
      <4>1. /\ underway[c][k] \in Nat /\ underway[c][k] <= questions
            /\ underway[c][u] \in Nat /\ underway[c][u] <= questions /\ questions \in Nat
        BY <1>0, MultiShape
      <4>. QED BY <1>1, <1>2, <4>1
    <3>. QED BY <3>1
  <2>. QED BY <2>1, <2>3, <2>4
<1>4. /\ \A c \in Clients, k \in Keys : Owes(c, k) => Owes(c, k)'
      /\ \A c \in Clients : Owes(c, u)'
  <2>1. \A c \in Clients, k \in Keys : underway[c][k] \in Nat
    BY <1>0, MultiShape
  <2>. QED BY <1>0, <1>1, <1>2, <2>1 DEF Owes
<1>5. /\ queries' \in [Keys -> Question \cup {NoQuestion}]
      /\ NewestSoFar' /\ NewestWins' /\ NoneLost'
  BY <1>0, <1>1, <1>4, AskedInv
<1>6. MultiTypes'
  BY <1>0, <1>1, <1>3, <1>5 DEF MultiTypes, MultiTypeOK
<1>. QED BY <1>5, <1>6 DEF MultiInv

LEMMA AskForPlaceInv ==
    ASSUME MultiInv, NEW p \in Places, AskForPlace(p)
    PROVE  MultiInv'
<1>0. MultiTypes /\ p \in Keys
  BY MultiShape DEF MultiInv
<1>1. /\ questions < MaxQuestions /\ questions' = questions + 1
      /\ queries' = PushQuestion(queries, p, NewQuestion)
      /\ inbox' = [c \in Clients |-> Append(inbox[c], Says(c, p))]
      /\ UNCHANGED <<knows, underway, told, turn>>
  BY DEF AskForPlace
<1>2. ASSUME NEW c \in Clients
      PROVE  /\ inbox'[c] \in Seq(Answer)
             /\ \E i \in DOMAIN inbox'[c] : inbox'[c][i].key = p
             /\ \A k : (\E i \in DOMAIN inbox[c] : inbox[c][i].key = k) => \E i \in DOMAIN inbox'[c] : inbox'[c][i].key = k
  <2>1. Says(c, p) \in Answer /\ Says(c, p).key = p
    BY <1>0, MultiShape DEF Says, Answer
  <2>2. inbox[c] \in Seq(Answer) /\ inbox'[c] = Append(inbox[c], Says(c, p))
    BY <1>0, <1>1, MultiShape
  <2>. QED BY <2>1, <2>2, MoreInQueue
<1>3. inbox' \in [Clients -> Seq(Answer)]
  <2>1. inbox' = [c \in Clients |-> inbox'[c]]
    BY <1>1
  <2>. QED BY <1>2, <2>1
<1>4. /\ \A c \in Clients, k \in Keys : Owes(c, k) => Owes(c, k)'
      /\ \A c \in Clients : Owes(c, p)'
  BY <1>1, <1>2, ZenonT(40) DEF Owes
<1>5. /\ queries' \in [Keys -> Question \cup {NoQuestion}]
      /\ NewestSoFar' /\ NewestWins' /\ NoneLost'
  BY <1>0, <1>1, <1>4, AskedInv
<1>6. questions' \in 0 .. MaxQuestions /\ \A c \in Clients, k \in Keys : underway'[c][k] <= questions'
  <2>1. questions' \in 0 .. MaxQuestions
    BY <1>0, <1>1, MultiShape
  <2>2. ASSUME NEW c \in Clients, NEW k \in Keys PROVE underway'[c][k] <= questions'
    <3>1. underway[c][k] \in Nat /\ underway[c][k] <= questions /\ questions \in Nat
      BY <1>0, MultiShape
    <3>. QED BY <1>1, <3>1
  <2>. QED BY <2>1, <2>2
<1>7. MultiTypes'
  BY <1>0, <1>1, <1>2, <1>3, <1>5, <1>6 DEF MultiTypes, MultiTypeOK
<1>. QED BY <1>5, <1>7 DEF MultiInv

LEMMA PollInv ==
    ASSUME MultiInv, Poll
    PROVE  MultiInv'
<1>0. MultiTypes /\ NewestSoFar /\ NewestWins /\ NoneLost
  BY DEF MultiInv
<1>1. /\ turn' \in Clients /\ UNCHANGED <<knows, underway, questions>>
  <2>1. turn' = IF turn = Networks THEN 1 ELSE turn + 1
    BY DEF Poll
  <2>2. turn \in 1 .. Networks /\ Networks \in Nat
    BY <1>0, MultiShape, QuestionShape DEF Clients
  <2>3. turn' \in Clients
    BY <2>1, <2>2 DEF Clients
  <2>. QED BY <2>3 DEF Poll
<1> DEFINE Told == [key : Keys, known : Known, given : SUBSET Known]
           Fair(t) == t.key \in Users /\ t.given # {} /\ 0 \notin t.given => t.known = Max(t.given)
<1>2. ToldBefore \in Seq(Told) /\ \A i \in DOMAIN ToldBefore : Fair(ToldBefore[i])
  BY <1>0, MultiShape DEF ToldBefore, NewestWins
<1>3. ASSUME NEW s \in Seq(Told), \A i \in DOMAIN s : Fair(s[i]), NEW t \in Told, Fair(t), told' = Append(s, t)
      PROVE  told' \in Seq(Told) /\ NewestWins'
  <2>1. /\ Len(s) \in Nat /\ DOMAIN told' = 1 .. Len(s) + 1 /\ told'[Len(s) + 1] = t
        /\ \A i \in 1 .. Len(s) : told'[i] = s[i] /\ i \in DOMAIN s
        /\ told' \in Seq(Told)
    BY <1>3
  <2>2. \A i \in DOMAIN told' : Fair(told'[i])
    BY <1>3, <2>1
  <2>. QED BY <2>1, <2>2 DEF NewestWins
<1>a. CASE inbox[turn] = <<>> /\ told' = ToldBefore /\ UNCHANGED <<inbox, queries>>
  <2>1. NewestWins' /\ told' \in Seq(Told)
    BY <1>2, <1>a DEF NewestWins
  <2>2. MultiTypes'
    BY <1>0, <1>1, <1>a, <2>1 DEF MultiTypes, MultiTypeOK
  <2>3. NewestSoFar' /\ NoneLost'
    BY <1>0, <1>1, <1>a DEF NewestSoFar, NoneLost, Owes
  <2>. QED BY <2>1, <2>2, <2>3 DEF MultiInv
<1>b. CASE inbox[turn] # <<>> /\ Take(Head(inbox[turn])) /\ inbox' = [inbox EXCEPT ![turn] = Tail(inbox[turn])]
  <2>0. PICK a : a = Head(inbox[turn])
    OBVIOUS
  <2> DEFINE q == Update(queries[a.key], a)
  <2>1. /\ inbox[turn] \in Seq(Answer) /\ inbox'[turn] = Tail(inbox[turn])
        /\ \A c \in Clients \ {turn} : inbox'[c] = inbox[c]
    BY <1>0, <1>b, MultiShape
  <2>2. /\ inbox'[turn] \in Seq(Answer) /\ a \in Answer
        /\ \A k : (\E i \in DOMAIN inbox[turn] : inbox[turn][i].key = k) /\ k # a.key
               => \E i \in DOMAIN inbox'[turn] : inbox'[turn][i].key = k
    <3>1. PICK s, t : s = inbox[turn] /\ t = inbox'[turn]
      OBVIOUS
    <3>2. s \in Seq(Answer) /\ FirstOf(s, t, a)
      BY <1>b, <2>0, <2>1, <3>1 DEF FirstOf
    <3>3. /\ t \in Seq(Answer) /\ a \in Answer
          /\ \A i \in DOMAIN s : s[i].key # a.key => \E j \in DOMAIN t : t[j].key = s[i].key
      BY <3>2, HeadOfQueue
    <3>. QED BY <3>1, <3>3
  <2>3. inbox' \in [Clients -> Seq(Answer)]
    BY <1>0, <1>b, <2>1, <2>2, MultiShape
  <2>4. a.key \in Keys /\ a.known \in Known
    BY <2>2 DEF Answer
  <2>5. Take(a)
    BY <1>b, <2>0
  <2>6. \A c \in Clients, k \in Keys : k # a.key /\ Owes(c, k) => Owes(c, k)'
    BY <1>1, <2>1, <2>2 DEF Owes
  <2>7. \A c \in Clients \ {turn}, k \in Keys : Owes(c, k) => Owes(c, k)'
    BY <1>1, <2>1 DEF Owes
  <2>8. queries \in [Keys -> Question \cup {NoQuestion}]
    BY <1>0, MultiShape
  <2>9. ASSUME NEW k \in Keys, k # a.key, queries[k] # NoQuestion
        PROVE  queries[k].count + Cardinality(Owing(k)') >= Networks
    <3>1. Cardinality(Owing(k)) <= Cardinality(Owing(k)') /\ Cardinality(Owing(k)') \in Nat
      BY <2>6, <2>9, OwingGrows
    <3>2. Cardinality(Owing(k)) \in Nat /\ queries[k].count + Cardinality(Owing(k)) >= Networks
      BY <1>0, <2>9, OwingIs, OwingIsFinite
    <3>3. queries[k].count \in Nat /\ Networks \in Nat
      BY <2>8, <2>9, QuestionShape
    <3>. QED BY <3>1, <3>2, <3>3
  <2>c. CASE /\ queries[a.key] = NoQuestion
             /\ told' = Append(ToldBefore, [key |-> a.key, known |-> a.known, given |-> {}])
             /\ UNCHANGED queries
    <3>1. PICK t \in Told : t = [key |-> a.key, known |-> a.known, given |-> {}]
      BY <2>4
    <3>2. Fair(t)
      BY <3>1
    <3>3. told' \in Seq(Told) /\ NewestWins'
      BY <1>2, <1>3, <2>c, <3>1, <3>2
    <3>4. MultiTypes'
      BY <1>0, <1>1, <2>3, <2>c, <3>3 DEF MultiTypes, MultiTypeOK
    <3>5. NewestSoFar'
      BY <1>0, <2>c DEF NewestSoFar
    <3>6. NoneLost'
      BY <2>9, <2>c DEF NoneLost, Owing
    <3>. QED BY <3>3, <3>4, <3>5, <3>6 DEF MultiInv
  <2>d. CASE queries[a.key] # NoQuestion
    <3>1. /\ queries[a.key] \in Question /\ q \in Question /\ q.count = queries[a.key].count
          /\ q.given = queries[a.key].given \cup {a.known}
          /\ a.key \in Users /\ 0 \notin q.given => NewestOf(q.known, q.given)
      <4>1. queries[a.key] \in Question
        BY <2>4, <2>8, <2>d
      <4>2. a.key \in Users /\ 0 \notin queries[a.key].given => NewestOf(queries[a.key].known, queries[a.key].given)
        BY <1>0, <2>d DEF NewestSoFar
      <4>. QED BY <2>2, <4>1, <4>2, UpdateShape
    <3>2. q.known \in Known /\ q.given \subseteq Known /\ q.given # {} /\ q.count \in 0 .. Networks - 1
          /\ Networks \in Nat /\ Known \subseteq Nat
      BY <3>1, QuestionShape
    <3>c. CASE /\ q.count + 1 >= Networks
               /\ told' = Append(ToldBefore, [key |-> a.key, known |-> q.known, given |-> q.given])
               /\ queries' = [queries EXCEPT ![a.key] = NoQuestion]
      <4>1. PICK t \in Told : t = [key |-> a.key, known |-> q.known, given |-> q.given]
        BY <2>4, <3>2
      <4>2. Fair(t)
        <5>1. a.key \in Users /\ 0 \notin q.given => q.known \in q.given /\ \A g \in q.given : g <= q.known
          BY <3>1, <3>2 DEF NewestOf
        <5>2. q.given \in SUBSET Nat
          BY <3>2
        <5>. QED BY <4>1, <5>1, <5>2, MaxIs
      <4>3. told' \in Seq(Told) /\ NewestWins'
        BY <1>2, <1>3, <3>c, <4>1, <4>2
      <4>4. queries' \in [Keys -> Question \cup {NoQuestion}]
        BY <2>8, <3>c
      <4>5. \A k \in Keys : queries'[k] # NoQuestion => k # a.key /\ queries'[k] = queries[k]
        BY <2>4, <2>8, <3>c
      <4>6. MultiTypes'
        BY <1>0, <1>1, <2>3, <4>3, <4>4 DEF MultiTypes, MultiTypeOK
      <4>7. NewestSoFar'
        BY <1>0, <4>5, MultiShape DEF NewestSoFar
      <4>8. NoneLost'
        BY <2>9, <4>5 DEF NoneLost, Owing
      <4>. QED BY <4>3, <4>6, <4>7, <4>8 DEF MultiInv
    <3>d. CASE /\ q.count + 1 < Networks
               /\ queries' = [queries EXCEPT ![a.key] = [q EXCEPT !.count = q.count + 1]]
               /\ told' = ToldBefore
      <4>1. PICK r \in Question : r = [q EXCEPT !.count = q.count + 1] /\ r.known = q.known
                                  /\ r.count = q.count + 1 /\ r.given = q.given
        <5>1. q.count + 1 \in 0 .. Networks - 1
          BY <3>2, <3>d
        <5>2. [q EXCEPT !.count = q.count + 1] = [known |-> q.known, count |-> q.count + 1, given |-> q.given]
          <6>1. q \in [known : Known, count : 0 .. Networks - 1, given : SUBSET Known]
            BY <3>1 DEF Question
          <6>. QED BY <6>1
        <5>3. [known |-> q.known, count |-> q.count + 1, given |-> q.given] \in Question
          BY <3>2, <5>1 DEF Question
        <5>. QED BY <5>2, <5>3
      <4>2. NewestWins' /\ told' \in Seq(Told)
        BY <1>2, <3>d DEF NewestWins
      <4>3. queries' \in [Keys -> Question \cup {NoQuestion}]
        BY <2>8, <3>d, <4>1
      <4>4. \A k \in Keys : queries'[k] = IF k = a.key THEN r ELSE queries[k]
        BY <2>4, <2>8, <3>d, <4>1
      <4>5. MultiTypes'
        BY <1>0, <1>1, <2>3, <4>2, <4>3 DEF MultiTypes, MultiTypeOK
      <4>6. NewestSoFar'
        BY <1>0, <3>1, <4>1, <4>4, MultiShape DEF NewestSoFar
      <4>7. r.count + Cardinality(Owing(a.key)') >= Networks
        <5>1. Cardinality(Owing(a.key)) <= Cardinality(Owing(a.key)') + 1 /\ Cardinality(Owing(a.key)') \in Nat
          <6>1. \A c \in Clients \ {turn} : Owes(c, a.key) => Owes(c, a.key)'
            BY <2>4, <2>7
          <6>. QED BY <6>1, OwingButOne
        <5>2. Cardinality(Owing(a.key)) \in Nat /\ queries[a.key].count + Cardinality(Owing(a.key)) >= Networks
          BY <1>0, <2>4, <2>d, OwingIs, OwingIsFinite
        <5>. QED BY <3>1, <3>2, <4>1, <5>1, <5>2
      <4>8. NoneLost'
        <5>1. ASSUME NEW k \in Keys, queries'[k] # NoQuestion
              PROVE  queries'[k].count + Cardinality(Owing(k)') >= Networks
          BY <2>9, <4>4, <4>7, <5>1
        <5>. QED BY <5>1 DEF NoneLost, Owing
      <4>. QED BY <4>2, <4>5, <4>6, <4>8 DEF MultiInv
    <3>. QED BY <2>5, <2>d, <3>c, <3>d DEF Take, q
  <2>. QED BY <2>5, <2>c, <2>d DEF Take
<1>. QED BY <1>a, <1>b DEF Poll

LEMMA MultiInvInit == MultiInit => MultiInv
<1>. SUFFICES ASSUME MultiInit PROVE MultiInv
  OBVIOUS
<1>1. /\ knows = [c \in Clients |-> [k \in Keys |-> IF k \in Places /\ c = 1 THEN 1 ELSE 0]]
      /\ underway = [c \in Clients |-> [k \in Keys |-> 0]]
      /\ inbox = [c \in Clients |-> <<>>] /\ queries = [k \in Keys |-> NoQuestion]
      /\ told = <<>> /\ questions = 0 /\ turn = 1
  BY DEF MultiInit
<1>2. 0 \in Known /\ 1 \in Known /\ 0 \in 0 .. MaxQuestions /\ turn \in Clients
  BY <1>1, MultiAssumption, QuestionShape DEF Known
<1>3. knows \in [Clients -> [Keys -> Known]]
  BY <1>1, <1>2
<1>4. MultiTypes
  BY <1>1, <1>2, <1>3 DEF MultiTypes, MultiTypeOK
<1>5. NewestSoFar /\ NewestWins /\ NoneLost
  BY <1>1 DEF NewestSoFar, NewestWins, NoneLost, Keys
<1>. QED BY <1>4, <1>5 DEF MultiInv

LEMMA MultiInvStep == MultiInv /\ [MultiNext]_multiVars => MultiInv'
<1>. SUFFICES ASSUME MultiInv, [MultiNext]_multiVars PROVE MultiInv'
  OBVIOUS
<1>1. CASE UNCHANGED multiVars
  BY <1>1 DEF multiVars, MultiInv, MultiTypes, MultiTypeOK, NewestSoFar, NewestWins, NoneLost, Owes
<1>. QED BY <1>1, HearInv, ReplyInv, AskForUserInv, AskForPlaceInv, PollInv DEF MultiNext

(* A query to all networks never waits for an answer that nobody will give *)
(* and is answered with what the network that heard the user last knows,   *)
(* however the answers and what is merely heard follow each other          *)
(* (getMessageType, Update).                                               *)
THEOREM QueriesAlwaysSound == MultiSpec => []QueriesSound
<1>1. MultiInv => QueriesSound
  BY DEF MultiInv, QueriesSound
<1>. QED BY MultiInvInit, MultiInvStep, <1>1, PTL DEF MultiSpec

---------------------------------------------------------------------------
(* The connection to one ircDDB network *)

(* Which tables are left, in the states that go through them. *)
TableOf(x) ==
    /\ x = 3 => table \in 0 .. 2
    /\ x = 4 => table \in 0 .. 1
    /\ x = 5 => table = 1

DDBTypes == DDBTypeOK /\ TableOf(app) /\ TableOf(looked)

LEMMA MinOfNats ==
    ASSUME NEW S \in SUBSET Nat, S # {}
    PROVE  Min(S) \in S
<1> DEFINE less == {p \in Nat \X Nat : p[1] < p[2]}
<1>1. IsWellFoundedOn(less, Nat)
  BY NatLessThanWellFounded DEF OpToRel
<1>2. PICK d \in S : \A y \in S : ~ (<<y, d>> \in less)
  <2> HIDE DEF less
  <2>. QED BY <1>1, WFMin
<1>3. ASSUME NEW y \in S PROVE d <= y
  <2>1. <<y, d>> \in Nat \X Nat /\ ~(y < d)
    BY <1>2
  <2>. QED BY <2>1
<1>. QED BY <1>3 DEF Min

(* The user map under the operations of the client. *)
Entry == [op : BOOLEAN, usn : 1 .. 1]

LEMMA UsersShape ==
    ASSUME NEW m
    PROVE  m \in UserMap(Nicks, 1) <=>
              DOMAIN m \subseteq Nicks /\ m = [n \in DOMAIN m |-> m[n]] /\ \A n \in DOMAIN m : m[n] \in Entry
BY UserMapShape DEF Entry

LEMMA JoinedShape ==
    ASSUME NEW m \in UserMap(Nicks, 1), NEW n \in Nicks
    PROVE  /\ UserJoin(m, n, {}) \in UserMap(Nicks, 1) /\ DOMAIN UserJoin(m, n, {}) = DOMAIN m \cup {n}
<1>1. CalculateUsn(m, {}) = 1
  <2>1. 0 = Max({0})
    BY MaxIs
  <2>2. {0} \cup {m[k].usn : k \in {} \cap DOMAIN m} = {0}
    OBVIOUS
  <2>. QED BY <2>1, <2>2 DEF CalculateUsn
<1>2. PICK e \in Entry : e = [op |-> FALSE, usn |-> 1]
  <2>1. 1 \in 1 .. 1
    OBVIOUS
  <2>2. [op |-> FALSE, usn |-> 1] \in Entry
    BY <2>1 DEF Entry
  <2>. QED BY <2>2
<1>3. UserJoin(m, n, {}) = [k \in DOMAIN m \cup {n} |-> IF k = n THEN e ELSE m[k]]
  BY <1>1, <1>2 DEF UserJoin
<1>. QED BY <1>3, UsersShape

LEMMA ChanOpShape ==
    ASSUME NEW m \in UserMap(Nicks, 1), NEW n, NEW op \in BOOLEAN
    PROVE  UserChanOp(m, n, op) \in UserMap(Nicks, 1) /\ DOMAIN UserChanOp(m, n, op) = DOMAIN m
<1>1. CASE n \in DOMAIN m
  <2>1. m[n] \in Entry
    BY <1>1, UsersShape
  <2>2. PICK e \in Entry : e = [m[n] EXCEPT !.op = op]
    BY <2>1 DEF Entry
  <2>3. UserChanOp(m, n, op) = [m EXCEPT ![n] = e]
    BY <1>1, <2>2 DEF UserChanOp
  <2>. QED BY <1>1, <2>3, UsersShape
<1>. QED BY <1>1 DEF UserChanOp

LEMMA LeftShape ==
    ASSUME NEW m \in UserMap(Nicks, 1), NEW n
    PROVE  RemoveUser(m, n) \in UserMap(Nicks, 1)
<1>1. RemoveUser(m, n) = [k \in DOMAIN m \ {n} |-> m[k]]
  BY DEF RemoveUser, Restrict
<1>. QED BY <1>1, UsersShape

LEMMA WhoShape ==
    ASSUME users \in UserMap(Nicks, 1), NEW present \in SUBSET ServerUsers
    PROVE  WhoList(present) \in UserMap(Nicks, 1)
<1> DEFINE listed == present \cup {Me}
           D == DOMAIN users \cup listed
           e(n) == IF n \in listed THEN UserChanOp(UserJoin(users, n, {}), n, n # Me)[n] ELSE users[n]
<1>1. DOMAIN users \subseteq Nicks /\ listed \subseteq Nicks /\ \A n \in DOMAIN users : users[n] \in Entry
  BY UsersShape DEF Nicks
<1>2. ASSUME NEW n \in listed PROVE UserChanOp(UserJoin(users, n, {}), n, n # Me)[n] \in Entry
  <2>1. /\ UserJoin(users, n, {}) \in UserMap(Nicks, 1) /\ n \in DOMAIN UserJoin(users, n, {})
    BY <1>1, JoinedShape
  <2>2. /\ UserChanOp(UserJoin(users, n, {}), n, n # Me) \in UserMap(Nicks, 1)
        /\ DOMAIN UserChanOp(UserJoin(users, n, {}), n, n # Me) = DOMAIN UserJoin(users, n, {})
    <3>1. (n # Me) \in BOOLEAN
      OBVIOUS
    <3>. QED BY <2>1, <3>1, ChanOpShape
  <2>. QED BY <2>1, <2>2, UsersShape
<1>3. \A n \in D : e(n) \in Entry
  BY <1>1, <1>2
<1>4. WhoList(present) = [n \in D |-> e(n)] /\ D \subseteq Nicks
  BY <1>1 DEF WhoList
<1> HIDE DEF D, e
<1>. QED BY <1>3, <1>4, UsersShape

LEMMA ServerShape ==
    ASSUME Operators(users, ServerUsers) # {}
    PROVE  FindServerUser(users, ServerUsers, BestServer) \in ServerUsers
<1>1. Operators(users, ServerUsers) \subseteq ServerUsers /\ ServerUsers \subseteq Nat
  BY DDBAssumption DEF Operators
<1>2. Operators(users, ServerUsers) \in SUBSET Nat
  BY <1>1
<1>3. Min(Operators(users, ServerUsers)) \in Operators(users, ServerUsers)
  BY <1>2, MinOfNats
<1>. QED BY <1>1, <1>3 DEF FindServerUser

(* Messages *)
LEMMA MessagesMade ==
    /\ \A n \in Nicks, cmd \in {"004", "433", "JOIN", "MODE", "PART", "KICK", "LIST_END", "LIST_MORE", "ANSWER"} :
            Msg(cmd, n) \in Received
    /\ \A S \in SUBSET ServerUsers : Msg("352", S) \in Received
    /\ Me \in Nicks /\ ServerUsers \subseteq Nicks
    /\ \A s \in ServerUsers \cup {NoServer}, cmd \in {"SENDLIST", "FIND", "QUIT"} : [cmd |-> cmd, to |-> s] \in Sent
BY DEF Msg, Received, Nicks, Sent

LEMMA ReceivedShape ==
    ASSUME NEW m \in Received
    PROVE  IF m.cmd = "352" THEN m.nick \in SUBSET ServerUsers ELSE m.nick \in Nicks
BY DEF Received

LEMMA QueueShape ==
    ASSUME NEW T, NEW s \in Seq(T)
    PROVE  /\ s # <<>> => Head(s) \in T /\ Tail(s) \in Seq(T)
           /\ \A x \in T : Append(s, x) \in Seq(T)
           /\ \A t \in Seq(T) : s \o t \in Seq(T)
           /\ <<>> \in Seq(T)
           /\ \A x \in T : <<x>> \in Seq(T)
           /\ \A x, y \in T : <<x, y>> \in Seq(T)
OBVIOUS

LEMMA SetIn ==
    ASSUME DDBTypeOK
    PROVE  /\ wire \in Seq(Received) /\ out \in Seq(Sent) /\ users \in UserMap(Nicks, 1)
           /\ <<>> \in Seq(Received) /\ <<>> \in Seq(Sent)
           /\ wire # <<>> => Head(wire) \in Received /\ Tail(wire) \in Seq(Received)
           /\ out # <<>> => Head(out) \in Sent /\ Tail(out) \in Seq(Sent)
           /\ \A m \in Received : Append(wire, m) \in Seq(Received) /\ wire \o <<m>> \in Seq(Received)
           /\ \A m, n \in Received : wire \o <<m, n>> \in Seq(Received)
           /\ wire \o <<>> \in Seq(Received)
           /\ \A m \in Sent : Append(out, m) \in Seq(Sent)
           /\ UserListReset \in UserMap(Nicks, 1)
<1>1. wire \in Seq(Received) /\ out \in Seq(Sent) /\ users \in UserMap(Nicks, 1)
  BY DEF DDBTypeOK
<1>2. UserListReset \in UserMap(Nicks, 1)
  <2>1. DOMAIN UserListReset = {} /\ UserListReset = [n \in DOMAIN UserListReset |-> UserListReset[n]]
    BY DEF UserListReset
  <2>. QED BY <2>1, UsersShape
<1>. QED BY <1>1, <1>2, QueueShape

(* Steps that leave the tables alone. *)
LEMMA AppliKept ==
    ASSUME DDBTypes, UNCHANGED appli
    PROVE  TableOf(app)' /\ TableOf(looked)' /\ app' = app /\ looked' = looked /\ passed' = passed
           /\ server' = server /\ table' = table /\ ready' = ready
BY DEF DDBTypes, appli, TableOf

LEMMA FaultShape ==
    ASSUME DDBTypeOK, Fault
    PROVE  faults' \in 0 .. MaxFaults /\ find' \in {"none", "unsure", "sure"}
BY DDBAssumption DEF DDBTypeOK, Fault

LEMMA NetworkTypes ==
    ASSUME DDBTypes, \/ \E s \in ServerUsers : ServerLeaves(s) \/ ServerComes(s)
                     \/ Disconnect
    PROVE  DDBTypes'
<1>0. DDBTypeOK
  BY DEF DDBTypes
<1>1. ASSUME NEW s \in ServerUsers, ServerLeaves(s) PROVE DDBTypes'
  <2>1. faults' \in 0 .. MaxFaults /\ find' \in {"none", "unsure", "sure"}
    BY <1>0, <1>1, FaultShape DEF ServerLeaves
  <2>2. channel' \subseteq ServerUsers /\ wire' \in Seq(Received)
    <3>1. Append(wire, Msg("PART", s)) \in Seq(Received)
      BY <1>0, SetIn, MessagesMade
    <3>. QED BY <1>0, <1>1, <3>1, SetIn DEF ServerLeaves, DDBTypeOK
  <2>3. UNCHANGED <<link, client, out, appli, races>>
    BY <1>1 DEF ServerLeaves
  <2>. QED BY <1>0, <2>1, <2>2, <2>3, AppliKept DEF DDBTypes, DDBTypeOK, client
<1>2. ASSUME NEW s \in ServerUsers, ServerComes(s) PROVE DDBTypes'
  <2>2. channel' \subseteq ServerUsers /\ wire' \in Seq(Received)
    <3>1. wire \o <<Msg("JOIN", s), Msg("MODE", s)>> \in Seq(Received)
      BY <1>0, SetIn, MessagesMade
    <3>. QED BY <1>0, <1>2, <3>1, SetIn DEF ServerComes, DDBTypeOK
  <2>3. UNCHANGED <<link, client, out, appli, find, faults, races>>
    BY <1>2 DEF ServerComes
  <2>. QED BY <1>0, <2>2, <2>3, AppliKept DEF DDBTypes, DDBTypeOK, client
<1>3. ASSUME Disconnect PROVE DDBTypes'
  <2>1. faults' \in 0 .. MaxFaults /\ find' \in {"none", "unsure", "sure"}
    BY <1>0, <1>3, FaultShape DEF Disconnect
  <2>2. link' \in {"none", "up", "closed", "dead"} /\ wire' \in Seq(Received)
    <3>1. Append(wire, Msg("KICK", Me)) \in Seq(Received)
      BY <1>0, SetIn, MessagesMade
    <3>. QED BY <1>0, <1>3, <3>1, SetIn DEF Disconnect, DDBTypeOK
  <2>3. UNCHANGED <<channel, client, out, appli, races>>
    BY <1>3 DEF Disconnect
  <2>. QED BY <1>0, <2>1, <2>2, <2>3, AppliKept DEF DDBTypes, DDBTypeOK, client
<1>. QED BY <1>1, <1>2, <1>3

LEMMA TeardownTypes ==
    ASSUME DDBTypes, Teardown
    PROVE  /\ link' \in {"none", "up", "closed", "dead"} /\ wire' \in Seq(Received) /\ proto' \in ProtoStates
           /\ users' \in UserMap(Nicks, 1) /\ sendQ' \in BOOLEAN /\ out' \in Seq(Sent) /\ passed' \in BOOLEAN
BY SetIn DEF DDBTypes, Teardown, ProtoStates

LEMMA ConnectTypes ==
    ASSUME DDBTypes, Connect \/ GiveUp
    PROVE  DDBTypes'
<1>0. DDBTypeOK
  BY DEF DDBTypes
<1>1. CASE Connect
  <2>1. /\ link' = "up" /\ proto' = 1 /\ out' = <<>>
        /\ UNCHANGED <<channel, wire, users, sendQ, appli, find, faults, races>>
    BY <1>1 DEF Connect
  <2>. QED BY <1>0, <2>1, SetIn, AppliKept DEF DDBTypes, DDBTypeOK, ProtoStates
<1>2. CASE GiveUp
  <2>1. Teardown /\ UNCHANGED <<channel, app, looked, server, table, ready, find, faults, races>>
    BY <1>2 DEF GiveUp
  <2>. QED BY <1>0, <2>1, TeardownTypes DEF DDBTypes, DDBTypeOK, TableOf
<1>. QED BY <1>1, <1>2

LEMMA StepTypes ==
    ASSUME DDBTypes, Step
    PROVE  DDBTypes'
<1>0. DDBTypeOK
  BY DEF DDBTypes
<1>1. UNCHANGED <<channel, link, users, out, appli, races>>
  BY DEF Step
<1>2. proto' \in ProtoStates /\ sendQ' \in BOOLEAN
  BY <1>0 DEF Step, ProtoStates, DDBTypeOK
<1>3. faults' \in 0 .. MaxFaults /\ find' \in {"none", "unsure", "sure"}
  <2>1. Fault \/ UNCHANGED <<find, faults>>
    BY DEF Step
  <2>2. ASSUME UNCHANGED <<find, faults>>
        PROVE  faults' \in 0 .. MaxFaults /\ find' \in {"none", "unsure", "sure"}
    BY <1>0, <2>2 DEF DDBTypeOK
  <2>. QED BY <1>0, <2>1, <2>2, FaultShape
<1>4. wire' \in Seq(Received)
  <2>1. \/ Send(<<>>) \/ Send(<<Msg("433", Me)>>) \/ Send(<<Msg("004", Me)>>)
        \/ Send(<<Msg("JOIN", Me)>>) \/ Send(<<Msg("352", channel)>>)
    BY DEF Step
  <2>2. /\ wire \o <<>> \in Seq(Received) /\ wire \o <<Msg("433", Me)>> \in Seq(Received)
        /\ wire \o <<Msg("004", Me)>> \in Seq(Received) /\ wire \o <<Msg("JOIN", Me)>> \in Seq(Received)
        /\ wire \o <<Msg("352", channel)>> \in Seq(Received) /\ wire \in Seq(Received)
    <3>1. channel \in SUBSET ServerUsers
      BY <1>0 DEF DDBTypeOK
    <3>2. /\ Msg("433", Me) \in Received /\ Msg("004", Me) \in Received
          /\ Msg("JOIN", Me) \in Received /\ Msg("352", channel) \in Received
      BY <3>1, MessagesMade
    <3>. QED BY <1>0, <3>2, SetIn
  <2>3. ASSUME NEW a, wire \o a \in Seq(Received), Send(a) PROVE wire' \in Seq(Received)
    BY <2>2, <2>3 DEF Send
  <2>. QED BY <2>1, <2>2, <2>3
<1>. QED BY <1>0, <1>1, <1>2, <1>3, <1>4, AppliKept DEF DDBTypes, DDBTypeOK

LEMMA ReceiveTypes ==
    ASSUME DDBTypes, Receive
    PROVE  DDBTypes'
<1>0. DDBTypeOK
  BY DEF DDBTypes
<1>1. wire # <<>> /\ UNCHANGED <<channel, looked, server, table, faults, races>>
  BY DEF Receive
<1>2. PICK m \in Received : m = Head(wire)
  BY <1>0, <1>1, SetIn
<1>3. Tail(wire) \in Seq(Received) /\ users \in UserMap(Nicks, 1) /\ proto \in ProtoStates
  BY <1>0, <1>1, SetIn DEF DDBTypeOK
<1>a. CASE m.cmd = "KICK" /\ Teardown /\ UNCHANGED <<app, ready, find>>
  BY <1>0, <1>1, <1>a, TeardownTypes DEF DDBTypes, DDBTypeOK, TableOf
<1>b. CASE /\ m.cmd # "KICK" /\ wire' = Tail(wire)
           /\ proto' = CASE m.cmd = "004" /\ proto = 4                -> 5
                         [] m.cmd = "433" /\ proto = 2                -> 3
                         [] m = Msg("JOIN", Me) /\ proto = 6          -> 10
                         [] OTHER                                     -> proto
           /\ users' = CASE m.cmd = "JOIN" /\ m.nick # Me -> UserJoin(users, m.nick, {})
                         [] m.cmd = "352"  -> WhoList(m.nick)
                         [] m.cmd = "MODE" -> UserChanOp(users, m.nick, TRUE)
                         [] m.cmd = "PART" -> RemoveUser(users, m.nick)
                         [] OTHER          -> users
           /\ IF m.cmd = "PART" THEN ServerLeft(m.nick) /\ UNCHANGED find
              ELSE IF m.cmd \in {"LIST_END", "LIST_MORE", "ANSWER"} THEN Query(m) /\ UNCHANGED ready
              ELSE UNCHANGED <<app, ready, find>>
           /\ UNCHANGED <<link, out, sendQ, passed>>
  <2>1. proto' \in ProtoStates
    BY <1>3, <1>b DEF ProtoStates
  <2>2. users' \in UserMap(Nicks, 1)
    <3>1. ASSUME m.cmd # "352" PROVE UserJoin(users, m.nick, {}) \in UserMap(Nicks, 1)
      BY <1>2, <1>3, <3>1, JoinedShape, ReceivedShape
    <3>2. ASSUME m.cmd = "352" PROVE WhoList(m.nick) \in UserMap(Nicks, 1)
      BY <1>2, <1>3, <3>2, WhoShape, ReceivedShape
    <3>3. UserChanOp(users, m.nick, TRUE) \in UserMap(Nicks, 1)
      <4>1. \A b \in BOOLEAN : UserChanOp(users, m.nick, b) \in UserMap(Nicks, 1)
        BY <1>3, ChanOpShape
      <4>. QED BY <4>1
    <3>4. RemoveUser(users, m.nick) \in UserMap(Nicks, 1)
      BY <1>3, LeftShape
    <3>5. users' = CASE m.cmd = "JOIN" /\ m.nick # Me -> UserJoin(users, m.nick, {})
                     [] m.cmd = "352"  -> WhoList(m.nick)
                     [] m.cmd = "MODE" -> UserChanOp(users, m.nick, TRUE)
                     [] m.cmd = "PART" -> RemoveUser(users, m.nick)
                     [] OTHER          -> users
      BY <1>b
    <3>. QED BY <1>3, <3>1, <3>2, <3>3, <3>4, <3>5
  <2>3. /\ app' = app \/ app' = 2 \/ (app = 5 /\ app' \in {3, 4})
        /\ ready' \in BOOLEAN /\ find' \in {"none", "unsure", "sure"}
    BY <1>0, <1>b DEF ServerLeft, Query, DDBTypeOK
  <2>4. app' \in AppStates /\ TableOf(app)' /\ TableOf(looked)'
    BY <1>1, <2>3 DEF DDBTypes, DDBTypeOK, TableOf, AppStates
  <2>. QED BY <1>0, <1>1, <1>3, <1>b, <2>1, <2>2, <2>3, <2>4 DEF DDBTypes, DDBTypeOK
<1>. QED BY <1>2, <1>a, <1>b DEF Receive

LEMMA TransmitTypes ==
    ASSUME DDBTypes, Transmit
    PROVE  DDBTypes'
<1>0. DDBTypeOK
  BY DEF DDBTypes
<1>1. out # <<>> /\ out' = Tail(out) /\ UNCHANGED <<channel, client, appli, races>>
  BY DEF Transmit
<1>2. PICK m \in Sent : m = Head(out)
  BY <1>0, <1>1, SetIn
<1>3. out' \in Seq(Sent)
  BY <1>0, <1>1, SetIn
<1>4. m.to \in channel => /\ Append(wire, Msg("LIST_END", m.to)) \in Seq(Received)
                          /\ Append(wire, Msg("LIST_MORE", m.to)) \in Seq(Received)
                          /\ Append(wire, Msg("ANSWER", m.to)) \in Seq(Received)
  <2>1. channel \subseteq Nicks
    BY <1>0, MessagesMade DEF DDBTypeOK
  <2>. QED BY <1>0, <2>1, MessagesMade, SetIn
<1>5. \/ Fault \/ UNCHANGED <<find, faults>>
  BY DEF Transmit
<1>6. faults' \in 0 .. MaxFaults /\ find' \in {"none", "unsure", "sure"}
  <2>1. ASSUME UNCHANGED <<find, faults>>
        PROVE  faults' \in 0 .. MaxFaults /\ find' \in {"none", "unsure", "sure"}
    BY <1>0, <2>1 DEF DDBTypeOK
  <2>. QED BY <1>0, <1>5, <2>1, FaultShape
<1>7. link' \in {"none", "up", "closed", "dead"}
  BY <1>0 DEF Transmit, DDBTypeOK
<1>8. wire' \in Seq(Received)
  <2>1. \/ wire' = wire
        \/ m.to \in channel /\ wire' = Append(wire, Msg("LIST_END", m.to))
        \/ m.to \in channel /\ wire' = Append(wire, Msg("LIST_MORE", m.to))
        \/ m.to \in channel /\ wire' = Append(wire, Msg("ANSWER", m.to))
    BY <1>2 DEF Transmit
  <2>. QED BY <1>0, <1>4, <2>1 DEF DDBTypeOK
<1>. QED BY <1>0, <1>1, <1>3, <1>6, <1>7, <1>8, AppliKept DEF DDBTypes, DDBTypeOK, client

LEMMA AppTypes ==
    ASSUME DDBTypes, AppStep
    PROVE  DDBTypes'
<1>0. DDBTypeOK
  BY DEF DDBTypes
<1>1. CASE Look
  <2>1. looked' = app /\ UNCHANGED <<network, client, out, app, passed, server, table, ready, find, faults, races>>
    BY <1>1 DEF Look
  <2>. QED BY <1>0, <2>1 DEF DDBTypes, DDBTypeOK, network, client, TableOf
<1>2. CASE Pass
  <2>1. /\ looked' = NotIn /\ passed' \in BOOLEAN /\ UNCHANGED <<network, client, find, faults, races>>
    BY <1>0, <1>2 DEF Pass, DDBTypeOK
  <2>2. TableOf(AtStart) /\ TableOf(app) /\ table \in -1 .. 2 /\ app \in AppStates
    BY <1>0 DEF DDBTypes, DDBTypeOK, AtStart
  <2>3. /\ table' \in -1 .. 2 /\ app' \in AppStates /\ TableOf(app)'
        /\ ready' \in BOOLEAN
    <3>1. \/ app' \in {0, 1, 2, 6, 7, 10} /\ table' = table
          \/ app' = app /\ table' = table
          \/ app' = 3 /\ table' = 2
          \/ AtStart = 3 /\ table' = table - 1 /\ app' = AfterTable(table)
          \/ AtStart = 4 /\ table' = table /\ app' = IF table = 1 THEN 5 ELSE 3
      BY <1>2 DEF Pass
    <3>2. ready' \in BOOLEAN
      BY <1>0, <1>2 DEF Pass, DDBTypeOK
    <3>3. table' \in -1 .. 2 /\ app' \in AppStates /\ TableOf(app)'
      BY <2>2, <3>1 DEF TableOf, AppStates, AfterTable
    <3>. QED BY <3>2, <3>3
  <2>4. server' \in ServerUsers \cup {NoServer}
    BY <1>0, <1>2, ServerShape DEF Pass, DDBTypeOK
  <2>5. out' \in Seq(Sent)
    <3>1. \/ out' = out
          \/ Put([cmd |-> "QUIT", to |-> NoServer])
          \/ Put([cmd |-> "SENDLIST", to |-> server])
      BY <1>2 DEF Pass
    <3>2. /\ Append(out, [cmd |-> "QUIT", to |-> NoServer]) \in Seq(Sent)
          /\ Append(out, [cmd |-> "SENDLIST", to |-> server]) \in Seq(Sent)
      <4>1. server \in ServerUsers \cup {NoServer}
        BY <1>0 DEF DDBTypeOK
      <4>2. /\ [cmd |-> "QUIT", to |-> NoServer] \in Sent
            /\ [cmd |-> "SENDLIST", to |-> server] \in Sent
        BY <4>1, MessagesMade
      <4>. QED BY <1>0, <4>2, SetIn
    <3>. QED BY <1>0, <3>1, <3>2 DEF Put, DDBTypeOK
  <2>6. TableOf(looked)'
    BY <2>1 DEF TableOf, NotIn
  <2>. QED BY <1>0, <2>1, <2>3, <2>4, <2>5, <2>6 DEF DDBTypes, DDBTypeOK, network, client
<1>. QED BY <1>1, <1>2 DEF AppStep

LEMMA AskerTypes ==
    ASSUME DDBTypes, FindUser \/ StopWaiting
    PROVE  DDBTypes'
<1>0. DDBTypeOK
  BY DEF DDBTypes
<1>1. CASE FindUser
  <2>1. UNCHANGED <<network, client, appli, faults, races>>
    BY <1>1 DEF FindUser
  <2>2. Append(out, [cmd |-> "FIND", to |-> server]) \in Seq(Sent)
    <3>1. server \in ServerUsers \cup {NoServer}
      BY <1>0 DEF DDBTypeOK
    <3>2. [cmd |-> "FIND", to |-> server] \in Sent
      BY <3>1, MessagesMade
    <3>. QED BY <1>0, <3>2, SetIn
  <2>3. out' \in Seq(Sent) /\ find' \in {"none", "unsure", "sure"}
    BY <1>0, <1>1, <2>2 DEF FindUser, DDBTypeOK
  <2>. QED BY <1>0, <2>1, <2>3, AppliKept DEF DDBTypes, DDBTypeOK, network, client
<1>2. CASE StopWaiting
  <2>1. find' = "none" /\ UNCHANGED <<network, client, out, appli, faults, races>>
    BY <1>2 DEF StopWaiting
  <2>. QED BY <1>0, <2>1, AppliKept DEF DDBTypes, DDBTypeOK, network, client
<1>. QED BY <1>1, <1>2

LEMMA DDBTypesInit == DDBInit => DDBTypes
<1>. SUFFICES ASSUME DDBInit PROVE DDBTypes
  OBVIOUS
<1>1. UserListReset \in UserMap(Nicks, 1)
  <2>1. DOMAIN UserListReset = {} /\ UserListReset = [n \in DOMAIN UserListReset |-> UserListReset[n]]
    BY DEF UserListReset
  <2>. QED BY <2>1, UsersShape
<1>2. 0 \in 0 .. MaxFaults
  BY DDBAssumption
<1>3. channel \subseteq ServerUsers /\ link = "none" /\ server \in ServerUsers \cup {NoServer}
  BY DEF DDBInit
<1>4. wire \in Seq(Received) /\ out \in Seq(Sent)
  BY DEF DDBInit
<1>5. proto = 0 /\ app = 0 /\ looked = -1 /\ table = 0 /\ faults = 0
  BY DEF DDBInit, NotIn
<1>6. proto \in ProtoStates /\ app \in AppStates /\ looked \in AppStates \cup {NotIn} /\ table \in -1 .. 2
  BY <1>5 DEF ProtoStates, AppStates, NotIn
<1>7. sendQ \in BOOLEAN /\ passed \in BOOLEAN /\ ready \in BOOLEAN /\ races \in BOOLEAN /\ find = "none"
  BY DEF DDBInit
<1>8. users \in UserMap(Nicks, 1)
  BY <1>1 DEF DDBInit
<1>9. DDBTypeOK
  BY <1>2, <1>3, <1>4, <1>5, <1>6, <1>7, <1>8 DEF DDBTypeOK
<1>10. TableOf(app) /\ TableOf(looked)
  BY <1>5 DEF TableOf
<1>. QED BY <1>9, <1>10 DEF DDBTypes

LEMMA DDBTypesStep == DDBTypes /\ [DDBNext]_ddbVars => DDBTypes'
<1>. SUFFICES ASSUME DDBTypes, [DDBNext]_ddbVars PROVE DDBTypes'
  OBVIOUS
<1>1. CASE UNCHANGED ddbVars
  BY <1>1 DEF DDBTypes, DDBTypeOK, TableOf, ddbVars, network, client, appli
<1>. QED BY <1>1, NetworkTypes, ConnectTypes, StepTypes, ReceiveTypes, TransmitTypes, AppTypes, AskerTypes
     DEF DDBNext, ClientStep

---------------------------------------------------------------------------
(* The parts together *)

CachesInv == CacheTypes /\ LocalInv /\ FilesInv

LEMMA CachesInvStep == CachesInv /\ [CacheNext]_cacheVars => CachesInv'
BY CacheTypesNext, LocalNext, FilesNext DEF CachesInv

DirInv == DDBTypes /\ MultiInv /\ NamesInv /\ CachesInv /\ SafeInv /\ AloneInv

LEMMA DirInvInit == DirInit => DirInv
<1>1. DirInit => DDBInit /\ MultiInit /\ NamesInit /\ CacheInit /\ RemoteInit
  BY DEF DirInit, DDBIdle, CacheIdle, RemoteIdle
<1>2. CacheInit => CachesInv
  BY CacheTypesInit, LocalInitially, FilesInitially DEF CachesInv
<1>. QED BY <1>1, <1>2, DDBTypesInit, MultiInvInit, NamesInvInit, RemoteInvInit DEF DirInv

LEMMA DirInvStep == DirInv /\ [DirNext /\ UNCHANGED part]_<<part, dirVars>> => DirInv'
<1>. SUFFICES ASSUME DirInv, [DirNext /\ UNCHANGED part]_<<part, dirVars>> PROVE DirInv'
  OBVIOUS
<1>1. /\ [DDBNext]_ddbVars /\ [MultiNext]_multiVars /\ [NamesNext]_namesVars
      /\ [CacheNext]_cacheVars /\ [RemoteNext]_remoteVars
  BY DEF DirNext, dirVars
<1>. QED BY <1>1, DDBTypesStep, MultiInvStep, NamesNextInv, CachesInvStep, RemoteInvStep DEF DirInv

(* Whichever part moves, the queues, tables, counters and states of all    *)
(* stay within their ranges, and each keeps what it promises: the newest   *)
(* answer of all networks, the latest copy of a gateway, the records the   *)
(* host files decide, and the login of the programs that are trusted.      *)
THEOREM DirectoryHolds ==
    DirSpec => [](DirTypeOK /\ QueriesSound /\ LatestAddress /\ CachesRight /\ LoginSound)
<1>1. DirInv => DirTypeOK
  BY DEF DirInv, DDBTypes, MultiInv, MultiTypes, NamesInv, CachesInv, CacheTypes, SafeInv, RemoteTypes, DirTypeOK
<1>2. DirInv => QueriesSound /\ LatestAddress /\ CachesRight /\ LoginSound
  BY LatestHasLast, LocalIsRight, FilesAreRight, LoginIsRight DEF DirInv, MultiInv, CachesInv, QueriesSound, CachesRight
<1>. QED BY DirInvInit, DirInvStep, <1>1, <1>2, PTL DEF DirSpec
====
