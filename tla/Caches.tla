------------------------------- MODULE Caches -------------------------------
(***************************************************************************)
(* CCacheManager: where users, repeaters and gateways are.  Four threads   *)
(* write it, each entry under the cache's lock: the gateway thread with    *)
(* the answers of ircDDB, the one that reads the hosts files again when    *)
(* their timer expires (the gateway thread waits for it in the destructor  *)
(* of its future), another one when a signal asks for it, which nobody     *)
(* waits for but the main thread, and the D-Plus authenticator.  A hosts   *)
(* file is read as the entries of the protocols that are enabled.          *)
(***************************************************************************)
EXTENDS Integers

CONSTANTS Own,         \* the callsign of this gateway
          Reflectors,  \* gateways that hosts files may list
          Elsewhere,   \* gateways they do not list
          Nameless,    \* the one key the authenticator writes, which no file can list
          Locals,      \* repeaters of this gateway
          Repeaters,   \* those and others
          Standard,    \* [Repeaters -> Gateways], the callsign with a G for its band
          Callsigns,
          LastStamp,   \* bound on the time stamps of users
          None

Gateways == {Own, Nameless} \cup Reflectors \cup Elsewhere

ASSUME CachesAssumption ==
    /\ Locals \subseteq Repeaters /\ LastStamp \in Nat
    /\ Standard \in [Repeaters -> Gateways \ {Nameless}]
    /\ Nameless \notin Reflectors \cup {Own}

\* An address is known by who gave it.
Files   == {"internet", "custom"}
Types   == {"DExtra", "DPlus", "DCS"}
Entries == [type : Types, locked : BOOLEAN] \cup {None}
Loaders == {"gateway", "signal"}

\* What the caches hold
GatewayRecords ==
    [address : Files \cup {"127.0.0.1", "ircDDB", "D-Plus"}, addrLock : BOOLEAN,
     protocol : Types \cup {"loopback"}, protoLock : BOOLEAN]
Hearings == [repeater : Repeaters, stamp : 1..LastStamp]

ASSUME NoneAssumption ==
    None \notin Gateways \cup GatewayRecords \cup Hearings \cup [type : Types, locked : BOOLEAN]

VARIABLES
    hosts,      \* the two files, which stay as they are
    gateways,   \* m_gatewayCache
    repeaters,  \* m_repeaterCache, the pairs that are not standard
    heardAt,    \* m_userCache
    stage,      \* where each loader is
    left        \* the names of that file it has not written yet

cacheVars == <<hosts, gateways, repeaters, heardAt, stage, left>>

(* CGatewayRecord::setData; its constructor is the same with nothing locked*)
Record(r, address, protocol, addrLock, protoLock) ==
    [address   |-> IF r.addrLock THEN r.address ELSE address,
     addrLock  |-> r.addrLock \/ addrLock,
     protocol  |-> IF r.protoLock THEN r.protocol ELSE protocol,
     protoLock |-> r.protoLock \/ protoLock]

NewRecord == [address |-> None, addrLock |-> FALSE, protocol |-> None, protoLock |-> FALSE]

UpdateGateway(g, address, protocol, addrLock, protoLock) ==
    gateways' = [gateways EXCEPT ![g] =
                     Record(IF @ = None THEN NewRecord ELSE @, address, protocol, addrLock, protoLock)]

(* "Only store non-standard repeater-gateway pairs"; nothing removes one.  *)
UpdatePair(r, g) ==
    repeaters' = IF Standard[r] # g THEN [repeaters EXCEPT ![r] = g] ELSE repeaters

---------------------------------------------------------------------------
\* Variant: the custom file is read first.
FirstFileCustom == "custom"

(* UpdateHosts: the file from the internet, then the custom one            *)
FirstFile == "internet"

(* addRepeater for the repeaters of the gateway comes before its thread,   *)
(* which begins by reading the files.                                      *)
CacheInit ==
    /\ hosts \in [Files -> [Reflectors -> Entries]]
    /\ gateways = [g \in Gateways |->
           IF g = Own THEN Record(NewRecord, "127.0.0.1", "loopback", TRUE, TRUE) ELSE None]
    /\ repeaters = [r \in Repeaters |-> IF r \in Locals /\ Standard[r] # Own THEN Own ELSE None]
    /\ heardAt = [u \in Callsigns |-> None]
    /\ stage = [l \in Loaders |-> IF l = "gateway" THEN FirstFile ELSE "done"]
    /\ left  = [l \in Loaders |-> IF l = "gateway" THEN Reflectors ELSE {}]

(* UpdateHostsAsync, when the timer expires or the signal comes            *)
Reload(l) ==
    /\ stage[l] = "done"
    /\ stage' = [stage EXCEPT ![l] = FirstFile]
    /\ left' = [left EXCEPT ![l] = Reflectors]
    /\ UNCHANGED <<hosts, gateways, repeaters, heardAt>>

(* loadReflectors, one entry                                               *)
Load(l) ==
    \E g \in left[l] :
        LET e == hosts[stage[l]][g]
        IN  /\ left' = [left EXCEPT ![l] = @ \ {g}]
            /\ IF e = None THEN UNCHANGED gateways
               ELSE UpdateGateway(g, stage[l], e.type, e.locked, TRUE)
            /\ UNCHANGED <<hosts, repeaters, heardAt, stage>>

EndOfFile(l) ==
    /\ stage[l] # "done" /\ left[l] = {}
    /\ stage' = [stage EXCEPT ![l] =
           IF @ = FirstFile THEN (CHOOSE f \in Files : f # FirstFile) ELSE "done"]
    /\ left' = [left EXCEPT ![l] = IF stage[l] = FirstFile THEN Reflectors ELSE {}]
    /\ UNCHANGED <<hosts, gateways, repeaters, heardAt>>

---------------------------------------------------------------------------
\* ircDDB may name any gateway for a repeater, for one of ours too: an entry
\* that is out of date, or a gateway that took the name.
Said == Repeaters \X (Gateways \ {Nameless})

(* CDStarGatewayThread::processIrcDDB with m_logIRCDDB set; without it     *)
(* the caches learn nothing.                                               *)
Learns ==
    /\ stage["gateway"] = "done"
    /\ \/ \E p \in Said, u \in Callsigns, stamp \in 1..LastStamp :
              /\ heardAt' = IF heardAt[u] = None \/ heardAt[u].stamp < stamp
                            THEN [heardAt EXCEPT ![u] = [repeater |-> p[1], stamp |-> stamp]]
                            ELSE heardAt
              /\ UpdatePair(p[1], p[2])
              /\ UpdateGateway(p[2], "ircDDB", "DExtra", FALSE, FALSE)
       \/ \E p \in Said :
              /\ UpdatePair(p[1], p[2]) /\ UpdateGateway(p[2], "ircDDB", "DExtra", FALSE, FALSE)
              /\ UNCHANGED heardAt
       \/ \E g \in Gateways \ {Nameless} :
              UpdateGateway(g, "ircDDB", "DExtra", FALSE, FALSE) /\ UNCHANGED <<repeaters, heardAt>>
    /\ UNCHANGED <<hosts, stage, left>>

(* CDPlusAuthenticator::authenticate, once it is started after the first   *)
(* reading; its substr leaves nothing of any name.                         *)
Authenticated ==
    /\ UpdateGateway(Nameless, "D-Plus", "DPlus", FALSE, TRUE)
    /\ UNCHANGED <<hosts, repeaters, heardAt, stage, left>>

CacheNext ==
    \/ \E l \in Loaders : Reload(l) \/ Load(l) \/ EndOfFile(l)
    \/ Learns
    \/ Authenticated

CacheSpec == CacheInit /\ [][CacheNext]_cacheVars

---------------------------------------------------------------------------
GatewayOf(r) == IF repeaters[r] = None THEN Standard[r] ELSE repeaters[r]
Found(g) == IF gateways[g] = None THEN None
            ELSE [gateway |-> g, address |-> gateways[g].address, protocol |-> gateways[g].protocol]

(* findRepeater and findUser, between two writes                           *)
CachedRepeater(r) == Found(GatewayOf(r))
CachedUser(u) == IF heardAt[u] = None THEN None ELSE Found(GatewayOf(heardAt[u].repeater))

CachesTypeOK ==
    /\ gateways \in [Gateways -> GatewayRecords \cup {None}]
    /\ repeaters \in [Repeaters -> Gateways \cup {None}]
    /\ heardAt \in [Callsigns -> Hearings \cup {None}]
    /\ stage \in [Loaders -> Files \cup {"done"}] /\ left \in [Loaders -> SUBSET Reflectors]

(* What is found at this gateway is reached by loopback, whatever ircDDB,  *)
(* the files and their readers write: they may all name our gateway.  A    *)
(* repeater of ours is found here until ircDDB names another gateway for   *)
(* it, and not even then if that is the one of its standard name: such a   *)
(* pair is not stored, and does not remove the one that is.                *)
OwnStaysHere ==
    LET here == [gateway |-> Own, address |-> "127.0.0.1", protocol |-> "loopback"]
    IN  /\ \A r \in Repeaters : GatewayOf(r) = Own => CachedRepeater(r) = here
        /\ \A u \in Callsigns : heardAt[u] # None /\ GatewayOf(heardAt[u].repeater) = Own
                                    => CachedUser(u) = here
        /\ \A r \in Locals : GatewayOf(r) = Own \/ repeaters[r] \notin {None, Standard[r]}

Reloading == \E l \in Loaders : stage[l] # "done"
Lists(f, g) == hosts[f][g] # None

(* A custom file overrides the one from the internet however two readings  *)
(* and answers interleave, unless that one locks its entry; where it locks *)
(* its own the address is its for good.                                    *)
CustomOverrides ==
    \A g \in Reflectors \ {Own} :
        Lists("custom", g) /\ ~(Lists("internet", g) /\ hosts["internet"][g].locked) =>
            /\ ~Reloading => gateways[g].address # "internet"
            /\ ~Reloading /\ hosts["custom"][g].locked => gateways[g].address = "custom"

(* What a file says of the protocol of a gateway decides how it is linked, *)
(* not the guess that comes with an answer of ircDDB.                      *)
FilesDecide ==
    ~Reloading => \A g \in Reflectors \ {Own}, f \in Files :
        Lists(f, g) /\ (f = "internet" \/ ~Lists("internet", g))
            => gateways[g].protocol = hosts[f][g].type

CachesRight == OwnStaysHere /\ CustomOverrides /\ FilesDecide
=============================================================================
