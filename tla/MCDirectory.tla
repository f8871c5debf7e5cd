---------------------------- MODULE MCDirectory ----------------------------
(***************************************************************************)
(* How a gateway knows where to send, and who may tell it what to do: the  *)
(* connection to one ircDDB network (IrcDDB), the networks together        *)
(* (IrcMultiClient), the copies of a gateway on one of them (IrcNames),    *)
(* the caches they fill (Caches) and remote control (RemoteControl).  None *)
(* has a variable of another, so a behaviour moves one of them while the   *)
(* others stand in an initial state.                                       *)
(***************************************************************************)
EXTENDS IrcDDB, IrcMultiClient, IrcNames, Caches, RemoteControl, TLC

MCStandard == ("l1" :> "own") @@ ("l2" :> "g") @@ ("r" :> "x")

VARIABLE part      \* the one that moves

dirVars == <<ddbVars, multiVars, namesVars, cacheVars, remoteVars>>

DDBIdle    == DDBInit /\ races
CacheIdle  == CacheInit /\ hosts = [f \in Files |-> [g \in Reflectors |-> None]]
RemoteIdle == RemoteInit /\ trusted = Programs /\ sensible = Programs /\ alone

DirInit ==
    \/ part = "ddb"    /\ DDBInit /\ MultiInit /\ NamesInit /\ CacheIdle /\ RemoteIdle
    \/ part = "multi"  /\ DDBIdle /\ MultiInit /\ NamesInit /\ CacheIdle /\ RemoteIdle
    \/ part = "names"  /\ DDBIdle /\ MultiInit /\ NamesInit /\ CacheIdle /\ RemoteIdle
    \/ part = "caches" /\ DDBIdle /\ MultiInit /\ NamesInit /\ CacheInit /\ RemoteIdle
    \/ part = "remote" /\ DDBIdle /\ MultiInit /\ NamesInit /\ CacheIdle /\ RemoteInit

DirNext ==
    \/ part = "ddb"    /\ DDBNext    /\ UNCHANGED <<multiVars, namesVars, cacheVars, remoteVars>>
    \/ part = "multi"  /\ MultiNext  /\ UNCHANGED <<ddbVars, namesVars, cacheVars, remoteVars>>
    \/ part = "names"  /\ NamesNext  /\ UNCHANGED <<ddbVars, multiVars, cacheVars, remoteVars>>
    \/ part = "caches" /\ CacheNext  /\ UNCHANGED <<ddbVars, multiVars, namesVars, remoteVars>>
    \/ part = "remote" /\ RemoteNext /\ UNCHANGED <<ddbVars, multiVars, namesVars, cacheVars>>

(* The fairness of the part that moves: each action of DDBFairness and     *)
(* MultiFairness, enabled while its part is the one that moves.            *)
Ddb(A)   == part = "ddb" /\ A
Multi(A) == part = "multi" /\ A

DirFairness ==
    /\ WF_ddbVars(Ddb(channel = {} /\ \E s \in ServerUsers : ServerComes(s)))
    /\ WF_ddbVars(Ddb(Receive)) /\ WF_ddbVars(Ddb(Transmit))
    /\ WF_ddbVars(Ddb(Connect)) /\ WF_ddbVars(Ddb(Step)) /\ WF_ddbVars(Ddb(GiveUp))
    /\ WF_ddbVars(Ddb(Look)) /\ WF_ddbVars(Ddb(Pass))
    /\ WF_multiVars(Multi(Poll))
    /\ \A c \in Clients, u \in Users : WF_multiVars(Multi(Reply(c, u)))

DirSpec == DirInit /\ [][DirNext /\ UNCHANGED part]_<<part, dirVars>> /\ DirFairness

(* However often the connection or a server is lost, IRCDDBApp gets ready  *)
(* again, with a server that is there unless the threads have raced        *)
(* (ReadyAgain and ServedByOneOfThem of IrcDDB).                           *)
ServedAgain == part = "ddb" => ReadyAgain /\ ServedByOneOfThem

(* A query to all networks is answered with the newest of their answers,   *)
(* and has as many to come as it waits for (IrcMultiClient).               *)
QueriesSound == NewestWins /\ NoneLost

(* Queues, tables, counters and states within their ranges. *)
DirTypeOK == DDBTypeOK /\ MultiTypeOK /\ NamesTypeOK /\ CachesTypeOK /\ RemoteTypeOK
=============================================================================
