----------------------------- MODULE IrcNames -----------------------------
(***************************************************************************)
(* The users of one gateway on ircDDB: copies of it that come and go under *)
(* its names -1 to -4, one after a crash of the other, say.  Streams go to *)
(* the address of the copy that came last.                                 *)
(***************************************************************************)
EXTENDS IrcUsers

CONSTANTS Copies,       \* the names "xxx-1" to "xxx-4" of a gateway
          MaxJoins      \* bound on JOINs since the map was last empty

ASSUME NamesAssumption == IsFiniteSet(Copies) /\ MaxJoins \in Nat

VARIABLES userMap,      \* m_userMap, the part of one gateway
          earlier       \* history: those present that came before each of them

namesVars == <<userMap, earlier>>

NamesInit == userMap = UserListReset /\ earlier = [n \in {} |-> {}]

\* userJoin, for a JOIN or a line of the WHO list
NameJoins(n) ==
    /\ CalculateUsn(userMap, Copies) <= MaxJoins
    /\ userMap' = UserJoin(userMap, n, Copies)
    /\ earlier' = [k \in DOMAIN userMap \cup {n} |->
                     (IF k = n THEN DOMAIN userMap ELSE earlier[k]) \ {n}]

\* userLeave, for a PART, a KICK or a QUIT
NameLeaves(n) ==
    /\ n \in DOMAIN userMap
    /\ userMap' = RemoveUser(userMap, n)
    /\ earlier' = [k \in DOMAIN userMap \ {n} |-> earlier[k] \ {n}]

NamesReset == userMap' = UserListReset /\ earlier' = [n \in {} |-> {}]

NamesNext == NamesReset \/ \E n \in Copies : NameJoins(n) \/ NameLeaves(n)

NamesSpec == NamesInit /\ [][NamesNext]_namesVars

---------------------------------------------------------------------------
NamesTypeOK ==
    /\ userMap \in UserMap(Copies, MaxJoins)
    /\ DOMAIN earlier = DOMAIN userMap
    /\ \A n \in DOMAIN userMap : earlier[n] \subseteq DOMAIN userMap

(* However the copies of a gateway come and go, getIPAddressFromCall       *)
(* returns the address of the one that came last of those still there.     *)
LatestAddress ==
    LET n == AddressFromCall(userMap, Copies)
    IN  DOMAIN userMap # {} => n \in DOMAIN userMap /\ earlier[n] = DOMAIN userMap \ {n}
=============================================================================
