----------------------------- MODULE IrcUsers -----------------------------
(***************************************************************************)
(* The users of the ircDDB channel (m_userMap of IRCDDBApp): who is in it, *)
(* who is an operator, and in which order the up to four users of one      *)
(* gateway came (m_usn).  A server is a user whose name begins with "s-".  *)
(* The operators take the map, the modules that keep one apply them.       *)
(***************************************************************************)
EXTENDS Naturals, FiniteSets, FiniteSetsExt, Functions

\* A user map is a function from the nicks in the channel to their entries.
UserMap(nicks, maxUsn) ==
    UNION {[S -> [op : BOOLEAN, usn : 1 .. maxUsn]] : S \in SUBSET nicks}

\* Variant: the newest user gets the number of the one before.
SameUsn(users, same) == Max({1} \cup {users[n].usn : n \in same \cap DOMAIN users})

(* calculateUsn, for a gateway whose users are same *)
CalculateUsn(users, same) == Max({0} \cup {users[n].usn : n \in same \cap DOMAIN users}) + 1

(* userJoin: the entry is new, also if there was one. *)
UserJoin(users, nick, same) ==
    [n \in DOMAIN users \cup {nick} |->
        IF n = nick THEN [op |-> FALSE, usn |-> CalculateUsn(users, same)] ELSE users[n]]

\* Variant: who leaves stays in the map.
KeepUser(users, nick) == users

\* userLeave, as far as the map goes
RemoveUser(users, nick) == Restrict(users, DOMAIN users \ {nick})

UserChanOp(users, nick, op) == IF nick \in DOMAIN users THEN [users EXCEPT ![nick].op = op] ELSE users

UserListReset == [n \in {} |-> [op |-> FALSE, usn |-> 1]]

(* The user of a gateway whose address getIPAddressFromCall returns *)
AddressFromCall(users, same) ==
    CHOOSE n \in same \cap DOMAIN users : \A k \in same \cap DOMAIN users : users[k].usn <= users[n].usn

Operators(users, servers) == {s \in servers \cap DOMAIN users : users[s].op}

(* findServerUser: the server the IRC server named, or the first one.      *)
FindServerUser(users, servers, best) ==
    IF best \in Operators(users, servers) THEN best ELSE Min(Operators(users, servers))
=============================================================================
