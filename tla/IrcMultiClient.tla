-------------------------- MODULE IrcMultiClient --------------------------
(***************************************************************************)
(* One question put to every ircDDB network (CIRCDDBMultiClient).  A query *)
(* waits until as many answers have come as there are networks; the answer *)
(* the gateway gets is what CIRCDDBMultiClientQuery::Update made of them.  *)
(* A network answers about a repeater at once, out of its own tables, and  *)
(* about a user when its server does; it also passes on what it hears      *)
(* about users nobody asked for.                                           *)
(***************************************************************************)
EXTENDS Naturals, Sequences, FiniteSets, FiniteSetsExt

CONSTANTS
    Networks,      \* how many: m_clients.size()
    Users, Places, \* keys of m_userQueries and of m_repeaterQueries
    MaxStamp,      \* bound on the time stamps of users
    MaxQuestions,  \* bound on the questions asked
    MaxInbox       \* bound on the answers that wait when a user is heard

ASSUME MultiAssumption ==
    /\ Networks \in Nat \ {0} /\ MaxStamp \in Nat \ {0} /\ MaxQuestions \in Nat /\ MaxInbox \in Nat
    /\ IsFiniteSet(Users) /\ IsFiniteSet(Places) /\ Users \cap Places = {}

Clients == 1 .. Networks
Keys    == Users \cup Places

(* A user is known by the time he was last heard, 0 for not at all; of a   *)
(* repeater all that matters is whether (1) or not (0) it is known.        *)
Known  == 0 .. MaxStamp
Answer == [key : Keys, known : Known]

(* CIRCDDBMultiClientQuery, and as history which known values it was given *)
Question == [known : Known, count : 0 .. Networks - 1, given : SUBSET Known]

VARIABLES
    knows,       \* what each network knows of each key
    underway,    \* questions about users that a server has yet to answer
    inbox,       \* the reply queue of each network
    queries,     \* m_userQueries and m_repeaterQueries
    told,        \* the answers processIrcDDB last gave the gateway
    questions,   \* how many have been asked
    turn         \* whose queue getMessageType looks into next

multiVars == <<knows, underway, inbox, queries, told, questions, turn>>

NoQuestion == [known |-> 0, count |-> Networks, given |-> {}]

\* Whether an answer of a network about a key is still to be counted.
Owes(c, k) == underway[c][k] > 0 \/ \E i \in DOMAIN inbox[c] : inbox[c][i].key = k

MultiTypeOK ==
    /\ knows \in [Clients -> [Keys -> Known]]
    /\ underway \in [Clients -> [Keys -> 0 .. MaxQuestions]]
    /\ \A c \in Clients : inbox[c] \in Seq(Answer)
    /\ queries \in [Keys -> Question \cup {NoQuestion}]
    /\ told \in Seq([key : Keys, known : Known, given : SUBSET Known])
    /\ questions \in 0 .. MaxQuestions /\ turn \in Clients

MultiInit ==
    /\ knows = [c \in Clients |-> [k \in Keys |-> IF k \in Places /\ c = 1 THEN 1 ELSE 0]]
    /\ underway = [c \in Clients |-> [k \in Keys |-> 0]]
    /\ inbox = [c \in Clients |-> <<>>]
    /\ queries = [k \in Keys |-> NoQuestion]
    /\ told = <<>> /\ questions = 0 /\ turn = 1

Says(c, k) == [key |-> k, known |-> knows[c][k]]

---------------------------------------------------------------------------
(* The networks *)

(* A user is heard: the server tells every network that listens to it. *)
Hear(c, u, stamp) ==
    /\ u \in Users /\ stamp > knows[c][u] /\ Len(inbox[c]) < MaxInbox
    /\ knows' = [knows EXCEPT ![c][u] = stamp]
    /\ inbox' = [inbox EXCEPT ![c] = Append(@, [key |-> u, known |-> stamp])]
    /\ UNCHANGED <<underway, queries, told, questions, turn>>

(* The server's answer to a FIND, an UPDATE or a NOT_FOUND *)
Reply(c, u) ==
    /\ underway[c][u] > 0
    /\ underway' = [underway EXCEPT ![c][u] = @ - 1]
    /\ inbox' = [inbox EXCEPT ![c] = Append(@, Says(c, u))]
    /\ UNCHANGED <<knows, queries, told, questions, turn>>

---------------------------------------------------------------------------
(* The gateway *)

(* pushQuery: a second query for the key is deleted, the first goes on. *)
PushQuestion(qs, k, q) == IF qs[k] = NoQuestion THEN [qs EXCEPT ![k] = q] ELSE qs

NewQuestion == [known |-> 0, count |-> 0, given |-> {}]

(* findUser *)
AskForUser(u) ==
    /\ questions < MaxQuestions /\ turn = 1
    /\ questions' = questions + 1
    /\ queries' = PushQuestion(queries, u, NewQuestion)
    /\ underway' = [c \in Clients |-> [underway[c] EXCEPT ![u] = @ + 1]]
    /\ UNCHANGED <<knows, inbox, told, turn>>

(* findRepeater, findGateway *)
AskForPlace(p) ==
    /\ questions < MaxQuestions /\ turn = 1
    /\ questions' = questions + 1
    /\ queries' = PushQuestion(queries, p, NewQuestion)
    /\ inbox' = [c \in Clients |-> Append(inbox[c], Says(c, p))]
    /\ UNCHANGED <<knows, underway, told, turn>>

\* The time stamp an answer carries; that about a repeater has none.
Stamp(k, known) == IF k \in Users THEN known ELSE 0

\* Variant: the comparison of the time stamps the wrong way round.
UpdateOldest(q, a) ==
    [q EXCEPT !.known = IF Stamp(a.key, a.known) <= Stamp(a.key, @) THEN a.known ELSE @,
              !.given = @ \cup {a.known}]

(* Update: an empty time stamp counts as newer than any other. *)
Update(q, a) ==
    [q EXCEPT !.known = IF Stamp(a.key, a.known) = 0
                           \/ Stamp(a.key, a.known) >= Stamp(a.key, @)
                        THEN a.known ELSE @,
              !.given = @ \cup {a.known}]

\* A round starts with the answers of the last one handed over.
ToldBefore == IF turn = 1 THEN <<>> ELSE told

\* Variant: one answer more than there are networks is waited for.
TakeOneMore(a) ==
    LET q == Update(queries[a.key], a)
    IN  \/ /\ queries[a.key] = NoQuestion
           /\ told' = Append(ToldBefore, [key |-> a.key, known |-> a.known, given |-> {}])
           /\ UNCHANGED queries
        \/ /\ queries[a.key] # NoQuestion /\ q.count + 1 > Networks
           /\ told' = Append(ToldBefore, [key |-> a.key, known |-> q.known, given |-> q.given])
           /\ queries' = [queries EXCEPT ![a.key] = NoQuestion]
        \/ /\ queries[a.key] # NoQuestion /\ q.count + 1 <= Networks
           /\ queries' = [queries EXCEPT ![a.key] = [q EXCEPT !.count = @ + 1]]
           /\ told' = ToldBefore

(* What getMessageType does with an answer of one network: it is counted   *)
(* for the query on its key, whoever gave it and whyever; without a query  *)
(* it is handed on as it is.                                               *)
Take(a) ==
    LET q == Update(queries[a.key], a)
    IN  \/ /\ queries[a.key] = NoQuestion
           /\ told' = Append(ToldBefore, [key |-> a.key, known |-> a.known, given |-> {}])
           /\ UNCHANGED queries
        \/ /\ queries[a.key] # NoQuestion /\ q.count + 1 >= Networks
           /\ told' = Append(ToldBefore, [key |-> a.key, known |-> q.known, given |-> q.given])
           /\ queries' = [queries EXCEPT ![a.key] = NoQuestion]
        \/ /\ queries[a.key] # NoQuestion /\ q.count + 1 < Networks
           /\ queries' = [queries EXCEPT ![a.key] = [q EXCEPT !.count = @ + 1]]
           /\ told' = ToldBefore

(* getMessageType takes one answer of each network in turn, for as long as *)
(* processIrcDDB finds any; the networks go on filling their queues.       *)
Poll ==
    /\ turn # 1 \/ \E c \in Clients : inbox[c] # <<>>
    /\ turn' = IF turn = Networks THEN 1 ELSE turn + 1
    /\ \/ inbox[turn] = <<>> /\ told' = ToldBefore /\ UNCHANGED <<inbox, queries>>
       \/ /\ inbox[turn] # <<>> /\ Take(Head(inbox[turn]))
          /\ inbox' = [inbox EXCEPT ![turn] = Tail(@)]
    /\ UNCHANGED <<knows, underway, questions>>

MultiNext ==
    \/ \E c \in Clients, u \in Users : Reply(c, u) \/ \E t \in Known : Hear(c, u, t)
    \/ \E u \in Users : AskForUser(u)
    \/ \E p \in Places : AskForPlace(p)
    \/ Poll

MultiFairness ==
    /\ WF_multiVars(Poll)
    /\ \A c \in Clients, u \in Users : WF_multiVars(Reply(c, u))

MultiSpec == MultiInit /\ [][MultiNext]_multiVars /\ MultiFairness

---------------------------------------------------------------------------
(* Correctness *)

(* A query always has enough networks that owe it an answer to become      *)
(* complete: none waits for ever in m_userQueries for an answer that was   *)
(* counted elsewhere (getMessageType, popQuery and pushQuery).             *)
NoneLost ==
    \A k \in Keys : queries[k] # NoQuestion =>
        queries[k].count + Cardinality({c \in Clients : Owes(c, k)}) >= Networks

(* If all the answers counted for a query on a user know him, the gateway  *)
(* is given the one that heard him last (Update).                          *)
NewestWins ==
    \A i \in DOMAIN told : told[i].key \in Users /\ told[i].given # {} /\ 0 \notin told[i].given
                            => told[i].known = Max(told[i].given)

(* "Updates the entry, but only if the timestamp is newer.": a network     *)
(* that does not know the user takes nothing from what another one knows   *)
(* (IRCDDBMultiClient.h:100).                                              *)
OnlyIfNewer ==
    \A i \in DOMAIN told : told[i].key \in Users /\ told[i].given # {}
                            => told[i].known = Max(told[i].given)

(* Every question is answered, provided every server answers and the       *)
(* gateway polls (CDStarGatewayThread::processIrcDDB).                     *)
Answered == \A k \in Keys : queries[k] # NoQuestion ~> queries[k] = NoQuestion
=============================================================================
