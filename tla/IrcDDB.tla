------------------------------ MODULE IrcDDB ------------------------------
(***************************************************************************)
(* The connection to one ircDDB network: the client thread (IRCClient with *)
(* IRCProtocol), which keeps a connection to an IRC server and handles its *)
(* messages, and the application thread (IRCDDBApp::Entry), which chooses  *)
(* a server user in the channel, fetches its tables and is then ready for  *)
(* questions.  Both write m_state, and nothing orders their writes.        *)
(***************************************************************************)
EXTENDS IrcUsers, Integers, Sequences, SequencesExt

CONSTANTS
    ServerUsers,   \* the "s-" users of the channel, numbers
    BestServer,    \* the one the IRC server names at login
    Me,            \* our own nick
    NoServer,      \* m_currentServer is empty
    MaxFaults      \* bound on what goes wrong

ASSUME DDBAssumption ==
    /\ IsFiniteSet(ServerUsers) /\ ServerUsers \subseteq Nat /\ BestServer \in ServerUsers
    /\ Me \notin ServerUsers /\ NoServer \notin ServerUsers /\ MaxFaults \in Nat

\* The application thread is between two passes.
NotIn == -1

Nicks == ServerUsers \cup {Me}

\* m_state of IRCDDBApp::Entry
AppStates == {0, 1, 2, 3, 4, 5, 6, 7, 10}

\* m_state of IRCProtocol; there is no debug channel, so no 7 and 8
ProtoStates == {0, 1, 2, 3, 4, 5, 6, 10, 11, 12}

\* What the client handles, and what the application has it send
Received ==
    [cmd : {"004", "433", "JOIN", "MODE", "PART", "KICK", "LIST_END", "LIST_MORE", "ANSWER"},
     nick : Nicks]
    \cup [cmd : {"352"}, nick : SUBSET ServerUsers]
Sent     == [cmd : {"SENDLIST", "FIND", "QUIT"}, to : ServerUsers \cup {NoServer}]

VARIABLES
    channel,     \* the server users that are in the channel
    link,        \* the TCP connection: "none", "up", "closed" or "dead"
    wire,        \* messages on their way to the client, m_recvQ
    proto,       \* m_state of IRCProtocol, 0 unless IRCClient is in state 5
    users,       \* m_userMap
    sendQ,       \* whether IRCDDBApp has a m_sendQ
    out,         \* m_sendQ
    app,         \* m_state of IRCDDBApp
    looked,      \* what the application thread has read of it, or NotIn
    passed,      \* whether that thread has been in state 0 since it lost m_sendQ: the
                 \* client takes 17 seconds to give it a new one
    server,      \* m_currentServer
    table,       \* sendlistTableID
    ready,       \* m_initReady
    find,        \* the question of the gateway
    faults,      \* how much has gone wrong
    races        \* whether the client may run within a pass of the other thread

network == <<channel, link, wire>>
client  == <<proto, users, sendQ>>
appli   == <<app, looked, passed, server, table, ready>>
ddbVars == <<network, client, out, appli, find, faults, races>>

DDBTypeOK ==
    /\ channel \subseteq ServerUsers
    /\ link \in {"none", "up", "closed", "dead"}
    /\ wire \in Seq(Received) /\ proto \in ProtoStates
    /\ users \in UserMap(Nicks, 1)
    /\ sendQ \in BOOLEAN /\ out \in Seq(Sent)
    /\ app \in AppStates /\ looked \in AppStates \cup {NotIn} /\ passed \in BOOLEAN
    /\ server \in ServerUsers \cup {NoServer}
    /\ table \in -1 .. 2 /\ ready \in BOOLEAN
    /\ find \in {"none", "unsure", "sure"}
    /\ faults \in 0 .. MaxFaults /\ races \in BOOLEAN

DDBInit ==
    /\ channel = ServerUsers /\ link = "none" /\ wire = <<>>
    /\ proto = 0 /\ users = UserListReset /\ sendQ = FALSE /\ out = <<>>
    /\ app = 0 /\ looked = NotIn /\ passed = TRUE /\ server = NoServer /\ table = 0
    /\ ready = FALSE /\ find = "none" /\ faults = 0 /\ races \in BOOLEAN

Msg(cmd, nick) == [cmd |-> cmd, nick |-> nick]

\* A fault makes it unsure that a question is answered.
Fault ==
    /\ faults < MaxFaults /\ faults' = faults + 1
    /\ find' = IF find = "sure" THEN "unsure" ELSE find

---------------------------------------------------------------------------
(* The IRC server and the server users *)

\* Whether the IRC server has us in the channel and tells us who comes and goes
Joined == link = "up" /\ (proto \in {10, 11, 12} \/ \E i \in DOMAIN wire : wire[i] = Msg("JOIN", Me))

ServerLeaves(s) ==
    /\ s \in channel /\ Fault
    /\ channel' = channel \ {s}
    /\ wire' = IF Joined THEN Append(wire, Msg("PART", s)) ELSE wire
    /\ UNCHANGED <<link, client, out, appli, races>>

ServerComes(s) ==
    /\ s \notin channel
    /\ channel' = channel \cup {s}
    /\ wire' = IF Joined THEN wire \o <<Msg("JOIN", s), Msg("MODE", s)>> ELSE wire
    /\ UNCHANGED <<link, client, out, appli, find, faults, races>>

(* The connection is closed, or carries nothing more, or we are thrown out *)
(* of the channel.                                                         *)
Disconnect ==
    /\ link = "up" /\ Fault
    /\ \/ link' = "closed" /\ UNCHANGED wire
       \/ link' = "dead" /\ wire' = <<>>
       \/ Joined /\ wire' = Append(wire, Msg("KICK", Me)) /\ UNCHANGED link
    /\ UNCHANGED <<channel, client, out, appli, races>>

---------------------------------------------------------------------------
(* The client thread: IRCClient::Entry *)

(* States 0 to 4, until there is a connection *)
Connect ==
    /\ link = "none"
    /\ link' = "up" /\ proto' = 1 /\ out' = <<>>
    /\ UNCHANGED <<channel, wire, users, sendQ, appli, find, faults, races>>

(* State 6: the application loses its queue and the list of users, and     *)
(* with the queue what it had put in it.                                   *)
Teardown ==
    /\ link' = "none" /\ wire' = <<>> /\ proto' = 0 /\ out' = <<>>
    /\ sendQ' = FALSE /\ users' = UserListReset /\ passed' = FALSE

Send(answers) == wire' = IF link = "up" THEN wire \o answers ELSE wire

(* The part of processQueues that depends on the state.  The IRC server's  *)
(* answer to what is sent is on its way at once; it may refuse the nick.   *)
(* A reply that can come is taken to come before its timer ends, and a     *)
(* PING that is answered is left out: it leads from state 11 to 12 and     *)
(* back.                                                                   *)
Step ==
    /\ link # "none"
    /\ \/ /\ proto = 1 /\ proto' = 2
          /\ \/ Send(<<>>) /\ UNCHANGED <<find, faults>>
             \/ Fault /\ Send(<<Msg("433", Me)>>)
          /\ UNCHANGED <<sendQ>>
       \/ /\ proto = 2 /\ wire = <<>> /\ proto' = 4 /\ Send(<<Msg("004", Me)>>)
          /\ UNCHANGED <<sendQ, find, faults>>
       \/ /\ proto = 3 /\ proto' = 2 /\ Send(<<>>)
          /\ UNCHANGED <<sendQ, find, faults>>
       \/ /\ proto = 5 /\ proto' = 6 /\ Send(<<Msg("JOIN", Me)>>)
          /\ UNCHANGED <<sendQ, find, faults>>
       \/ /\ proto = 10 /\ passed /\ proto' = 11 /\ sendQ' = TRUE
          /\ Send(<<Msg("352", channel)>>)
          /\ UNCHANGED <<find, faults>>
       \/ /\ proto = 11 /\ proto' = 12 /\ link = "dead" /\ Send(<<>>)
          /\ UNCHANGED <<sendQ, find, faults>>
    /\ UNCHANGED <<channel, link, users, out, appli, races>>

\* No answer comes in a state that waits for one.
Silence == link = "dead" /\ proto \in {4, 6, 12}

(* processQueues ends the connection: no answer in states 4, 6 and 12, and *)
(* the end of the queue, which is looked at before the messages in it.     *)
GiveUp ==
    /\ \/ link = "closed"
       \/ Silence
    /\ Teardown
    /\ UNCHANGED <<channel, app, looked, server, table, ready, find, faults, races>>

\* Variant: the application goes on with a server that has left.
LeftUnnoticed(nick) == UNCHANGED <<app, ready>>

(* userLeave, after the entry is gone: if it was our server, choose anew.  *)
ServerLeft(nick) ==
    IF server = nick /\ Me \in DOMAIN users /\ ~users[Me].op
    THEN app' = 2 /\ ready' = FALSE
    ELSE UNCHANGED <<app, ready>>

\* Variant: an answer counts while the tables are fetched only.
QueryWhenListing(m) ==
    /\ app' = IF m.cmd = "LIST_END" /\ app = 5 THEN 3
              ELSE IF m.cmd = "LIST_MORE" /\ app = 5 THEN 4 ELSE app
    /\ find' = IF m.cmd = "ANSWER" /\ app = 5 THEN "none" ELSE find

(* msgQuery: the answers to SENDLIST count in state 5 only, that to FIND   *)
(* only when the application is ready.                                     *)
Query(m) ==
    /\ IF m.cmd \in {"LIST_END", "LIST_MORE"} /\ app = 5
       THEN app' = IF m.cmd = "LIST_END" THEN 3 ELSE 4
       ELSE UNCHANGED app
    /\ find' = IF m.cmd = "ANSWER" /\ ready THEN "none" ELSE find

(* The lines of the WHO list: who is in the channel, we too, and which of  *)
(* them are operators.                                                     *)
WhoList(present) ==
    LET listed == present \cup {Me}
    IN  [n \in DOMAIN users \cup listed |->
            IF n \in listed THEN UserChanOp(UserJoin(users, n, {}), n, n # Me)[n] ELSE users[n]]

(* The part of processQueues that handles a message *)
Receive ==
    /\ link \in {"up", "dead"} /\ wire # <<>>
    /\ LET m == Head(wire)
       IN  \/ /\ m.cmd = "KICK" /\ Teardown
              /\ UNCHANGED <<app, ready, find>>
           \/ /\ m.cmd # "KICK" /\ wire' = Tail(wire)
              /\ proto' = CASE m.cmd = "004" /\ proto = 4                -> 5
                            [] m.cmd = "433" /\ proto = 2                -> 3
                            [] m = Msg("JOIN", Me) /\ proto = 6          -> 10
                            [] OTHER                                     -> proto
              /\ users' = CASE m.cmd = "JOIN" /\ m.nick # Me -> UserJoin(users, m.nick, {})
                            [] m.cmd = "352"  -> WhoList(m.nick)
                            [] m.cmd = "MODE" -> UserChanOp(users, m.nick, TRUE)
                            [] m.cmd = "PART" -> RemoveUser(users, m.nick)
                            [] OTHER          -> users
              /\ IF m.cmd = "PART" THEN ServerLeft(m.nick) /\ UNCHANGED find
                 ELSE IF m.cmd \in {"LIST_END", "LIST_MORE", "ANSWER"} THEN Query(m) /\ UNCHANGED ready
                 ELSE UNCHANGED <<app, ready, find>>
              /\ UNCHANGED <<link, out, sendQ, passed>>
    /\ UNCHANGED <<channel, looked, server, table, faults, races>>

(* IRCClient::Entry sends what is in m_sendQ; the server users and the IRC *)
(* server answer.  A list may come in parts.                               *)
Transmit ==
    /\ link # "none" /\ out # <<>>
    /\ out' = Tail(out)
    /\ LET m == Head(out)
           there == link = "up" /\ m.to \in channel
       IN  \/ /\ m.cmd = "QUIT" /\ link' = (IF link = "up" THEN "closed" ELSE link)
              /\ UNCHANGED <<wire, find, faults>>
           \/ /\ m.cmd = "SENDLIST" /\ UNCHANGED link
              /\ \/ wire' = (IF there THEN Append(wire, Msg("LIST_END", m.to)) ELSE wire)
                    /\ UNCHANGED <<find, faults>>
                 \/ there /\ Fault /\ wire' = Append(wire, Msg("LIST_MORE", m.to))
           \/ /\ m.cmd = "FIND" /\ UNCHANGED <<link, find, faults>>
              /\ wire' = IF there THEN Append(wire, Msg("ANSWER", m.to)) ELSE wire
    /\ UNCHANGED <<channel, client, appli, races>>

---------------------------------------------------------------------------
(* The application thread: a pass of IRCDDBApp::Entry reads m_state first  *)
(* and may write it later; without a race nothing happens in between.      *)
Look == /\ races /\ looked = NotIn /\ looked' = app
        /\ UNCHANGED <<network, client, out, app, passed, server, table, ready, find, faults, races>>

Put(m) == out' = IF sendQ THEN Append(out, m) ELSE out

\* Neither the request for a list nor an answer to it is on its way.
ListOverdue ==
    /\ app = 5
    /\ \A i \in DOMAIN out : out[i].cmd # "SENDLIST"
    /\ \A i \in DOMAIN wire : wire[i].cmd \notin {"LIST_END", "LIST_MORE"}

\* There is no server to choose, and it is clear that there is none.
NoneComes == wire = <<>> /\ out = <<>> /\ link # "none" /\ Me \in DOMAIN users

(* m_state as the switch of Entry has it *)
AtStart == IF races THEN looked ELSE app

\* After a table: the next one, or none is left
AfterTable(t) == IF t = 0 THEN 6 ELSE 4

Pass ==
    /\ races => looked # NotIn
    /\ looked' = NotIn
    /\ passed' = (passed \/ AtStart \in {0, 10})
    /\ \/ /\ AtStart = 0 /\ app' = (IF sendQ THEN 1 ELSE app)
          /\ UNCHANGED <<server, table, ready, out>>
       \/ /\ AtStart = 1 /\ app' = 2
          /\ UNCHANGED <<server, table, ready, out>>
       \/ /\ AtStart \in {2, 3, 4, 5, 6, 7} /\ ~sendQ /\ app' = 10
          /\ UNCHANGED <<server, table, ready, out>>
       \/ /\ AtStart = 2 /\ sendQ
          /\ IF Operators(users, ServerUsers) # {}
             THEN /\ server' = FindServerUser(users, ServerUsers, BestServer)
                  /\ table' = 2 /\ app' = 3 /\ UNCHANGED <<ready, out>>
             ELSE /\ \/ NoneComes /\ app' = 10 /\ Put([cmd |-> "QUIT", to |-> NoServer])
                     \/ UNCHANGED <<app, out>>
                  /\ UNCHANGED <<server, table, ready>>
       \/ /\ AtStart = 3 /\ sendQ /\ table' = table - 1 /\ app' = AfterTable(table)
          /\ UNCHANGED <<server, ready, out>>
       \/ /\ AtStart = 4 /\ sendQ
          /\ IF table = 1 THEN app' = 5 /\ Put([cmd |-> "SENDLIST", to |-> server])
             ELSE app' = 3 /\ UNCHANGED out
          /\ UNCHANGED <<server, table, ready>>
       \/ /\ AtStart = 5 /\ sendQ
          /\ \/ ListOverdue /\ app' = 10 /\ Put([cmd |-> "QUIT", to |-> NoServer])
             \/ ~ListOverdue /\ UNCHANGED <<app, out>>
          /\ UNCHANGED <<server, table, ready>>
       \/ /\ AtStart = 6 /\ sendQ /\ app' = 7 /\ ready' = TRUE
          /\ UNCHANGED <<server, table, out>>
       \/ /\ AtStart = 7 /\ sendQ
          /\ UNCHANGED <<app, server, table, ready, out>>
       \/ /\ AtStart = 10 /\ app' = 0 /\ ready' = FALSE
          /\ UNCHANGED <<server, table, out>>
    /\ UNCHANGED <<network, client, find, faults, races>>

---------------------------------------------------------------------------
\* No news that ends the work of a server is on its way, no QUIT from us.
Quiet ==
    /\ \A i \in DOMAIN wire : wire[i].cmd \notin {"PART", "KICK"}
    /\ \A i \in DOMAIN out : out[i].cmd # "QUIT"

(* The gateway thread: findUser is answered at once if there is no server. *)
(* The bound on it is one question, with its answer, at a time.            *)
FindUser ==
    /\ find = "none" /\ \A i \in DOMAIN out : out[i].cmd # "FIND"
    /\ \A i \in DOMAIN wire : wire[i].cmd # "ANSWER"
    /\ IF server # NoServer /\ app >= 6 /\ sendQ
       THEN /\ out' = Append(out, [cmd |-> "FIND", to |-> server])
            /\ find' = IF ready /\ server \in channel /\ link = "up" /\ Quiet THEN "sure" ELSE "unsure"
       ELSE UNCHANGED <<out, find>>
    /\ UNCHANGED <<network, client, appli, faults, races>>

(* CRepeaterHandler stops waiting when m_queryTimer expires. *)
StopWaiting ==
    /\ find = "unsure" /\ find' = "none"
    /\ UNCHANGED <<network, client, out, appli, faults, races>>

ClientStep == Connect \/ Step \/ GiveUp \/ Receive \/ Transmit
AppStep    == Look \/ Pass

DDBNext ==
    \/ \E s \in ServerUsers : ServerLeaves(s) \/ ServerComes(s)
    \/ Disconnect
    \/ ClientStep \/ AppStep
    \/ FindUser \/ StopWaiting

DDBFairness ==
    /\ WF_ddbVars(channel = {} /\ \E s \in ServerUsers : ServerComes(s))
    /\ WF_ddbVars(Receive) /\ WF_ddbVars(Transmit)
    /\ WF_ddbVars(Connect) /\ WF_ddbVars(Step) /\ WF_ddbVars(GiveUp)
    /\ WF_ddbVars(Look) /\ WF_ddbVars(Pass)

DDBSpec == DDBInit /\ [][DDBNext]_ddbVars /\ DDBFairness

---------------------------------------------------------------------------
(* However often the connection or a server is lost, the application gets  *)
(* ready again and stays so.                                               *)
ReadyAgain == <>[](app = 7 /\ sendQ /\ ready /\ link = "up")

(* ... with a server that is in the channel, unless the client thread ran  *)
(* within the pass that made it ready.                                     *)
ServedByOneOfThem == <>[](~races => server \in channel)

(* A question put to a server while the application is ready is answered,  *)
(* unless something goes wrong meanwhile.                                  *)
SureAnswer == find = "sure" ~> find # "sure"
=============================================================================
