--------------------------- MODULE RemoteControl ---------------------------
(***************************************************************************)
(* Remote control of a gateway: the programs that log in, give a command   *)
(* and log out (dgwremotecontrol), and the gateway's end of it             *)
(* (CRemoteProtocolHandler, CRemoteHandler).  Datagrams between them are   *)
(* lost - one that never comes is lost - and overtake each other.  A       *)
(* command links or unlinks a repeater; the questions other programs may   *)
(* ask are left out, and so is the LKS command of a local script, which    *)
(* needs no login and gets no answer.  A program that does not know the    *)
(* password may also send a command, or a logout, without any login: the   *)
(* port is open to all.                                                    *)
(***************************************************************************)
EXTENDS Naturals, FiniteSets, Bags

CONSTANTS
    Programs,      \* runs of dgwremotecontrol, each with a port of its own
    Nobody,        \* m_address before anybody logs in
    MaxPolls,      \* how often a program looks for an answer
    MaxRetries,    \* MAX_RETRIES
    MaxWire        \* bound on datagrams on their way; one more is lost

ASSUME RemoteAssumption ==
    /\ IsFiniteSet(Programs) /\ Nobody \notin Programs
    /\ MaxPolls \in Nat \ {0} /\ MaxRetries \in Nat \ {0, 1} /\ MaxWire \in Nat \ {0}

\* The numbers of CRemoteHandler, in the order they are given out
Randoms == Nat

\* SHA is the hash of the password and a random number; good is whether the
\* password was the right one.
Request == [from : Programs, kind : {"LIN", "LNK", "LOG"}]
           \cup [from : Programs, kind : {"SHA"}, random : Randoms]
Response == [to : Programs, kind : {"ACK", "NAK"}]
            \cup [to : Programs, kind : {"RND"}, random : Randoms]

Phases == {"idle", "login", "hash", "command", "accepted", "rejected", "bad password", "silence"}
AwaitsAnswer == {"login", "hash", "command"}

VARIABLES
    datagrams,  \* the bag of datagrams on their way
    phase,      \* how far each program is in its main()
    polls,      \* its count
    retryCount, \* its m_retryCount
    buffer,     \* its m_outBuffer
    loggedIn,   \* the gateway's m_loggedIn
    owner,      \* the gateway's m_address and m_port
    random,     \* m_random, the last of the numbers given out
    done,       \* programs whose command the gateway has carried out
    trusted,    \* programs that know the password
    sensible,   \* programs that name a repeater of the gateway
    alone       \* whether there is one program at a time and answers come in time

gateway    == <<loggedIn, owner, random, done>>
setting    == <<trusted, sensible, alone>>
remoteVars == <<datagrams, phase, polls, retryCount, buffer, gateway, setting>>

RemoteTypeOK ==
    /\ IsABag(datagrams) /\ BagToSet(datagrams) \subseteq Request \cup Response
    /\ phase \in [Programs -> Phases]
    /\ polls \in [Programs -> 0 .. MaxPolls]
    /\ retryCount \in [Programs -> 0 .. MaxRetries - 1]
    /\ \A p \in Programs : buffer[p] \in Request /\ buffer[p].from = p
    /\ loggedIn \in BOOLEAN /\ owner \in Programs \cup {Nobody} /\ random \in Randoms
    /\ done \subseteq Programs /\ trusted \subseteq Programs /\ sensible \subseteq Programs
    /\ alone \in BOOLEAN

RemoteInit ==
    /\ datagrams = EmptyBag
    /\ phase = [p \in Programs |-> "idle"] /\ polls = [p \in Programs |-> 0]
    /\ retryCount = [p \in Programs |-> 0]
    /\ buffer = [p \in Programs |-> [from |-> p, kind |-> "LIN"]]
    /\ loggedIn = FALSE /\ owner = Nobody /\ random = 0 /\ done = {}
    /\ trusted \in SUBSET Programs /\ sensible \in SUBSET Programs /\ alone \in BOOLEAN
    /\ alone => trusted = Programs /\ sensible = Programs

One(m) == SetToBag({m})
Carried(bag, m) == IF BagCardinality(bag) < MaxWire THEN bag (+) One(m) ELSE bag

\* What is left when a program closes its socket
WithoutAnswersTo(p, bag) ==
    [m \in {n \in DOMAIN bag : ~("to" \in DOMAIN n /\ n.to = p)} |-> bag[m]]

---------------------------------------------------------------------------
(* A program *)

(* The next request: it is kept for a retry, and the count starts again. *)
Ask(p, next, request) ==
    /\ phase' = [phase EXCEPT ![p] = next]
    /\ polls' = [polls EXCEPT ![p] = 0]
    /\ retryCount' = [retryCount EXCEPT ![p] = 1]
    /\ buffer' = [buffer EXCEPT ![p] = request]

(* login *)
Login(p) ==
    /\ phase[p] = "idle"
    /\ alone => datagrams = EmptyBag /\ \A q \in Programs : phase[q] \notin AwaitsAnswer
    /\ Ask(p, "login", buffer[p])
    /\ datagrams' = Carried(datagrams, buffer[p])
    /\ UNCHANGED <<gateway, setting>>

(* A program without the password does not keep to the order of main().    *)
Unbidden(p, kind) ==
    /\ p \notin trusted /\ datagrams' = Carried(datagrams, [from |-> p, kind |-> kind])
    /\ UNCHANGED <<phase, polls, retryCount, buffer, gateway, setting>>

\* A wait that goes on, unless this was the last look
GoOn(p) ==
    /\ polls' = [polls EXCEPT ![p] = @ + 1]
    /\ phase' = [phase EXCEPT ![p] = IF polls[p] + 1 >= MaxPolls THEN "silence" ELSE @]

Stop(p, why) ==
    /\ phase' = [phase EXCEPT ![p] = why]
    /\ UNCHANGED polls

(* The waits of main(): what readType finds ends the wait, or is dropped.  *)
(* Any answer ends the retries.                                            *)
TakesAnswer(p, m) ==
    LET rest == datagrams (-) One(m)
        Reply(next, request) ==
            Ask(p, next, request) /\ datagrams' = Carried(rest, request)
        End(why) ==
            /\ Stop(p, why) /\ datagrams' = WithoutAnswersTo(p, rest)
            /\ retryCount' = [retryCount EXCEPT ![p] = 0] /\ UNCHANGED buffer
        Dropped ==
            /\ GoOn(p)
            /\ datagrams' = IF phase'[p] \in AwaitsAnswer THEN rest ELSE WithoutAnswersTo(p, rest)
            /\ retryCount' = [retryCount EXCEPT ![p] = 0] /\ UNCHANGED buffer
    IN  /\ phase[p] \in AwaitsAnswer /\ m.to = p
        /\ CASE phase[p] = "login" /\ m.kind = "RND" ->
                   Reply("hash", [from |-> p, kind |-> "SHA", random |-> m.random])
             [] phase[p] = "hash" /\ m.kind = "ACK" ->
                   Reply("command", [from |-> p, kind |-> "LNK"])
             [] phase[p] = "hash" /\ m.kind = "NAK"    -> End("bad password")
             [] phase[p] = "command" /\ m.kind = "NAK" -> End("rejected")
             [] phase[p] = "command" /\ m.kind = "ACK" ->
                   /\ Stop(p, "accepted")
                   /\ retryCount' = [retryCount EXCEPT ![p] = 1]
                   /\ datagrams' = Carried(WithoutAnswersTo(p, rest), [from |-> p, kind |-> "LOG"])
                   /\ UNCHANGED buffer  \* of five LOG one is enough
             [] OTHER -> Dropped
        /\ UNCHANGED <<gateway, setting>>

(* retry, when nothing was there to read *)
Retry(p) ==
    /\ phase[p] \in AwaitsAnswer
    /\ alone => \A m \in BagToSet(datagrams) : m # buffer[p] /\ ("to" \in DOMAIN m => m.to # p)
    /\ GoOn(p)
    /\ retryCount' = [retryCount EXCEPT ![p] =
                         IF @ = 0 \/ @ + 1 >= MaxRetries THEN 0 ELSE @ + 1]
    /\ LET left == IF phase'[p] \in AwaitsAnswer THEN datagrams ELSE WithoutAnswersTo(p, datagrams)
       IN  datagrams' = IF retryCount'[p] = 0 THEN left ELSE Carried(left, buffer[p])
    /\ UNCHANGED <<buffer, gateway, setting>>

---------------------------------------------------------------------------
(* The gateway *)

\* Variant: the commands of the one who was logged in before are taken too.
ForgetsAddress(m) == FALSE

(* readType turns down what comes from elsewhere while somebody is logged  *)
(* in; everything but a login.                                             *)
Stranger(m) == loggedIn /\ m.from # owner

(* readHash: the hash of the password and the last random number *)
Valid(m) == m.from \in trusted /\ m.random = random

(* readType and CRemoteHandler::process; whatever the answer is, it goes   *)
(* to the one who last tried to log in.                                    *)
Handle(m) ==
    LET rest == datagrams (-) One(m)
        Answer(kind) == datagrams' = IF owner = Nobody \/ phase[owner] \notin AwaitsAnswer THEN rest
                                     ELSE Carried(rest, [to |-> owner, kind |-> kind])
        Log(in) == loggedIn' = in /\ UNCHANGED <<owner, random, done>>
    IN  \/ /\ m.kind = "LIN"
           /\ loggedIn' = FALSE /\ owner' = m.from /\ random' = random + 1
           /\ datagrams' = IF phase[m.from] \notin AwaitsAnswer THEN rest
                           ELSE Carried(rest, [to |-> m.from, kind |-> "RND", random |-> random + 1])
           /\ UNCHANGED done
        \/ /\ m.kind # "LIN" /\ Stranger(m)
           /\ Answer("NAK") /\ UNCHANGED gateway
        \/ /\ m.kind = "SHA" /\ ~Stranger(m)
           /\ \/ loggedIn /\ Answer("NAK") /\ UNCHANGED gateway
              \/ ~loggedIn /\ Valid(m) /\ Answer("ACK") /\ Log(TRUE)
              \/ ~loggedIn /\ ~Valid(m) /\ Answer("NAK") /\ Log(FALSE)
        \/ /\ m.kind = "LNK" /\ ~Stranger(m)
           /\ IF loggedIn /\ m.from \in sensible
              THEN Answer("ACK") /\ done' = done \cup {m.from} /\ UNCHANGED <<loggedIn, owner, random>>
              ELSE Answer("NAK") /\ UNCHANGED gateway
        \/ /\ m.kind = "LOG" /\ ~Stranger(m)
           /\ datagrams' = rest /\ Log(FALSE)

Serve(m) == Handle(m) /\ UNCHANGED <<phase, polls, retryCount, buffer, setting>>

Requests  == {m \in BagToSet(datagrams) : "from" \in DOMAIN m}
Responses == {m \in BagToSet(datagrams) : "to" \in DOMAIN m}

RemoteNext ==
    \/ \E p \in Programs : Login(p) \/ Retry(p) \/ \E m \in Responses : TakesAnswer(p, m)
    \/ \E p \in Programs, kind \in {"LNK", "LOG"} : Unbidden(p, kind)
    \/ \E m \in Requests : Serve(m)

RemoteFairness ==
    /\ \A p \in Programs : WF_remoteVars(Retry(p) \/ \E m \in Responses : TakesAnswer(p, m))
    /\ WF_remoteVars(alone /\ \E m \in Requests : Serve(m))

RemoteSpec == RemoteInit /\ [][RemoteNext]_remoteVars /\ RemoteFairness

---------------------------------------------------------------------------
(* A program that reports success has had its command carried out,         *)
(* whatever is lost or late and whoever else logs in meanwhile.            *)
AcceptedIsDone == \A p \in Programs : phase[p] = "accepted" => p \in done

(* Only programs that know the password get anything done, whoever asks    *)
(* for it in whatever order: the one logged in proved to know it, with the *)
(* number it was given itself, and only its command is carried out.        *)
OnlyTrusted == (loggedIn => owner \in trusted) /\ done \subseteq trusted

(* One at a time and on a network without delay, a program that knows the  *)
(* password and names a repeater of the gateway succeeds.                  *)
AloneSucceeds ==
    alone => \A p \in trusted \cap sensible :
                 phase[p] \notin {"rejected", "bad password", "silence"}

(* What a program is told, and what the gateway does for whom. *)
LoginSound == AcceptedIsDone /\ OnlyTrusted /\ AloneSucceeds
=============================================================================
