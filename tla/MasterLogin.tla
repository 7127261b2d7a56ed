----------------------------- MODULE MasterLogin -----------------------------
(***************************************************************************)
(* How the router gets a session at BrandMeister and what becomes of it:   *)
(* DirectBrandMeisterTransport.connect, the login of                       *)
(* DmrMasterBrandMeisterTransport with its five attempts, their            *)
(* combination in HybridDmrReturnBrandMeisterTransport, and the service    *)
(* around them (serve_forever, systemd).                                   *)
(*                                                                         *)
(* The network loses, delays, reorders and repeats datagrams, the master   *)
(* restarts, sends fail, until "calm" holds; from then on nothing goes     *)
(* wrong and delays are shorter than the waits of the code.  Each attempt  *)
(* has a new socket: a datagram is old once the socket it was sent from or *)
(* to is closed, and an old answer is heard only if master_local_port      *)
(* gives every socket the same port.  Datagrams the login ignores (voice,  *)
(* pongs) are left out.                                                    *)
(***************************************************************************)
EXTENDS Naturals, FiniteSets

CONSTANTS
    Salt,         \* what the master may draw for a challenge
    IdTail,       \* the bytes a plain RPTACK has where a challenge has a salt
    Backend,      \* the backends of the factory that may be configured
    Attempts,     \* connect tries this often: 5
    MaxInFlight   \* bound: datagrams in the network before it is calm

ASSUME SaltAssumption == IdTail \notin Salt

ASSUME BackendAssumption ==
    Backend \subseteq {"ysf_direct", "dmr_master", "hybrid_dmr_return"}

ASSUME BoundAssumption == Attempts \in Nat \ {0} /\ MaxInFlight \in Nat

VARIABLES
    pc,          \* "down", in connect: the answer waited for or "sleep", "up"
    backend,     \* config.backend
    fixedPort,   \* master_local_port is not 0
    attempt,     \* of DmrMasterBrandMeisterTransport.connect
    net,         \* the datagrams under way
    phase,       \* what the master knows of the router
    masterSalt   \* the salt of its last challenge

\* History and environment.
VARIABLES
    granted,     \* requests of this socket the master has accepted
    repeated,    \* the network has repeated a datagram of this socket
    late,        \* an answer to an earlier attempt was read in this login
    calm         \* nothing goes wrong any more

config  == <<backend, fixedPort>>
server  == <<phase, masterSalt>>
history == <<granted, repeated, late>>
vars    == <<pc, config, attempt, net, server, history, calm>>

LoginRequest  == {"RPTL", "RPTK", "RPTC"}
MasterRequest == LoginRequest \cup {"RPTO", "RPTPING", "RPTCL"}
MasterAnswer  == {"RPTACK", "MSTNAK"}
DirectRequest == {"YSFL", "YSFK"}
DirectAnswer  == {"YSFACK", "YSFNAK"}

Datagram ==
    [kind : MasterRequest \cup MasterAnswer \cup DirectRequest \cup DirectAnswer,
     salt : Salt \cup {IdTail}, old : BOOLEAN]

\* The request whose answer the login waits for.
Asked == [challenge |-> "RPTL", ack |-> "RPTK", config |-> "RPTC"]
Waiting == DOMAIN Asked

TypeOK ==
    /\ pc \in {"down", "direct", "sleep", "up"} \cup Waiting
    /\ backend \in Backend
    /\ fixedPort \in BOOLEAN
    /\ attempt \in 0 .. Attempts
    /\ net \subseteq Datagram
    /\ phase \in {"none", "challenged", "authorised", "configured"}
    /\ masterSalt \in Salt \cup {IdTail}
    /\ granted \subseteq LoginRequest
    /\ repeated \in BOOLEAN
    /\ late \in BOOLEAN
    /\ calm \in BOOLEAN

Init ==
    /\ pc = "down"
    /\ backend \in Backend
    /\ fixedPort \in BOOLEAN
    /\ attempt = 0
    /\ net = {}
    /\ phase = "none"
    /\ masterSalt = IdTail
    /\ granted = {}
    /\ repeated = FALSE
    /\ late = FALSE
    /\ calm = FALSE

-----------------------------------------------------------------------------

\* The network.

New(kind, salt) == [kind |-> kind, salt |-> salt, old |-> FALSE]

\* What may be under way after a send: any part of it may be lost.
Sent(underway, datagrams) ==
    IF calm THEN {underway \cup datagrams}
    ELSE {underway} \cup
         {n \in {underway \cup d : d \in SUBSET datagrams} : Cardinality(n) <= MaxInFlight}

\* What is under way after a delivery: the network may repeat the datagram.
Left(m) == {net \ {m}} \cup IF calm THEN {} ELSE {net}

\* The socket is closed.  Without a fixed port what was sent to it is lost;
\* YSF Direct's socket has none.
Closed(underway) ==
    LET lost(m) == \/ m.kind \in DirectAnswer
                   \/ m.kind \in MasterAnswer /\ ~fixedPort
    IN  {[m EXCEPT !.old = TRUE] : m \in {n \in underway : ~lost(n)} }

\* The datagrams of a kind, for the socket or the server that waits for it.
Heard(kind) == {m \in net : m.kind = kind}

\* When the network is calm, waiting outlasts everything under way.
Outwaited == calm => net = {}

-----------------------------------------------------------------------------

\* The history of a new socket.
Afresh == granted' = {} /\ repeated' = FALSE /\ late' = FALSE

\* A wrong OpenSocket: the socket of the last attempt is used again.
OpenSocketReused(n, underway, requests) ==
    /\ pc' = "challenge"
    /\ attempt' = n
    /\ net' \in Sent(underway, requests \cup {New("RPTL", IdTail)})
    /\ Afresh

\* One attempt of connect: a new socket, the login request.
OpenSocket(n, underway, requests) ==
    /\ pc' = "challenge"
    /\ attempt' = n
    /\ net' \in Sent(Closed(underway), requests \cup {New("RPTL", IdTail)})
    /\ Afresh

\* systemd starts the service, the factory makes the transport.
Start ==
    /\ pc = "down"
    /\ Outwaited
    /\ IF backend = "dmr_master"
       THEN OpenSocket(1, net, {})
       ELSE /\ pc' = "direct"
            /\ attempt' = 0
            /\ net' \in Sent(Closed(net), {New("YSFL", IdTail)})
            /\ Afresh
    /\ UNCHANGED <<config, server, calm>>

\* YSF Direct: the challenge is answered and the transport is connected,
\* whatever the server makes of the answer.
DirectChallenge ==
    /\ pc = "direct"
    /\ \E m \in Heard("YSFACK") : \E rest \in Left(m) :
        /\ ~m.old
        /\ IF backend = "ysf_direct"
           THEN /\ pc' = "up"
                /\ net' \in Sent(rest, {New("YSFK", m.salt)})
                /\ UNCHANGED <<attempt, history>>
           ELSE OpenSocket(1, rest, {New("YSFK", m.salt)})
    /\ UNCHANGED <<config, server, calm>>

\* A refusal, a timeout or an OSError leaves connect, and with it the process.
DirectFails ==
    /\ pc = "direct"
    /\ \/ \E m \in Heard("YSFNAK") : ~m.old /\ net' \in Left(m)
       \/ Outwaited /\ net' = net
    /\ pc' = "down"
    /\ UNCHANGED <<config, attempt, server, history, calm>>

\* A datagram of the master is read in place of the answer waited for.
Hear(kind, next, Request(_)) ==
    \E m \in Heard(kind) : \E rest \in Left(m) :
        /\ pc' = next
        /\ net' \in Sent(rest, Request(m.salt))
        /\ repeated' = (repeated \/ (rest = net /\ ~m.old))
        /\ late' = (late \/ m.old)
        /\ UNCHANGED <<config, attempt, server, granted, calm>>

\* A wrong ReceiveChallenge: the salt is cut from the wrong bytes.
ReceiveChallengeMiscut ==
    /\ pc = "challenge"
    /\ Hear("RPTACK", "ack", LAMBDA s : {New("RPTK", IdTail)})

\* Any RPTACK is a challenge, its bytes 6 to 9 the salt.
ReceiveChallenge ==
    /\ pc = "challenge"
    /\ Hear("RPTACK", "ack", LAMBDA s : {New("RPTK", s)})

\* A wrong ReceiveAck: the answer to the configuration is not waited for.
ReceiveAckHasty ==
    /\ pc = "ack"
    /\ Hear("RPTACK", "up", LAMBDA s : {New("RPTC", IdTail)})

ReceiveAck ==
    /\ pc = "ack"
    /\ Hear("RPTACK", "config", LAMBDA s : {New("RPTC", IdTail)})

\* The options, if there are any, are sent without waiting for their answer.
ReceiveConfigAck ==
    /\ pc = "config"
    /\ \E options \in SUBSET {New("RPTO", IdTail)} :
        Hear("RPTACK", "up", LAMBDA s : options)

\* MSTNAK ends the attempt; the socket is closed.
Refused ==
    /\ pc \in Waiting
    /\ \E m \in Heard("MSTNAK") : \E rest \in Left(m) : net' = Closed(rest)
    /\ pc' = "sleep"
    /\ UNCHANGED <<config, attempt, server, history, calm>>

\* So does an OSError: no datagram for 10 s, or a send that fails.
Timeout ==
    /\ pc \in Waiting
    /\ Outwaited
    /\ pc' = "sleep"
    /\ net' = Closed(net)
    /\ UNCHANGED <<config, attempt, server, history, calm>>

\* Behind the sleep: the next attempt.
Retry ==
    /\ pc = "sleep"
    /\ attempt < Attempts
    /\ Outwaited
    /\ OpenSocket(attempt + 1, net, {})
    /\ UNCHANGED <<config, server, calm>>

\* Behind the last one the exception ends the service; the transport is not
\* disconnected, serve_forever has not reached its try.
GiveUp ==
    /\ pc = "sleep"
    /\ attempt = Attempts
    /\ pc' = "down"
    /\ UNCHANGED <<config, attempt, net, server, history, calm>>

\* The loop calls clock, which pings every five seconds; YSF Direct has none.
\* Nobody waits for the answer.
Ping ==
    /\ pc = "up"
    /\ net' \in IF backend = "ysf_direct" THEN {net}
               ELSE Sent(net, {New("RPTPING", IdTail)})
    /\ UNCHANGED <<pc, config, attempt, server, history, calm>>

\* A send of the loop raises, or the user stops it: the transport is
\* disconnected.
Stop ==
    /\ pc = "up"
    /\ ~calm
    /\ pc' = "down"
    /\ net' \in Sent(net, IF backend = "ysf_direct" THEN {} ELSE {New("RPTCL", IdTail)})
    /\ UNCHANGED <<config, attempt, server, history, calm>>

Crash ==
    /\ pc # "down"
    /\ ~calm
    /\ pc' = "down"
    /\ UNCHANGED <<config, attempt, net, server, history, calm>>

\* Outside connect an answer changes nothing: recv_packet swallows it, the
\* hybrid transport leaves it unread, and without a socket it is lost.
Unheard ==
    /\ \E m \in net :
        /\ \/ m.kind \in MasterAnswer /\ pc \notin Waiting
           \/ m.kind \in DirectAnswer /\ pc # "direct"
        /\ net' = net \ {m}
    /\ UNCHANGED <<pc, config, attempt, server, history, calm>>

-----------------------------------------------------------------------------

\* The servers of BrandMeister.

Verdict(newPhase, newSalt, answer, tail) ==
    [phase |-> newPhase, salt |-> newSalt, answer |-> answer, tail |-> tail]

Refusal == Verdict("none", masterSalt, "MSTNAK", IdTail)
Grant(newPhase) == Verdict(newPhase, masterSalt, "RPTACK", IdTail)

\* What the master may make of a request.  A request may be refused for reasons
\* of its own before the system is calm.
Verdicts(m) ==
    LET rightAnswer == phase = "challenged" /\ m.salt = masterSalt
        fits ==
            CASE m.kind = "RPTL" -> {Verdict("challenged", s, "RPTACK", s) : s \in Salt}
              [] m.kind = "RPTK" /\ rightAnswer -> {Grant("authorised")}
              [] m.kind = "RPTC" /\ phase \in {"authorised", "configured"} ->
                    {Grant("configured")}
              [] m.kind \in {"RPTO", "RPTPING"} /\ phase = "configured" ->
                    {Grant("configured")}
              [] OTHER -> {Refusal}
    IN  fits \cup IF calm THEN {} ELSE {Refusal}

\* Whether the answer has a socket to go to.  A ping's is a pong, ignored.
Answers(m, v) ==
    IF (m.old /\ ~fixedPort) \/ (m.kind = "RPTPING" /\ v.answer = "RPTACK")
    THEN {}
    ELSE {[kind |-> v.answer, salt |-> v.tail, old |-> m.old]}

MasterHears ==
    /\ \E m \in net : \E rest \in Left(m) : \E v \in Verdicts(m) :
        /\ m.kind \in MasterRequest \ {"RPTCL"}
        /\ phase' = v.phase
        /\ masterSalt' = v.salt
        /\ net' \in Sent(rest, Answers(m, v))
        /\ granted' = IF v.answer = "RPTACK" /\ ~m.old
                      THEN granted \cup ({m.kind} \cap LoginRequest)
                      ELSE granted
        /\ repeated' = (repeated \/ (rest = net /\ ~m.old))
    /\ UNCHANGED <<pc, config, attempt, late, calm>>

MasterCloses ==
    /\ \E m \in Heard("RPTCL") : net' \in Left(m)
    /\ phase' = "none"
    /\ UNCHANGED <<pc, config, attempt, masterSalt, history, calm>>

\* The master restarts, or drops the session for silence.
MasterForgets ==
    /\ ~calm
    /\ phase # "none"
    /\ phase' = "none"
    /\ UNCHANGED <<pc, config, attempt, net, masterSalt, history, calm>>

\* YSF Direct's server challenges or refuses; its verdict on the answer to the
\* challenge is never waited for and left out.
DirectHears ==
    /\ \E m \in Heard("YSFL") \cup Heard("YSFK") :
        LET answers == IF m.old \/ m.kind = "YSFK" THEN {}
                       ELSE {"YSFACK"} \cup IF calm THEN {} ELSE {"YSFNAK"}
        IN  \/ answers = {} /\ net' = net \ {m}
            \/ \E a \in answers, s \in Salt, rest \in Left(m) :
                net' \in Sent(rest, {[kind |-> a, salt |-> s, old |-> FALSE]})
    /\ UNCHANGED <<pc, config, attempt, server, history, calm>>

CalmDown ==
    /\ ~calm
    /\ calm' = TRUE
    /\ UNCHANGED <<pc, config, attempt, net, server, history>>

-----------------------------------------------------------------------------

Receive == ReceiveChallenge \/ ReceiveAck \/ ReceiveConfigAck \/ Refused
Connect == Start \/ DirectChallenge \/ DirectFails \/ Timeout \/ Retry \/ GiveUp
Servers == MasterHears \/ MasterCloses \/ DirectHears

Next ==
    \/ Receive \/ Connect \/ Ping \/ Stop \/ Crash \/ Unheard
    \/ Servers \/ MasterForgets \/ CalmDown

Spec == Init /\ [][Next]_vars

FairSpec ==
    /\ Spec
    /\ WF_vars(Receive)
    /\ WF_vars(Connect)
    /\ WF_vars(Ping)
    /\ WF_vars(Unheard)
    /\ WF_vars(MasterHears)
    /\ WF_vars(MasterCloses)
    /\ WF_vars(DirectHears)

-----------------------------------------------------------------------------

(***************************************************************************)
(* Properties                                                              *)
(***************************************************************************)

\* AcceptedLogin: a DMR master transport that takes itself for connected has
\* had its login, its password and its configuration accepted by the master,
\* in this very login, if the network repeated none of its datagrams and no
\* answer to an earlier attempt was read.  The condition is the code's limit,
\* not the model's: _wait_for_ack takes any RPTACK for the one it waits for,
\* so a challenge read twice stands for an acceptance, and with a fixed port
\* so does a late answer.  Without one, no late answer can be read, and the
\* master has at least challenged this socket, whatever is repeated.
Connected == pc = "up" /\ backend # "ysf_direct"

AcceptedLogin ==
    Connected =>
        /\ ~repeated /\ ~late => granted = LoginRequest
        /\ ~fixedPort => ~late /\ "RPTL" \in granted

\* Parts of the inductive invariant.  In a login without repeated datagrams
\* and late answers at most one request, or its answer, is under way.
Exchange == {m \in net : ~m.old /\ m.kind \in MasterRequest \cup {"RPTACK"}}

Undisturbed == ~repeated /\ ~late

OneExchange ==
    pc \in Waiting /\ Undisturbed =>
        /\ \A m, n \in Exchange : m = n
        /\ \A m \in Exchange :
            \/ m.kind = Asked[pc]
            \/ m.kind = "RPTACK" /\ Asked[pc] \in granted

\* What was answered was accepted.
EarlierGranted ==
    Undisturbed =>
        /\ pc = "ack" => "RPTL" \in granted
        /\ pc = "config" => {"RPTL", "RPTK"} \subseteq granted

\* Without a fixed port every answer is to this socket, whose first request
\* is the login: nothing else is asked or answered before it was granted.
OwnPort ==
    ~fixedPort =>
        /\ ~late
        /\ \A m \in net : m.kind \in MasterAnswer => ~m.old
        /\ \/ pc \in {"ack", "config"} \/ Connected
           \/ \E m \in Exchange : m.kind \notin {"RPTL", "RPTCL"}
           => "RPTL" \in granted

IInv == TypeOK /\ OneExchange /\ EarlierGranted /\ OwnPort /\ AcceptedLogin

\* Recovers: however the network and the servers have behaved, and wherever
\* that has left the router, once they behave it gets connected: refused and
\* timed out attempts are repeated, and after the last of them the service is
\* started again.
Recovers == calm ~> pc = "up"

\* SessionKept: a session the master has granted is kept, or made again, once
\* the network and the master behave.  docs/CONFIGURATION.md says of the hybrid
\* backend that the DMR master connection is kept.  Does not hold: after
\* connect nobody looks at the master's answers, so a session the master has
\* lost is never made again.
SessionKept ==
    (calm /\ Undisturbed /\ pc = "up" /\ granted = LoginRequest) ~> phase = "configured"

=============================================================================
