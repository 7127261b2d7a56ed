-------------------------- MODULE MasterLogin_proofs --------------------------
(***************************************************************************)
(* Proof that a DMR master transport that is connected was accepted, for   *)
(* any number of attempts, any salts and any number of datagrams under way.*)
(***************************************************************************)
EXTENDS MasterLogin, TLAPS

\* What a send leaves under way: what was there, and part of what is sent.
LEMMA SentBounds ==
    ASSUME NEW u, NEW d, NEW n \in Sent(u, d)
    PROVE  u \subseteq n /\ n \subseteq u \cup d
BY DEF Sent

LEMMA LeftBounds ==
    ASSUME NEW m, NEW rest \in Left(m)
    PROVE  rest \subseteq net /\ (rest # net => rest = net \ {m})
BY DEF Left

\* Closing the socket leaves old datagrams only, and no answer without a
\* fixed port.
LEMMA ClosedIsOld ==
    ASSUME NEW u, u \subseteq Datagram
    PROVE  /\ Closed(u) \subseteq Datagram
           /\ \A m \in Closed(u) : m.old
           /\ ~fixedPort => \A m \in Closed(u) : m.kind \notin MasterAnswer
BY DEF Closed, Datagram

\* OwnPort holds on if the step reads no answer, sends no request beyond the
\* login request, and lets nothing old become an answer.
LEMMA OwnPortStays ==
    ASSUME OwnPort, UNCHANGED config, late' \in {FALSE, late},
           granted \subseteq granted',
           pc' \in {pc, "down", "sleep"},
           \A m \in net' : m.kind \in MasterAnswer /\ ~fixedPort => m \in net \/ ~m.old,
           \A m \in Exchange' : m \in Exchange \/ m.kind \in {"RPTL", "RPTCL"}
    PROVE  OwnPort'
BY DEF OwnPort, Connected, config

\* It holds of a network from which a closed socket has taken what was new.
LEMMA OwnPortAfresh ==
    ASSUME OwnPort, UNCHANGED config, late' \in {FALSE, late},
           pc' \notin {"ack", "config", "up"},
           NEW u, u \subseteq Datagram,
           \A m \in net' : m \in Closed(u) \/ m.kind \in {"RPTL", "YSFL", "YSFK"}
    PROVE  OwnPort'
<1>1. /\ \A m \in Closed(u) : m.old
      /\ ~fixedPort => \A m \in Closed(u) : m.kind \notin MasterAnswer
    BY ClosedIsOld
<1> QED BY <1>1
    DEF OwnPort, Connected, Exchange, MasterAnswer, MasterRequest, LoginRequest, config

LEMMA NewIsDatagram ==
    ASSUME NEW k \in MasterRequest \cup DirectRequest, NEW s \in Salt \cup {IdTail}
    PROVE  /\ New(k, s) \in Datagram
           /\ New(k, s).kind = k
           /\ ~New(k, s).old
BY DEF New, Datagram

\* A new socket begins with its own request and nothing else that is new.
LEMMA OpenSocketStep ==
    ASSUME TypeOK, OwnPort, NEW n \in 1 .. Attempts, NEW u, u \subseteq Datagram,
           NEW r, r \subseteq Datagram, \A m \in r : m.kind = "YSFK",
           OpenSocket(n, u, r), UNCHANGED <<config, server, calm>>
    PROVE  IInv'
<1>1. New("RPTL", IdTail) \in Datagram /\ New("RPTL", IdTail).kind = "RPTL"
    BY NewIsDatagram DEF MasterRequest, LoginRequest
<1>2. /\ pc' = "challenge" /\ attempt' = n /\ granted' = {}
      /\ repeated' \in BOOLEAN /\ late' \in BOOLEAN /\ late' = FALSE
    BY DEF OpenSocket, Afresh
<1>3. net' \subseteq Closed(u) \cup (r \cup {New("RPTL", IdTail)})
    BY SentBounds DEF OpenSocket
<1>4. Closed(u) \subseteq Datagram /\ \A m \in Closed(u) : m.old
    BY ClosedIsOld
<1>5. TypeOK'
    BY <1>1, <1>2, <1>3, <1>4, BoundAssumption DEF TypeOK, config, server, Waiting, Asked
<1>6. Exchange' \subseteq {New("RPTL", IdTail)}
    BY <1>3, <1>4 DEF Exchange, MasterRequest, LoginRequest
<1>7. OneExchange'
    BY <1>1, <1>2, <1>6 DEF OneExchange, Asked
<1>8. EarlierGranted' /\ AcceptedLogin'
    BY <1>2 DEF EarlierGranted, AcceptedLogin, Connected
<1>9. OwnPort'
    BY <1>1, <1>2, <1>3, OwnPortAfresh
<1> QED BY <1>5, <1>7, <1>8, <1>9 DEF IInv

\* Every answer read is to a request of this socket, if each has a port of its
\* own; the master has then accepted the login request.
LEMMA OwnAnswer ==
    ASSUME IInv, NEW m \in Heard("RPTACK"), ~fixedPort
    PROVE  ~m.old /\ "RPTL" \in granted
<1>1. ~m.old
    BY DEF IInv, OwnPort, Heard, MasterAnswer
<1>2. m \in Exchange /\ m.kind \notin {"RPTL", "RPTCL"}
    BY <1>1 DEF Heard, Exchange
<1> QED BY <1>1, <1>2 DEF IInv, OwnPort

\* An answer read: undisturbed, it was the only part of the exchange under way,
\* and what it answers was granted.
LEMMA HearStep ==
    ASSUME IInv, pc \in Waiting, NEW m \in Heard("RPTACK"), NEW rest \in Left(m),
           NEW r, r \subseteq Datagram, \A n \in r : n.kind \notin MasterAnswer,
           net' \in Sent(rest, r),
           repeated' = (repeated \/ (rest = net /\ ~m.old)),
           late' = (late \/ m.old),
           UNCHANGED <<config, attempt, server, granted, calm>>
    PROVE  /\ net' \subseteq Datagram /\ repeated' \in BOOLEAN /\ late' \in BOOLEAN
           /\ Undisturbed' => /\ Undisturbed
                              /\ Exchange' \subseteq r
                              /\ Asked[pc] \in granted
           /\ OwnPort'
<1>1. rest \subseteq net /\ (rest # net => rest = net \ {m})
    BY LeftBounds
<1>2. net' \subseteq rest \cup r
    BY SentBounds
<1>3. net \subseteq Datagram
    BY DEF IInv, TypeOK
<1>4. m.old \in BOOLEAN /\ m.kind = "RPTACK"
    BY <1>3 DEF Heard, Datagram
<1>5. ASSUME Undisturbed'
      PROVE  Undisturbed /\ Exchange' \subseteq r /\ Asked[pc] \in granted
    <2>1. Undisturbed /\ rest = net \ {m} /\ m \in Exchange
        BY <1>1, <1>4, <1>5 DEF Heard, Exchange, Undisturbed, IInv, TypeOK
    <2>2. Exchange = {m}
        BY <2>1 DEF IInv, OneExchange
    <2>3. Asked[pc] \in granted
        BY <1>4, <2>1 DEF IInv, OneExchange, Waiting, Asked
    <2>4. Exchange' \subseteq (Exchange \ {m}) \cup r
        BY <1>2, <2>1 DEF Exchange
    <2> QED BY <2>1, <2>2, <2>3, <2>4
<1>6. OwnPort'
    BY <1>1, <1>2, OwnAnswer DEF IInv, OwnPort, config
<1> QED BY <1>1, <1>2, <1>3, <1>4, <1>5, <1>6 DEF IInv, TypeOK

LEMMA ReceiveChallengeStep == IInv /\ ReceiveChallenge => IInv'
<1> SUFFICES ASSUME IInv, ReceiveChallenge PROVE IInv'
    OBVIOUS
<1>1. PICK m \in Heard("RPTACK"), rest \in SUBSET net :
        /\ rest \in Left(m)
        /\ pc' = "ack"
        /\ net' \in Sent(rest, {New("RPTK", m.salt)})
        /\ repeated' = (repeated \/ (rest = net /\ ~m.old))
        /\ late' = (late \/ m.old)
        /\ UNCHANGED <<config, attempt, server, granted, calm>>
    BY LeftBounds DEF ReceiveChallenge, Hear
<1>2. pc = "challenge" /\ Asked[pc] = "RPTL" /\ pc \in Waiting
    BY DEF ReceiveChallenge, Asked, Waiting
<1>3. m.salt \in Salt \cup {IdTail}
    BY DEF IInv, TypeOK, Heard, Datagram
<1>4. New("RPTK", m.salt) \in Datagram /\ New("RPTK", m.salt).kind = "RPTK"
    BY <1>3, NewIsDatagram DEF MasterRequest, LoginRequest
<1>5. /\ net' \subseteq Datagram /\ repeated' \in BOOLEAN /\ late' \in BOOLEAN
      /\ Undisturbed' => Exchange' \subseteq {New("RPTK", m.salt)} /\ "RPTL" \in granted
      /\ OwnPort'
    BY <1>1, <1>2, <1>4, HearStep DEF MasterAnswer
<1>6. TypeOK'
    BY <1>1, <1>5 DEF IInv, TypeOK, config, server, Waiting, Asked
<1>7. OneExchange'
    BY <1>1, <1>4, <1>5 DEF OneExchange, Asked
<1>8. EarlierGranted' /\ AcceptedLogin'
    BY <1>1, <1>5 DEF EarlierGranted, AcceptedLogin, Connected
<1> QED BY <1>5, <1>6, <1>7, <1>8 DEF IInv

LEMMA ReceiveAckStep == IInv /\ ReceiveAck => IInv'
<1> SUFFICES ASSUME IInv, ReceiveAck PROVE IInv'
    OBVIOUS
<1>1. PICK m \in Heard("RPTACK"), rest \in SUBSET net :
        /\ rest \in Left(m)
        /\ pc' = "config"
        /\ net' \in Sent(rest, {New("RPTC", IdTail)})
        /\ repeated' = (repeated \/ (rest = net /\ ~m.old))
        /\ late' = (late \/ m.old)
        /\ UNCHANGED <<config, attempt, server, granted, calm>>
    BY LeftBounds DEF ReceiveAck, Hear
<1>2. pc = "ack" /\ Asked[pc] = "RPTK" /\ pc \in Waiting
    BY DEF ReceiveAck, Asked, Waiting
<1>3. New("RPTC", IdTail) \in Datagram /\ New("RPTC", IdTail).kind = "RPTC"
    BY NewIsDatagram DEF MasterRequest, LoginRequest
<1>4. /\ net' \subseteq Datagram /\ repeated' \in BOOLEAN /\ late' \in BOOLEAN
      /\ Undisturbed' => /\ Undisturbed
                         /\ Exchange' \subseteq {New("RPTC", IdTail)}
                         /\ "RPTK" \in granted
      /\ OwnPort'
    BY <1>1, <1>2, <1>3, HearStep DEF MasterAnswer
<1>5. TypeOK'
    BY <1>1, <1>4 DEF IInv, TypeOK, config, server, Waiting, Asked
<1>6. OneExchange'
    BY <1>1, <1>3, <1>4 DEF OneExchange, Asked
<1>7. EarlierGranted' /\ AcceptedLogin'
    BY <1>1, <1>2, <1>4 DEF IInv, EarlierGranted, AcceptedLogin, Connected
<1> QED BY <1>4, <1>5, <1>6, <1>7 DEF IInv

LEMMA ReceiveConfigAckStep == IInv /\ ReceiveConfigAck => IInv'
<1> SUFFICES ASSUME IInv, ReceiveConfigAck PROVE IInv'
    OBVIOUS
<1>1. PICK options \in SUBSET {New("RPTO", IdTail)}, m \in Heard("RPTACK"),
           rest \in SUBSET net :
        /\ rest \in Left(m)
        /\ pc' = "up"
        /\ net' \in Sent(rest, options)
        /\ repeated' = (repeated \/ (rest = net /\ ~m.old))
        /\ late' = (late \/ m.old)
        /\ UNCHANGED <<config, attempt, server, granted, calm>>
    BY LeftBounds DEF ReceiveConfigAck, Hear
<1>2. pc = "config" /\ Asked[pc] = "RPTC" /\ pc \in Waiting
    BY DEF ReceiveConfigAck, Asked, Waiting
<1>3. options \subseteq Datagram /\ \A n \in options : n.kind \notin MasterAnswer
    BY NewIsDatagram DEF MasterRequest, MasterAnswer
<1>4. /\ net' \subseteq Datagram /\ repeated' \in BOOLEAN /\ late' \in BOOLEAN
      /\ Undisturbed' => Undisturbed /\ "RPTC" \in granted
      /\ OwnPort'
    BY <1>1, <1>2, <1>3, HearStep
<1>5. TypeOK'
    BY <1>1, <1>4 DEF IInv, TypeOK, config, server
<1>6. OneExchange' /\ EarlierGranted'
    BY <1>1 DEF OneExchange, EarlierGranted, Waiting, Asked
<1>7. Undisturbed' => granted' = LoginRequest
    BY <1>1, <1>2, <1>4 DEF IInv, TypeOK, EarlierGranted, LoginRequest
<1>8. AcceptedLogin'
    BY <1>4, <1>7 DEF OwnPort, AcceptedLogin, Undisturbed
<1> QED BY <1>4, <1>5, <1>6, <1>8 DEF IInv

\* While no login waits and none is up, types and OwnPort are all there is.
LEMMA IdleStep ==
    ASSUME TypeOK', OwnPort', pc' \notin Waiting, pc' # "up"
    PROVE  IInv'
BY DEF IInv, OneExchange, EarlierGranted, AcceptedLogin, Connected, Waiting, Asked

LEMMA StartStep == IInv /\ Start => IInv'
<1> SUFFICES ASSUME IInv, Start PROVE IInv'
    OBVIOUS
<1>1. TypeOK /\ OwnPort /\ net \subseteq Datagram
    BY DEF IInv, TypeOK
<1>2. CASE backend = "dmr_master"
    <2>1. OpenSocket(1, net, {}) /\ UNCHANGED <<config, server, calm>>
        BY <1>2 DEF Start
    <2>2. 1 \in 1 .. Attempts
        BY BoundAssumption
    <2> QED BY <1>1, <2>1, <2>2, OpenSocketStep
<1>3. CASE backend # "dmr_master"
    <2>1. /\ pc' = "direct" /\ attempt' = 0 /\ granted' = {}
          /\ repeated' \in BOOLEAN /\ late' \in BOOLEAN /\ late' = FALSE
          /\ net' \in Sent(Closed(net), {New("YSFL", IdTail)})
          /\ UNCHANGED <<config, server, calm>>
        BY <1>3 DEF Start, Afresh
    <2>2. net' \subseteq Closed(net) \cup {New("YSFL", IdTail)}
        BY <2>1, SentBounds
    <2>3. New("YSFL", IdTail) \in Datagram /\ New("YSFL", IdTail).kind = "YSFL"
        BY NewIsDatagram DEF DirectRequest
    <2>4. net' \subseteq Datagram
        BY <1>1, <2>2, <2>3, ClosedIsOld
    <2>5. TypeOK'
        BY <1>1, <2>1, <2>4, BoundAssumption DEF TypeOK, config, server
    <2>6. OwnPort'
        BY <1>1, <2>1, <2>2, <2>3, OwnPortAfresh
    <2> QED BY <2>1, <2>5, <2>6, IdleStep DEF Waiting, Asked
<1> QED BY <1>2, <1>3

LEMMA DirectChallengeStep == IInv /\ DirectChallenge => IInv'
<1> SUFFICES ASSUME IInv, DirectChallenge PROVE IInv'
    OBVIOUS
<1>1. TypeOK /\ OwnPort /\ net \subseteq Datagram
    BY DEF IInv, TypeOK
<1>2. PICK m \in Heard("YSFACK"), rest \in SUBSET net :
        /\ rest \in Left(m)
        /\ IF backend = "ysf_direct"
           THEN /\ pc' = "up"
                /\ net' \in Sent(rest, {New("YSFK", m.salt)})
                /\ UNCHANGED <<attempt, history>>
           ELSE OpenSocket(1, rest, {New("YSFK", m.salt)})
    BY LeftBounds DEF DirectChallenge
<1>3. UNCHANGED <<config, server, calm>>
    BY DEF DirectChallenge
<1>4. m.salt \in Salt \cup {IdTail} /\ rest \subseteq Datagram /\ rest \subseteq net
    BY <1>1, LeftBounds DEF Heard, Datagram
<1>5. New("YSFK", m.salt) \in Datagram /\ New("YSFK", m.salt).kind = "YSFK"
    BY <1>4, NewIsDatagram DEF DirectRequest
<1>6. CASE backend = "ysf_direct"
    <2>1. net' \subseteq rest \cup {New("YSFK", m.salt)}
        BY <1>2, <1>6, SentBounds
    <2>2. TypeOK'
        BY <1>1, <1>2, <1>3, <1>4, <1>5, <1>6, <2>1 DEF TypeOK, config, server, history
    <2>3. OneExchange' /\ EarlierGranted' /\ AcceptedLogin'
        BY <1>2, <1>3, <1>6
        DEF OneExchange, EarlierGranted, AcceptedLogin, Connected, Waiting, Asked, config
    <2>4. OwnPort'
        BY <1>1, <1>2, <1>3, <1>4, <1>5, <1>6, <2>1
        DEF OwnPort, Connected, Exchange, MasterAnswer, MasterRequest, LoginRequest,
            config, history
    <2> QED BY <2>2, <2>3, <2>4 DEF IInv
<1>7. CASE backend # "ysf_direct"
    <2>1. 1 \in 1 .. Attempts
        BY BoundAssumption
    <2> QED BY <1>1, <1>2, <1>3, <1>4, <1>5, <1>7, <2>1, OpenSocketStep
<1> QED BY <1>6, <1>7

LEMMA DirectFailsStep == IInv /\ DirectFails => IInv'
<1> SUFFICES ASSUME IInv, DirectFails PROVE IInv'
    OBVIOUS
<1>1. net' \subseteq net
    BY LeftBounds DEF DirectFails
<1>2. TypeOK' /\ pc' = "down" /\ UNCHANGED <<config, history>>
    BY <1>1 DEF IInv, TypeOK, DirectFails, config, server, history
<1>3. OwnPort'
    BY <1>1, <1>2, OwnPortStays DEF IInv, history, Exchange
<1> QED BY <1>2, <1>3, IdleStep DEF Waiting, Asked

\* Refused and Timeout: the socket is closed.
LEMMA CloseStep ==
    ASSUME IInv, NEW rest, rest \subseteq net, net' = Closed(rest), pc' = "sleep",
           UNCHANGED <<config, attempt, server, history, calm>>
    PROVE  IInv'
<1>1. rest \subseteq Datagram
    BY DEF IInv, TypeOK
<1>2. TypeOK'
    BY <1>1, ClosedIsOld DEF IInv, TypeOK, config, server, history
<1>3. OwnPort'
    BY <1>1, OwnPortAfresh DEF IInv, history
<1> QED BY <1>2, <1>3, IdleStep DEF Waiting, Asked

LEMMA RefusedStep == IInv /\ Refused => IInv'
<1> SUFFICES ASSUME IInv, Refused PROVE IInv'
    OBVIOUS
<1>1. PICK m \in Heard("MSTNAK"), rest \in SUBSET net : net' = Closed(rest)
    BY LeftBounds DEF Refused
<1> QED BY <1>1, CloseStep DEF Refused

LEMMA TimeoutStep == IInv /\ Timeout => IInv'
BY CloseStep DEF Timeout

LEMMA RetryStep == IInv /\ Retry => IInv'
<1> SUFFICES ASSUME IInv, Retry PROVE IInv'
    OBVIOUS
<1>1. TypeOK /\ OwnPort /\ net \subseteq Datagram /\ attempt \in 0 .. Attempts
    BY DEF IInv, TypeOK
<1>2. attempt + 1 \in 1 .. Attempts
    BY <1>1, BoundAssumption DEF Retry
<1>3. OpenSocket(attempt + 1, net, {}) /\ UNCHANGED <<config, server, calm>>
    BY DEF Retry
<1> QED BY <1>1, <1>2, <1>3, OpenSocketStep

\* GiveUp, Stop and Crash.
LEMMA EndStep == IInv /\ (GiveUp \/ Stop \/ Crash) => IInv'
<1> SUFFICES ASSUME IInv, GiveUp \/ Stop \/ Crash PROVE IInv'
    OBVIOUS
<1>1. pc' = "down" /\ UNCHANGED <<config, attempt, server, history, calm>>
    BY DEF GiveUp, Stop, Crash
<1>2. New("RPTCL", IdTail) \in Datagram /\ New("RPTCL", IdTail).kind = "RPTCL"
    BY NewIsDatagram DEF MasterRequest
<1>3. net' \subseteq net \cup {New("RPTCL", IdTail)}
    BY SentBounds DEF GiveUp, Stop, Crash
<1>4. TypeOK'
    BY <1>1, <1>2, <1>3 DEF IInv, TypeOK, config, server, history
<1>5. OwnPort'
    BY <1>1, <1>2, <1>3, OwnPortStays DEF IInv, history, Exchange, MasterAnswer
<1> QED BY <1>1, <1>4, <1>5, IdleStep DEF Waiting, Asked

LEMMA PingStep == IInv /\ Ping => IInv'
<1> SUFFICES ASSUME IInv, Ping PROVE IInv'
    OBVIOUS
<1>1. pc = "up" /\ UNCHANGED <<pc, config, attempt, server, history, calm>>
    BY DEF Ping
<1>2. New("RPTPING", IdTail) \in Datagram /\ New("RPTPING", IdTail).kind = "RPTPING"
    BY NewIsDatagram DEF MasterRequest
<1>3. /\ net' \subseteq net \cup {New("RPTPING", IdTail)}
      /\ backend = "ysf_direct" => net' = net
    BY SentBounds DEF Ping
<1>4. TypeOK'
    BY <1>1, <1>2, <1>3 DEF IInv, TypeOK, config, server, history
<1>5. OneExchange' /\ EarlierGranted' /\ AcceptedLogin'
    BY <1>1 DEF IInv, OneExchange, EarlierGranted, AcceptedLogin, Connected, Waiting,
       Asked, config, history
<1>6. OwnPort'
    BY <1>1, <1>2, <1>3
    DEF IInv, OwnPort, Connected, Exchange, MasterAnswer, config, history
<1> QED BY <1>4, <1>5, <1>6 DEF IInv

\* A step that leaves the login alone and sends nothing new of the exchange.
LEMMA BesideStep ==
    ASSUME IInv, net' \subseteq Datagram, Exchange' \subseteq Exchange,
           \A m \in net' : m.kind \in MasterAnswer => m \in net,
           phase' \in {"none", phase}, calm' \in BOOLEAN,
           UNCHANGED <<pc, config, attempt, masterSalt, history>>
    PROVE  IInv'
<1>1. TypeOK'
    BY DEF IInv, TypeOK, config, history
<1>2. OneExchange' /\ EarlierGranted' /\ AcceptedLogin'
    BY DEF IInv, OneExchange, EarlierGranted, AcceptedLogin, Connected, Undisturbed,
       config, history
<1>3. OwnPort'
    BY OwnPortStays DEF IInv, history
<1> QED BY <1>1, <1>2, <1>3 DEF IInv

\* Unheard, MasterCloses, MasterForgets and CalmDown.
LEMMA FewerStep ==
    IInv /\ (Unheard \/ MasterCloses \/ MasterForgets \/ CalmDown) => IInv'
<1> SUFFICES ASSUME IInv, Unheard \/ MasterCloses \/ MasterForgets \/ CalmDown
             PROVE IInv'
    OBVIOUS
<1>1. net' \subseteq net
    BY LeftBounds DEF Unheard, MasterCloses, MasterForgets, CalmDown
<1>2. Exchange' \subseteq Exchange /\ net' \subseteq Datagram
    BY <1>1 DEF Exchange, IInv, TypeOK
<1>3. /\ UNCHANGED <<pc, config, attempt, masterSalt, history>>
      /\ phase' \in {"none", phase} /\ calm' \in BOOLEAN
    BY DEF Unheard, MasterCloses, MasterForgets, CalmDown, server, IInv, TypeOK
<1> QED BY <1>1, <1>2, <1>3, BesideStep

LEMMA DirectHearsStep == IInv /\ DirectHears => IInv'
<1> SUFFICES ASSUME IInv, DirectHears PROVE IInv'
    OBVIOUS
<1>1. PICK answers \in SUBSET DirectAnswer, m \in net :
        \/ net' = net \ {m}
        \/ \E a \in answers, s \in Salt, rest \in Left(m) :
             net' \in Sent(rest, {[kind |-> a, salt |-> s, old |-> FALSE]})
    BY DEF DirectHears, Heard, DirectAnswer
<1>2. /\ net' \subseteq Datagram
      /\ \A n \in net' : n \in net \/ n.kind \in DirectAnswer
    <2>1. CASE net' = net \ {m}
        BY <2>1 DEF IInv, TypeOK
    <2>2. ASSUME NEW a \in answers, NEW s \in Salt, NEW rest \in Left(m),
                 net' \in Sent(rest, {[kind |-> a, salt |-> s, old |-> FALSE]})
          PROVE  <1>2!1 /\ <1>2!2
        <3>1. net' \subseteq rest \cup {[kind |-> a, salt |-> s, old |-> FALSE]}
            BY <2>2, SentBounds
        <3>2. rest \subseteq net /\ net \subseteq Datagram
            BY LeftBounds DEF IInv, TypeOK
        <3>3. /\ [kind |-> a, salt |-> s, old |-> FALSE] \in Datagram
              /\ [kind |-> a, salt |-> s, old |-> FALSE].kind \in DirectAnswer
            BY DEF Datagram
        <3> QED BY <3>1, <3>2, <3>3
    <2> QED BY <1>1, <2>1, <2>2
<1>3. Exchange' \subseteq Exchange
    BY <1>2 DEF Exchange, DirectAnswer, MasterRequest, LoginRequest
<1>5. \A n \in net' : n.kind \in MasterAnswer => n \in net
    BY <1>2 DEF DirectAnswer, MasterAnswer
<1>4. UNCHANGED <<pc, config, attempt, server, history, calm>>
    BY DEF DirectHears
<1> QED BY <1>2, <1>3, <1>4, <1>5, BesideStep DEF server, IInv, TypeOK

LEMMA VerdictBounds ==
    ASSUME TypeOK, NEW m \in net, NEW v \in Verdicts(m)
    PROVE  /\ v.phase \in {"none", "challenged", "authorised", "configured"}
           /\ v.salt \in Salt \cup {IdTail}
           /\ v.answer \in MasterAnswer
           /\ v.tail \in Salt \cup {IdTail}
BY DEF TypeOK, Verdicts, Verdict, Refusal, Grant, MasterAnswer

LEMMA MasterHearsStep == IInv /\ MasterHears => IInv'
<1> SUFFICES ASSUME IInv, MasterHears PROVE IInv'
    OBVIOUS
<1>1. PICK m, rest, v :
        /\ m \in net /\ rest \in Left(m) /\ v \in Verdicts(m)
        /\ m.kind \in MasterRequest \ {"RPTCL"}
        /\ phase' = v.phase
        /\ masterSalt' = v.salt
        /\ net' \in Sent(rest, Answers(m, v))
        /\ granted' = IF v.answer = "RPTACK" /\ ~m.old
                      THEN granted \cup ({m.kind} \cap LoginRequest)
                      ELSE granted
        /\ repeated' = (repeated \/ (rest = net /\ ~m.old))
    BY DEF MasterHears
<1>2. UNCHANGED <<pc, config, attempt, late, calm>>
    BY DEF MasterHears
<1>3. TypeOK /\ net \subseteq Datagram
    BY DEF IInv, TypeOK
<1>4. /\ v.phase \in {"none", "challenged", "authorised", "configured"}
      /\ v.salt \in Salt \cup {IdTail}
      /\ v.answer \in MasterAnswer
      /\ v.tail \in Salt \cup {IdTail}
    BY <1>1, <1>3, VerdictBounds
<1>5. rest \subseteq net /\ (rest # net => rest = net \ {m})
    BY <1>1, LeftBounds
<1>6. net' \subseteq rest \cup Answers(m, v)
    BY <1>1, SentBounds
<1>7. m.old \in BOOLEAN
    BY <1>1, <1>3 DEF Datagram
<1>8. Answers(m, v) \subseteq {[kind |-> v.answer, salt |-> v.tail, old |-> m.old]}
    BY DEF Answers
<1>9. Answers(m, v) \subseteq Datagram
    BY <1>4, <1>7, <1>8 DEF Datagram
<1>10. granted \subseteq granted' /\ granted' \subseteq LoginRequest
    BY <1>1, <1>3 DEF TypeOK
<1>11. TypeOK'
    BY <1>1, <1>2, <1>3, <1>4, <1>5, <1>6, <1>9, <1>10 DEF TypeOK, config
<1>12. ASSUME pc \in Waiting, Undisturbed'
       PROVE  /\ \A k, n \in Exchange' : k = n
              /\ \A n \in Exchange' :
                   \/ n.kind = Asked[pc]
                   \/ n.kind = "RPTACK" /\ Asked[pc] \in granted'
    <2>0. Undisturbed /\ (rest = net => m.old)
        BY <1>1, <1>2, <1>3, <1>12 DEF Undisturbed, TypeOK
    <2>1. /\ \A k, n \in Exchange : k = n
          /\ \A n \in Exchange :
               \/ n.kind = Asked[pc]
               \/ n.kind = "RPTACK" /\ Asked[pc] \in granted
        BY <1>12, <2>0 DEF IInv, OneExchange
    <2>2. CASE m.old
        <3>1. Exchange' \subseteq Exchange
            BY <1>5, <1>6, <1>8, <2>2 DEF Exchange
        <3> QED BY <1>10, <2>1, <3>1
    <2>3. CASE ~m.old
        <3>1. m \in Exchange /\ rest = net \ {m} /\ m.kind = Asked[pc]
            BY <1>1, <1>5, <2>0, <2>1, <2>3
            DEF Exchange, MasterRequest, LoginRequest
        <3>2. Exchange' \subseteq (Exchange \ {m}) \cup Answers(m, v)
            BY <1>6, <3>1 DEF Exchange
        <3>3. Exchange' \subseteq {[kind |-> v.answer, salt |-> v.tail, old |-> m.old]}
            BY <1>8, <2>1, <3>1, <3>2
        <3>4. \A n \in Exchange' : n.kind = "RPTACK" /\ v.answer = "RPTACK"
            BY <1>4, <3>3 DEF Exchange, MasterAnswer, MasterRequest, LoginRequest
        <3>5. Asked[pc] \in LoginRequest
            BY <1>12 DEF Waiting, Asked, LoginRequest
        <3>6. v.answer = "RPTACK" => Asked[pc] \in granted'
            BY <1>1, <2>3, <3>1, <3>5
        <3> QED BY <3>3, <3>4, <3>6
    <2> QED BY <2>2, <2>3
<1>13. OneExchange'
    BY <1>2, <1>12 DEF OneExchange
<1>14. EarlierGranted' /\ AcceptedLogin'
    BY <1>1, <1>2, <1>3, <1>10
    DEF IInv, TypeOK, EarlierGranted, AcceptedLogin, Connected, Undisturbed, config
<1>15. OwnPort'
    <2>1. SUFFICES ASSUME ~fixedPort PROVE OwnPort'
        BY <1>2 DEF OwnPort, config
    <2>2. ~late' /\ \A n \in net' : n.kind \in MasterAnswer => ~n.old
        BY <1>2, <1>5, <1>6, <1>8, <2>1 DEF IInv, OwnPort, Answers
    <2>3. ASSUME NEW n \in Exchange', n.kind \notin {"RPTL", "RPTCL"}
          PROVE  "RPTL" \in granted'
        \* It was under way before, or answers the login request, or one sent
        \* after the login was granted.
        <3>1. CASE n \in net
            BY <1>10, <2>1, <2>3, <3>1 DEF IInv, OwnPort, Exchange
        <3>2. CASE n \notin net
            <4>1. n \in Answers(m, v) /\ n.kind = v.answer /\ n.old = m.old /\ ~n.old
                BY <1>5, <1>6, <1>8, <2>3, <3>2 DEF Exchange
            <4>2. v.answer = "RPTACK" /\ ~m.old
                BY <1>4, <2>3, <4>1 DEF Exchange, MasterAnswer, MasterRequest, LoginRequest
            <4>3. m \in Exchange
                BY <1>1, <4>2 DEF Exchange
            <4>4. CASE m.kind = "RPTL"
                BY <1>1, <4>2, <4>4 DEF LoginRequest
            <4>5. CASE m.kind # "RPTL"
                BY <1>1, <1>10, <2>1, <4>3, <4>5 DEF IInv, OwnPort
            <4> QED BY <4>4, <4>5
        <3> QED BY <3>1, <3>2
    <2>4. pc' \in {"ack", "config"} \/ Connected' => "RPTL" \in granted'
        BY <1>2, <1>10, <2>1 DEF IInv, OwnPort, Connected, config
    <2> QED BY <2>2, <2>3, <2>4 DEF OwnPort
<1> QED BY <1>11, <1>13, <1>14, <1>15 DEF IInv

LEMMA InitStep == Init => IInv
<1> SUFFICES ASSUME Init PROVE IInv
    OBVIOUS
<1>1. 0 \in 0 .. Attempts
    BY BoundAssumption
<1>2. TypeOK
    BY <1>1 DEF Init, TypeOK
<1>3. OneExchange /\ EarlierGranted /\ AcceptedLogin
    BY DEF Init, OneExchange, EarlierGranted, AcceptedLogin, Connected, Waiting, Asked
<1>4. OwnPort
    BY DEF Init, OwnPort, Connected, Exchange
<1> QED BY <1>2, <1>3, <1>4 DEF IInv

LEMMA NextStep == IInv /\ [Next]_vars => IInv'
<1>1. IInv /\ UNCHANGED vars => IInv'
    BY DEF vars, config, server, history, IInv, TypeOK, OneExchange, EarlierGranted,
           OwnPort, AcceptedLogin, Connected, Undisturbed, Exchange
<1> QED
    BY <1>1, ReceiveChallengeStep, ReceiveAckStep, ReceiveConfigAckStep, RefusedStep,
       StartStep, DirectChallengeStep, DirectFailsStep, TimeoutStep, RetryStep,
       EndStep, PingStep, FewerStep, MasterHearsStep, DirectHearsStep
    DEF Next, Receive, Connect, Servers

\* IInv holds for any salts, backends, attempts and capacity of the network.
THEOREM Invariance == Spec => []IInv
BY InitStep, NextStep, PTL DEF Spec

\* What connected means, for any number of attempts and datagrams under way:
\* the master accepted login, password and configuration in this login,
\* if none of its datagrams was repeated and no answer to an earlier attempt
\* was read; without a fixed port the second never happens, and the login
\* request was accepted even if datagrams are repeated (AcceptedLogin).  It
\* says nothing of the rest, where the code is connected unaccepted: an RPTACK
\* read twice, and with a fixed port a late one.
THEOREM AcceptedInLogin == Spec => []AcceptedLogin
<1>1. IInv => AcceptedLogin
    BY DEF IInv
<1> QED BY <1>1, Invariance, PTL

=============================================================================
