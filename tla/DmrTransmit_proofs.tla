-------------------------- MODULE DmrTransmit_proofs --------------------------
(***************************************************************************)
(* DmrTransmit's inductive invariant IInv, for all talkgroups, stream ids, *)
(* intervals, bounds and every range of the sequence number, and what      *)
(* follows from it: the master receives whole calls, in step and paced.    *)
(***************************************************************************)
EXTENDS DmrTransmit, SequenceTheorems, TLAPS

USE DEF None, Headers, Superframe

-----------------------------------------------------------------------------
\* The queue.

\* What a concatenation holds, and where.
LEMMA Concatenated ==
    ASSUME NEW q \in Seq(Packet), NEW f \in Seq(Packet)
    PROVE  /\ q \o f \in Seq(Packet)
           /\ Len(q \o f) = Len(q) + Len(f)
           /\ \A i \in 1 .. Len(q) : (q \o f)[i] = q[i]
           /\ \A i \in 1 .. Len(f) : (q \o f)[Len(q) + i] = f[i]
           /\ \A i \in Len(q) + 1 .. Len(q) + Len(f) :
                 (q \o f)[i] = f[i - Len(q)] /\ i - Len(q) \in 1 .. Len(f)
           /\ Len(q) \in Nat /\ Len(f) \in Nat
  <1>1. /\ q \o f \in Seq(Packet)
        /\ Len(q \o f) = Len(q) + Len(f)
        /\ Len(q) \in Nat /\ Len(f) \in Nat
    BY ConcatProperties, LenProperties
  <1>2. \A i \in 1 .. Len(q) + Len(f) :
           (q \o f)[i] = IF i <= Len(q) THEN q[i] ELSE f[i - Len(q)]
    BY ConcatProperties
  <1>3. QED
    BY <1>1, <1>2

\* What a tail holds.
LEMMA Popped ==
    ASSUME NEW q \in Seq(Packet), q # <<>>
    PROVE  /\ Tail(q) \in Seq(Packet)
           /\ Head(q) = q[1]
           /\ Head(q) \in Packet
           /\ Len(q) \in Nat \ {0}
           /\ Len(Tail(q)) = Len(q) - 1
           /\ \A i \in 1 .. Len(q) - 1 : Tail(q)[i] = q[i + 1]
           /\ Tail(q) = <<>> <=> Len(q) = 1
  <1>1. Len(q) \in Nat \ {0}
    BY EmptySeq
  <1>2. /\ Head(q) \in Packet /\ Tail(q) \in Seq(Packet)
        /\ Len(Tail(q)) = Len(q) - 1
        /\ \A i \in 1 .. Len(Tail(q)) : Tail(q)[i] = q[i + 1]
    BY HeadTailProperties
  <1>3. Head(q) = q[1]
    BY <1>1
  <1>4. Tail(q) = <<>> <=> Len(q) = 1
    BY <1>1, <1>2, EmptySeq
  <1>5. QED
    BY <1>1, <1>2, <1>3, <1>4

LEMMA ChainPop ==
    ASSUME NEW q \in Seq(Packet), q # <<>>, NEW a, NEW b, Chained(a, q),
           b.kind = Head(q).kind, b.nth = Head(q).nth
    PROVE  Chained(b, Tail(q))
  <1>1. SUFFICES ASSUME NEW i \in 1 .. Len(Tail(q))
                 PROVE  Follows(IF i = 1 THEN b ELSE Tail(q)[i - 1], Tail(q)[i])
    BY DEF Chained
  <1>2. Follows(q[i], q[i + 1])
    BY <1>1, Popped DEF Chained
  <1>3. CASE i = 1
    BY <1>1, <1>2, <1>3, Popped DEF Follows, Begins
  <1>4. CASE i # 1
    BY <1>1, <1>2, <1>4, Popped
  <1>5. QED
    BY <1>3, <1>4

LEMMA ChainConcat ==
    ASSUME NEW q \in Seq(Packet), NEW f \in Seq(Packet), NEW a,
           Chained(a, q), Chained(LastPacket(a, q), f)
    PROVE  Chained(a, q \o f)
  <1>1. SUFFICES ASSUME NEW i \in 1 .. Len(q \o f)
                 PROVE  Follows(IF i = 1 THEN a ELSE (q \o f)[i - 1], (q \o f)[i])
    BY DEF Chained
  <1>2. i \in 1 .. Len(q) + Len(f) /\ Len(q) \in Nat /\ Len(f) \in Nat
    BY <1>1, Concatenated
  <1>3. CASE i <= Len(q)
    BY <1>2, <1>3, Concatenated DEF Chained
  <1>4. CASE i = Len(q) + 1
    <2>1. Follows(LastPacket(a, q), f[1])
      BY <1>2, <1>4 DEF Chained
    <2>2. (q \o f)[i] = f[1]
      BY <1>2, <1>4, Concatenated
    <2>3. LastPacket(a, q) = IF i = 1 THEN a ELSE (q \o f)[i - 1]
      BY <1>2, <1>4, Concatenated, EmptySeq DEF LastPacket
    <2>4. QED
      BY <2>1, <2>2, <2>3
  <1>5. CASE i > Len(q) + 1
    <2>1. i - Len(q) \in 2 .. Len(f)
      BY <1>2, <1>5
    <2>2. Follows(f[i - Len(q) - 1], f[i - Len(q)])
      BY <2>1, <1>2 DEF Chained
    <2>3. (q \o f)[i] = f[i - Len(q)] /\ (q \o f)[i - 1] = f[i - Len(q) - 1]
      <3>1. i \in Len(q) + 1 .. Len(q) + Len(f) /\ i - 1 \in Len(q) + 1 .. Len(q) + Len(f)
        BY <1>2, <1>5
      <3>2. (i - 1) - Len(q) = i - Len(q) - 1
        BY <1>2
      <3>3. QED
        BY <3>1, <3>2, Concatenated
    <2>4. QED
      BY <2>2, <2>3, <1>5, <1>2
  <1>6. QED
    BY <1>2, <1>3, <1>4, <1>5

\* The last packet of a concatenation is the last of what was appended.
LEMMA LastConcat ==
    ASSUME NEW q \in Seq(Packet), NEW f \in Seq(Packet), f # <<>>, NEW a
    PROVE  LastPacket(a, q \o f) = f[Len(f)]
  <1>1. Len(f) \in Nat \ {0}
    BY EmptySeq, LenProperties
  <1>2. q \o f # <<>>
    BY <1>1, Concatenated
  <1>3. (q \o f)[Len(q) + Len(f)] = f[Len(f)]
    BY <1>1, Concatenated
  <1>4. QED
    BY <1>2, <1>3, Concatenated DEF LastPacket

-----------------------------------------------------------------------------
\* Arithmetic.

LEMMA Remainder ==
    ASSUME NEW a \in Int
    PROVE  a % Superframe \in 0 .. Superframe - 1
  OBVIOUS

LEMMA NextPlace ==
    ASSUME NEW a \in Int, NEW k \in Nat
    PROVE  (a + k) % Superframe = ((a % Superframe) + k) % Superframe
  OBVIOUS

LEMMA NextNumber ==
    ASSUME NEW n \in 0 .. SequenceSpan - 1
    PROVE  /\ Successor(n) \in 0 .. SequenceSpan - 1
           /\ Successor(n) # 0 => Successor(n) = n + 1
  <1>1. SequenceSpan \in Nat /\ SequenceSpan > 3
    BY SpanAssumption
  <1>2. CASE n + 1 < SequenceSpan
    <2>1. (n + 1) % SequenceSpan = n + 1
      BY <1>1, <1>2
    <2>2. QED
      BY <1>1, <1>2, <2>1 DEF Successor
  <1>3. CASE n + 1 = SequenceSpan
    <2>1. SequenceSpan % SequenceSpan = 0
      BY <1>1
    <2>2. QED
      BY <1>1, <1>3, <2>1 DEF Successor
  <1>4. QED
    BY <1>1, <1>2, <1>3

LEMMA OlderAge ==
    ASSUME NEW age \in None .. MaxAge
    PROVE  /\ Older(age) \in None .. MaxAge
           /\ Older(age) = None <=> age = None
           /\ age # None => Older(age) \in {age, age + 1}
           /\ age # None /\ Older(age) = age => age = MaxAge
  BY TimeAssumption DEF Older

LEMMA SoonerLeft ==
    ASSUME NEW left \in Nat
    PROVE  /\ Sooner(left) \in Nat
           /\ Sooner(left) <= left
           /\ left <= Sooner(left) + 1
  BY DEF Sooner

-----------------------------------------------------------------------------
\* The inductive invariant.

\* A transmitter with nothing in it has the right types.
LEMMA Blank ==
    /\ NothingSent \in Dmrd
    /\ <<>> \in Seq(Packet)
    /\ 0 \in 0 .. MaxTimeout
    /\ 0 \in 0 .. Interval
    /\ 0 \in 0 .. SequenceSpan - 1
    /\ 0 \in 0 .. Superframe - 1
    /\ 0 \in 0 .. MaxAge
    /\ None \in None .. MaxAge
  BY SpanAssumption, TimeAssumption DEF NothingSent, Dmrd

LEMMA InitInv == Init => IInv
  <1>1. SUFFICES ASSUME Init PROVE IInv
    OBVIOUS
  <1>2. Len(txQueue) = 0
    BY <1>1 DEF Init
  <1>3. TypeOK
    BY <1>1, Blank DEF Init, TypeOK
  <1>4. QueueIsChained
    BY <1>2 DEF QueueIsChained, Chained
  <1>5. Numbered
    BY <1>1, <1>2 DEF Init, Numbered, InTurn
  <1>6. QED
    BY <1>1, <1>3, <1>4, <1>5 DEF Init, IInv, NoOversleep, OpenCall, SendSpacing

LEMMA CrashInv == ASSUME Crash PROVE IInv'
  <1>1. Len(txQueue') = 0
    BY DEF Crash
  <1>2. TypeOK'
    BY Blank DEF Crash, TypeOK
  <1>3. QueueIsChained'
    BY <1>1 DEF QueueIsChained, Chained
  <1>4. Numbered'
    BY <1>1 DEF Crash, Numbered, InTurn
  <1>5. QED
    BY <1>2, <1>3, <1>4 DEF Crash, IInv, NoOversleep, OpenCall, SendSpacing

LEMMA TickInv == ASSUME IInv, Tick PROVE IInv'
  <1>1. /\ TypeOK
        /\ UNCHANGED <<pc, txQueue, txActive, streamId, sequence, voiceCount, sent, tidy>>
    BY DEF IInv, Tick
  <1>2. /\ sinceSend \in None .. MaxAge /\ sincePing \in 0 .. MaxAge
        /\ nextSend \in 0 .. Interval /\ timeout \in 0 .. MaxTimeout
        /\ Interval \in Nat /\ MaxAge \in Nat
    BY <1>1, TimeAssumption DEF TypeOK
  <1>3. TypeOK'
    <2>1. timeout' \in 0 .. MaxTimeout /\ nextSend' \in 0 .. Interval
      BY <1>2, TimeAssumption DEF Tick, Sooner
    <2>2. sincePing' \in 0 .. MaxAge /\ sinceSend' \in None .. MaxAge
      BY <1>2, OlderAge DEF Tick, Older
    <2>3. QED
      BY <1>1, <2>1, <2>2 DEF TypeOK
  <1>4. NoOversleep'
    BY <1>1, <1>2, TimeAssumption DEF Tick, IInv, NoOversleep, Sooner
  <1>5. QueueIsChained' /\ OpenCall' /\ Numbered'
    BY <1>1 DEF IInv, QueueIsChained, OpenCall, Numbered, LastTalkgroup
  <1>6. SendSpacing'
    <2>1. /\ sinceSend # None => sinceSend + nextSend >= Interval
          /\ sinceSend' = Older(sinceSend)
          /\ nextSend' = Sooner(nextSend)
      BY DEF IInv, SendSpacing, Tick
    <2>2. QED
      BY <1>2, <2>1, OlderAge, SoonerLeft, TimeAssumption DEF SendSpacing
  <1>7. QED
    BY <1>3, <1>4, <1>5, <1>6 DEF IInv

\* select returns and nothing is queued.
LEMMA WakeInv == ASSUME IInv, WakeTimeout \/ WakeOther PROVE IInv'
  <1>1. /\ pc' = "top"
        /\ UNCHANGED <<timeout, transmitter, sincePing, wire>>
    BY DEF WakeTimeout, WakeOther
  <1>2. QED
    BY <1>1 DEF IInv, TypeOK, NoOversleep, QueueIsChained, OpenCall, Numbered, SendSpacing,
                LastTalkgroup, transmitter, wire

\* Popping the queue does not change which packet comes last.
LEMMA LastPop ==
    ASSUME NEW q \in Seq(Packet), q # <<>>, NEW a, NEW b,
           b.kind = Head(q).kind, b.nth = Head(q).nth, b.talkgroup = Head(q).talkgroup
    PROVE  /\ LastPacket(b, Tail(q)).kind = LastPacket(a, q).kind
           /\ LastPacket(b, Tail(q)).nth = LastPacket(a, q).nth
           /\ LastPacket(b, Tail(q)).talkgroup = LastPacket(a, q).talkgroup
  <1>1. CASE Len(q) = 1
    BY <1>1, Popped DEF LastPacket
  <1>2. CASE Len(q) # 1
    <2>1. Len(q) \in Nat /\ Len(q) > 1
      BY <1>2, Popped
    <2>2. Tail(q)[Len(Tail(q))] = q[Len(q)]
      BY <2>1, Popped
    <2>3. Tail(q) # <<>>
      BY <1>2, Popped
    <2>4. QED
      BY <2>2, <2>3 DEF LastPacket
  <1>3. QED
    BY <1>1, <1>2

LEMMA TurnPop ==
    ASSUME NEW q \in Seq(Packet), q # <<>>, NEW n \in Nat, NEW tg, InTurn(q, n, tg)
    PROVE  InTurn(Tail(q), n + 1, tg) /\ Fits(Head(q).kind, Head(q).nth, n) /\ Head(q).talkgroup = tg
  <1>1. \A i \in 1 .. Len(q) : Fits(q[i].kind, q[i].nth, n + i - 1) /\ q[i].talkgroup = tg
    BY DEF InTurn
  <1>2. n + 1 - 1 = n
    OBVIOUS
  <1>3. Fits(Head(q).kind, Head(q).nth, n) /\ Head(q).talkgroup = tg
    BY <1>1, <1>2, Popped
  <1>4. ASSUME NEW i \in 1 .. Len(Tail(q))
        PROVE  Fits(Tail(q)[i].kind, Tail(q)[i].nth, (n + 1) + i - 1) /\ Tail(q)[i].talkgroup = tg
    <2>1. i + 1 \in 1 .. Len(q) /\ Tail(q)[i] = q[i + 1] /\ n + (i + 1) - 1 = (n + 1) + i - 1
      BY Popped
    <2>2. QED
      BY <1>1, <2>1
  <1>5. QED
    BY <1>3, <1>4 DEF InTurn

LEMMA TurnConcat ==
    ASSUME NEW q \in Seq(Packet), NEW f \in Seq(Packet), NEW n \in Nat, NEW tg,
           InTurn(q, n, tg), InTurn(f, n + Len(q), tg)
    PROVE  InTurn(q \o f, n, tg)
  <1>1. SUFFICES ASSUME NEW i \in 1 .. Len(q \o f)
                 PROVE  /\ Fits((q \o f)[i].kind, (q \o f)[i].nth, n + i - 1)
                        /\ (q \o f)[i].talkgroup = tg
    BY DEF InTurn
  <1>2. i \in 1 .. Len(q) + Len(f) /\ Len(q) \in Nat /\ Len(f) \in Nat
    BY <1>1, Concatenated
  <1>3. CASE i <= Len(q)
    BY <1>2, <1>3, Concatenated DEF InTurn
  <1>4. CASE i > Len(q)
    <2>1. i \in Len(q) + 1 .. Len(q) + Len(f)
      BY <1>2, <1>4
    <2>2. (q \o f)[i] = f[i - Len(q)] /\ i - Len(q) \in 1 .. Len(f)
      BY <2>1, Concatenated
    <2>3. n + Len(q) + (i - Len(q)) - 1 = n + i - 1
      BY <1>2
    <2>4. QED
      BY <2>2, <2>3 DEF InTurn
  <1>5. QED
    BY <1>2, <1>3, <1>4

\* The head of the loop flushes a packet: what becomes of the queue.
LEMMA FlushInv ==
    ASSUME IInv, Clock, txQueue # <<>>, nextSend = 0
    PROVE  /\ txQueue' \in Seq(Packet)
           /\ sent' \in Dmrd
           /\ sequence' \in 0 .. SequenceSpan - 1
           /\ tidy' \in BOOLEAN
           /\ nextSend' \in 0 .. Interval
           /\ sinceSend' \in None .. MaxAge
           /\ QueueIsChained'
           /\ OpenCall'
           /\ Numbered'
           /\ SendSpacing'
  <1>1. /\ txQueue \in Seq(Packet)
        /\ streamId \in StreamId \cup {None}
        /\ sequence \in 0 .. SequenceSpan - 1
        /\ tidy \in BOOLEAN
    BY DEF IInv, TypeOK
  <1>2. /\ txQueue' = Tail(txQueue)
        /\ sent' = Stamped(Head(txQueue))
        /\ sequence' = Successor(sequence)
        /\ tidy' = (tidy /\ sequence' # 0)
        /\ nextSend' = Interval
        /\ sinceSend' = 0
        /\ UNCHANGED <<txActive, streamId, voiceCount>>
    BY DEF Clock, FlushDmrTxQueue
  <1>3. /\ sent'.kind = Head(txQueue).kind
        /\ sent'.nth = Head(txQueue).nth
        /\ sent'.talkgroup = Head(txQueue).talkgroup
        /\ sent'.stream = streamId
        /\ sent'.sequence = sequence
    BY <1>2 DEF Stamped
  <1>4. Head(txQueue) \in Packet /\ sequence \in Int
    BY <1>1, Popped
  <1>5. sent' \in Dmrd
    <2>1. (sequence - Headers) % Superframe \in 0 .. Superframe - 1
      BY <1>4, Remainder
    <2>2. QED
      BY <1>1, <1>2, <1>4, <2>1 DEF Stamped, Dmrd, Packet
  <1>6. QueueIsChained'
    BY <1>1, <1>2, <1>3, ChainPop DEF IInv, QueueIsChained
  <1>7. OpenCall'
    BY <1>1, <1>2, <1>3, LastPop DEF IInv, OpenCall, Awaits
  <1>8. LastTalkgroup' = LastTalkgroup
    BY <1>1, <1>2, <1>3, LastPop DEF LastTalkgroup
  <1>9. Numbered'
    <2>1. SUFFICES ASSUME tidy, sequence' # 0
                   PROVE  /\ InTurn(txQueue', sequence', LastTalkgroup')
                          /\ txActive' => Fits("voice", voiceCount', sequence' + Len(txQueue'))
                          /\ sent'.stream = streamId'
                          /\ sent'.sequence = sequence' - 1
                          /\ sent'.talkgroup = LastTalkgroup'
      BY <1>2 DEF Numbered
    <2>2. sequence' = sequence + 1 /\ sequence \in Nat
      BY <1>1, <1>2, <2>1, NextNumber
    <2>3. /\ InTurn(txQueue, sequence, LastTalkgroup)
          /\ txActive => Fits("voice", voiceCount, sequence + Len(txQueue))
      BY <2>1 DEF IInv, Numbered
    <2>4. InTurn(txQueue', sequence', LastTalkgroup') /\ Head(txQueue).talkgroup = LastTalkgroup
      BY <1>1, <1>2, <1>8, <2>2, <2>3, TurnPop
    <2>5. sequence' + Len(txQueue') = sequence + Len(txQueue)
      BY <1>1, <1>2, <2>2, Popped
    <2>6. QED
      BY <1>2, <1>3, <1>8, <2>2, <2>3, <2>4, <2>5
  <1>10. SendSpacing' /\ nextSend' \in 0 .. Interval /\ sinceSend' \in None .. MaxAge
    BY <1>2, TimeAssumption DEF SendSpacing
  <1>11. QED
    BY <1>1, <1>2, <1>5, <1>6, <1>7, <1>9, <1>10, NextNumber, Popped

LEMMA ClockInv == ASSUME IInv, Clock PROVE IInv'
  <1>1. /\ txQueue' \in Seq(Packet)
        /\ sent' \in Dmrd
        /\ sequence' \in 0 .. SequenceSpan - 1
        /\ tidy' \in BOOLEAN
        /\ nextSend' \in 0 .. Interval
        /\ sinceSend' \in None .. MaxAge
        /\ QueueIsChained' /\ OpenCall' /\ Numbered' /\ SendSpacing'
    <2>1. CASE txQueue # <<>> /\ nextSend = 0
      BY <2>1, FlushInv
    <2>2. CASE ~(txQueue # <<>> /\ nextSend = 0)
      <3>1. /\ UNCHANGED <<txQueue, sent, sequence, tidy, nextSend, sinceSend>>
            /\ UNCHANGED <<txActive, streamId, voiceCount>>
        BY <2>2 DEF Clock, FlushDmrTxQueue
      <3>2. QED
        BY <3>1 DEF IInv, TypeOK, QueueIsChained, OpenCall, Numbered, SendSpacing, LastTalkgroup
    <2>3. QED
      BY <2>1, <2>2
  <1>2. /\ timeout' \in 0 .. MaxTimeout
        /\ txQueue' # <<>> => timeout' <= nextSend'
    BY <1>1, TimeAssumption DEF Clock, SelectTimeout
  <1>3. /\ sincePing' \in 0 .. MaxAge
        /\ pc' \in {"top", "select"}
        /\ txActive' \in BOOLEAN
        /\ streamId' \in StreamId \cup {None}
        /\ voiceCount' \in 0 .. Superframe - 1
    BY TimeAssumption DEF IInv, TypeOK, Clock
  <1>4. QED
    BY <1>1, <1>2, <1>3 DEF IInv, TypeOK, NoOversleep

-----------------------------------------------------------------------------
\* The radio's frames.

LEMMA PacketTyped ==
    ASSUME NEW tg \in Talkgroup, NEW n \in Nat
    PROVE  /\ Voice(n, tg) \in Packet
           /\ Term(tg) \in Packet
           /\ n < Superframe => Header(n, tg) \in Packet
  <1>1. n % Superframe \in 0 .. Superframe - 1
    BY Remainder
  <1>2. QED
    BY <1>1 DEF Voice, Term, Header, Packet

\* What every frame keeps, whatever it queues.
LEMMA ForwardInv ==
    ASSUME IInv, NEW f \in Seq(Packet), Forward(f),
           Chained(LastPacket(sent, txQueue), f),
           streamId' \in StreamId \cup {None},
           sequence' \in 0 .. SequenceSpan - 1,
           voiceCount' \in 0 .. Superframe - 1,
           txActive' \in BOOLEAN,
           tidy' \in BOOLEAN
    PROVE  TypeOK' /\ NoOversleep' /\ QueueIsChained' /\ SendSpacing'
  <1>1. txQueue \in Seq(Packet)
    BY DEF IInv, TypeOK
  <1>2. /\ txQueue' = txQueue \o f
        /\ pc' = "top"
        /\ UNCHANGED <<timeout, nextSend, sincePing, sent, sinceSend>>
    BY DEF Forward
  <1>3. txQueue' \in Seq(Packet)
    BY <1>1, <1>2, Concatenated
  <1>4. TypeOK'
    BY <1>2, <1>3 DEF IInv, TypeOK
  <1>5. QueueIsChained'
    BY <1>1, <1>2, ChainConcat DEF IInv, QueueIsChained
  <1>6. QED
    BY <1>2, <1>4, <1>5 DEF IInv, NoOversleep, SendSpacing

LEMMA BeginInv ==
    ASSUME IInv, NEW tg \in Talkgroup, BeginCall(tg)
    PROVE  IInv'
  <1> DEFINE f == <<Header(0, tg), Header(1, tg), Header(2, tg)>>
  <1>1. /\ Header(0, tg) \in Packet /\ Header(1, tg) \in Packet /\ Header(2, tg) \in Packet
    BY PacketTyped
  <1>2. /\ f \in Seq(Packet) /\ Len(f) = 3 /\ f # <<>>
        /\ f[1] = Header(0, tg) /\ f[2] = Header(1, tg) /\ f[3] = Header(2, tg)
    BY <1>1
  <1>3. /\ Forward(f)
        /\ streamId' \in StreamId
        /\ sequence' = 0 /\ voiceCount' = 0 /\ txActive' = TRUE
        /\ tidy' = (txQueue = <<>>)
        /\ txQueue' = txQueue \o f
        /\ sent' = sent
    BY DEF BeginCall, Forward
  <1>4. txQueue \in Seq(Packet)
    BY DEF IInv, TypeOK
  <1> HIDE DEF f
  <1>5. Chained(LastPacket(sent, txQueue), f)
    <2>1. SUFFICES ASSUME NEW i \in 1 .. 3, NEW a, i # 1 => a = f[i - 1]
                   PROVE  Follows(a, f[i])
      BY <1>2 DEF Chained
    <2>2. CASE i = 1
      BY <1>2, <2>2 DEF Follows, Begins, Header
    <2>3. CASE i = 2
      BY <1>2, <2>1, <2>3 DEF Follows, Header
    <2>4. CASE i = 3
      BY <1>2, <2>1, <2>4 DEF Follows, Header
    <2>5. QED
      BY <2>2, <2>3, <2>4
  <1>6. LastPacket(sent, txQueue') = Header(2, tg)
    BY <1>2, <1>3, <1>4, LastConcat
  <1>7. OpenCall'
    BY <1>3, <1>6 DEF OpenCall, Awaits, Header
  <1>8. LastTalkgroup' = tg
    BY <1>3, <1>6 DEF LastTalkgroup, Header
  <1>9. Numbered'
    <2>1. SUFFICES ASSUME txQueue = <<>>
                   PROVE  /\ InTurn(txQueue', sequence', tg)
                          /\ Fits("voice", voiceCount', sequence' + Len(txQueue'))
      BY <1>3, <1>8 DEF Numbered
    <2>2. txQueue' = f
      BY <1>2, <1>3, <2>1, ConcatEmptySeq
    <2>3. ASSUME NEW i \in 1 .. 3
          PROVE  Fits(f[i].kind, f[i].nth, 0 + i - 1) /\ f[i].talkgroup = tg
      <3>1. i = 1 \/ i = 2 \/ i = 3
        OBVIOUS
      <3>2. QED
        BY <1>2, <3>1 DEF Fits, Header
    <2>4. Fits("voice", 0, 3)
      BY DEF Fits
    <2>5. sequence' + Len(txQueue') = 3
      BY <1>2, <1>3, <2>2
    <2>6. InTurn(txQueue', sequence', tg)
      BY <1>2, <1>3, <2>2, <2>3 DEF InTurn
    <2>7. QED
      BY <1>3, <2>4, <2>5, <2>6
  <1>10. /\ sequence' \in 0 .. SequenceSpan - 1
         /\ voiceCount' \in 0 .. Superframe - 1
         /\ tidy' \in BOOLEAN
    BY <1>3, SpanAssumption
  <1>11. TypeOK' /\ NoOversleep' /\ QueueIsChained' /\ SendSpacing'
    BY <1>2, <1>3, <1>5, <1>10, ForwardInv
  <1>12. QED
    BY <1>7, <1>9, <1>11 DEF IInv

LEMMA SpeakInv ==
    ASSUME IInv, NEW tg \in Talkgroup, Speak(tg)
    PROVE  IInv'
  <1> DEFINE f == <<Voice(voiceCount, tg), Voice(voiceCount + 1, tg)>>
  <1>1. /\ txQueue \in Seq(Packet)
        /\ voiceCount \in 0 .. Superframe - 1
        /\ sequence \in 0 .. SequenceSpan - 1
        /\ tidy \in BOOLEAN
        /\ streamId \in StreamId \cup {None}
    BY DEF IInv, TypeOK
  <1>2. /\ f \in Seq(Packet) /\ Len(f) = 2 /\ f # <<>>
        /\ f[1] = Voice(voiceCount, tg) /\ f[2] = Voice(voiceCount + 1, tg)
    BY <1>1, PacketTyped
  <1>3. /\ Forward(f)
        /\ txActive
        /\ voiceCount' = (voiceCount + 2) % Superframe
        /\ tidy' = (tidy /\ tg = LastTalkgroup)
        /\ UNCHANGED <<streamId, sequence, txActive>>
        /\ txQueue' = txQueue \o f
        /\ sent' = sent
    BY DEF Speak, Forward
  <1>4. /\ f[1].kind = "voice" /\ f[1].nth = voiceCount /\ f[1].talkgroup = tg
        /\ f[2].kind = "voice" /\ f[2].nth = (voiceCount + 1) % Superframe /\ f[2].talkgroup = tg
    BY <1>1, <1>2 DEF Voice
  <1> HIDE DEF f
  <1>5. Awaits(LastPacket(sent, txQueue), voiceCount)
    BY <1>3 DEF IInv, OpenCall
  <1>6. Chained(LastPacket(sent, txQueue), f)
    <2>1. Follows(LastPacket(sent, txQueue), f[1])
      BY <1>4, <1>5 DEF Awaits, Follows
    <2>2. Follows(f[1], f[2])
      BY <1>4 DEF Follows
    <2>3. QED
      BY <1>2, <2>1, <2>2 DEF Chained
  <1>7. LastPacket(sent', txQueue') = f[2]
    BY <1>1, <1>2, <1>3, LastConcat
  <1>8. OpenCall'
    <2>1. voiceCount' = (f[2].nth + 1) % Superframe
      BY <1>1, <1>3, <1>4
    <2>2. QED
      BY <1>4, <1>7, <2>1 DEF OpenCall, Awaits
  <1>9. Numbered'
    <2>1. SUFFICES ASSUME tidy, tg = LastTalkgroup
                   PROVE  /\ InTurn(txQueue', sequence, tg)
                          /\ Fits("voice", voiceCount', sequence + Len(txQueue'))
                          /\ sequence # 0 => /\ sent.stream = streamId
                                             /\ sent.sequence = sequence - 1
                                             /\ sent.talkgroup = tg
      BY <1>3, <1>4, <1>7 DEF Numbered, LastTalkgroup
    <2>2. /\ InTurn(txQueue, sequence, tg)
          /\ Fits("voice", voiceCount, sequence + Len(txQueue))
          /\ sequence # 0 => /\ sent.stream = streamId
                             /\ sent.sequence = sequence - 1
                             /\ sent.talkgroup = tg
      BY <1>3, <2>1 DEF IInv, Numbered
    <2>3. PICK n \in Nat : n = sequence + Len(txQueue)
      BY <1>1, LenProperties
    <2>4. n >= 3 /\ (n - 3) % 6 = voiceCount
      BY <2>2, <2>3 DEF Fits
    <2>5. (n + 1 - 3) % 6 = (voiceCount + 1) % 6 /\ (n + 2 - 3) % 6 = (voiceCount + 2) % 6
      BY <2>4
    <2>6. InTurn(f, n, tg)
      <3>1. SUFFICES ASSUME NEW i \in 1 .. 2
                     PROVE  Fits(f[i].kind, f[i].nth, n + i - 1) /\ f[i].talkgroup = tg
        BY <1>2 DEF InTurn
      <3>2. CASE i = 1
        BY <1>4, <2>4, <3>2 DEF Fits
      <3>3. CASE i = 2
        BY <1>4, <2>4, <2>5, <3>3 DEF Fits
      <3>4. QED
        BY <3>2, <3>3
    <2>7. sequence + Len(txQueue') = n + 2
      <3>1. Len(txQueue \o f) = Len(txQueue) + Len(f) /\ Len(txQueue) \in Nat
        BY <1>1, <1>2, Concatenated
      <3>2. QED
        BY <1>1, <1>2, <1>3, <2>3, <3>1
    <2>8. InTurn(txQueue', sequence, tg)
      BY <1>1, <1>2, <1>3, <2>2, <2>3, <2>6, TurnConcat
    <2>9. Fits("voice", voiceCount', n + 2)
      BY <1>3, <2>4, <2>5 DEF Fits
    <2>10. QED
      BY <2>2, <2>7, <2>8, <2>9
  <1>10. voiceCount' \in 0 .. Superframe - 1 /\ tidy' \in BOOLEAN
    BY <1>1, <1>3, Remainder
  <1>11. TypeOK' /\ NoOversleep' /\ QueueIsChained' /\ SendSpacing'
    BY <1>1, <1>2, <1>3, <1>6, <1>10, ForwardInv
  <1>12. QED
    BY <1>8, <1>9, <1>11 DEF IInv

\* The silence that completes a superframe: so many voice frames, each the next
\* in turn, the last of them the sixth.
LEMMA Padded ==
    ASSUME NEW tg \in Talkgroup, voiceCount \in 0 .. Superframe - 1,
           NEW f, f = Append(Padding(tg), Term(tg))
    PROVE  \E m \in 0 .. Superframe - 1 :
              /\ f \in Seq(Packet) /\ Len(f) = m + 1 /\ f # <<>>
              /\ \A i \in 1 .. m : f[i] = Voice(voiceCount + i - 1, tg)
              /\ f[m + 1] = Term(tg)
              /\ (voiceCount + m) % Superframe = 0
              /\ m = 0 <=> voiceCount = 0
  <1>1. PICK m \in 0 .. Superframe - 1 :
           /\ m = (Superframe - voiceCount) % Superframe
           /\ m = IF voiceCount = 0 THEN 0 ELSE Superframe - voiceCount
    OBVIOUS
  <1> DEFINE p == Padding(tg)
  <1>2. p = [i \in 1 .. m |-> Voice(voiceCount + i - 1, tg)]
    BY <1>1 DEF Padding
  <1>3. \A i \in 1 .. m : Voice(voiceCount + i - 1, tg) \in Packet
    BY PacketTyped
  <1>4. p \in Seq(Packet) /\ Len(p) = m
    BY <1>2, <1>3
  <1>5. Term(tg) \in Packet
    BY PacketTyped
  <1>6. /\ f \in Seq(Packet) /\ Len(f) = m + 1
        /\ \A i \in 1 .. m : f[i] = p[i]
        /\ f[m + 1] = Term(tg)
    BY <1>4, <1>5, AppendProperties
  <1>7. f # <<>>
    BY <1>6, EmptySeq
  <1>8. (voiceCount + m) % Superframe = 0
    BY <1>1
  <1>9. m = 0 <=> voiceCount = 0
    BY <1>1
  <1>10. \A i \in 1 .. m : f[i] = Voice(voiceCount + i - 1, tg)
    BY <1>2, <1>6
  <1>11. QED
    BY <1>6, <1>7, <1>8, <1>9, <1>10

LEMMA EndInv ==
    ASSUME IInv, NEW tg \in Talkgroup, EndCall(tg)
    PROVE  IInv'
  <1> DEFINE f == Append(Padding(tg), Term(tg))
  <1>1. /\ txQueue \in Seq(Packet)
        /\ voiceCount \in 0 .. Superframe - 1
        /\ sequence \in 0 .. SequenceSpan - 1
        /\ tidy \in BOOLEAN
        /\ streamId \in StreamId \cup {None}
    BY DEF IInv, TypeOK
  <1>2. PICK m \in 0 .. Superframe - 1 :
              /\ f \in Seq(Packet) /\ Len(f) = m + 1 /\ f # <<>>
              /\ \A i \in 1 .. m : f[i] = Voice(voiceCount + i - 1, tg)
              /\ f[m + 1] = Term(tg)
              /\ (voiceCount + m) % Superframe = 0
              /\ m = 0 <=> voiceCount = 0
    BY <1>1, Padded
  <1>3. /\ Forward(f)
        /\ txActive
        /\ voiceCount' = 0 /\ txActive' = FALSE
        /\ tidy' = (tidy /\ tg = LastTalkgroup)
        /\ UNCHANGED <<streamId, sequence>>
        /\ txQueue' = txQueue \o f
        /\ sent' = sent
    BY DEF EndCall, Forward
  <1> HIDE DEF f
  <1>4. /\ \A i \in 1 .. m : /\ f[i].kind = "voice" /\ f[i].talkgroup = tg
                             /\ f[i].nth = (voiceCount + i - 1) % Superframe
        /\ f[m + 1].kind = "term" /\ f[m + 1].talkgroup = tg
    <2>1. ASSUME NEW i \in 1 .. m
          PROVE  /\ f[i].kind = "voice" /\ f[i].talkgroup = tg
                 /\ f[i].nth = (voiceCount + i - 1) % Superframe
      <3>1. f[i] = Voice(voiceCount + i - 1, tg)
        BY <1>2
      <3>2. QED
        BY <3>1 DEF Voice
    <2>2. f[m + 1] = Term(tg)
      BY <1>2
    <2>3. QED
      BY <2>1, <2>2 DEF Term
  <1>5. Awaits(LastPacket(sent, txQueue), voiceCount)
    BY <1>3 DEF IInv, OpenCall
  <1>6. Chained(LastPacket(sent, txQueue), f)
    <2>1. SUFFICES ASSUME NEW i \in 1 .. m + 1, NEW a,
                          a = IF i = 1 THEN LastPacket(sent, txQueue) ELSE f[i - 1]
                   PROVE  Follows(a, f[i])
      BY <1>2 DEF Chained
    <2>2. CASE i = 1 /\ m = 0
      <3>1. voiceCount = 0 /\ f[1].kind = "term"
        BY <1>2, <1>4, <2>2
      <3>2. a.kind = "voice" /\ 0 = (a.nth + 1) % 6 => a.nth = 5
        <4>1. a.kind = "voice" => a.nth \in 0 .. 5
          <5>1. a = LastPacket(sent, txQueue)
            BY <2>1, <2>2
          <5>2. CASE txQueue = <<>>
            BY <5>1, <5>2 DEF LastPacket, IInv, TypeOK, Dmrd
          <5>3. CASE txQueue # <<>>
            <6>1. Len(txQueue) \in 1 .. Len(txQueue)
              BY <1>1, <5>3, EmptySeq
            <6>2. txQueue[Len(txQueue)] \in Packet
              BY <1>1, <6>1, ElementOfSeq
            <6>3. QED
              BY <5>1, <5>3, <6>2 DEF LastPacket, Packet
          <5>4. QED
            BY <5>2, <5>3
        <4>2. QED
          BY <4>1
      <3>3. QED
        BY <1>5, <2>1, <2>2, <3>1, <3>2 DEF Awaits, Follows
    <2>3. CASE i = 1 /\ m # 0
      <3>1. f[1].kind = "voice" /\ f[1].nth = voiceCount
        BY <1>1, <1>4, <2>3
      <3>2. QED
        BY <1>5, <2>1, <2>3, <3>1 DEF Awaits, Follows
    <2>4. CASE i # 1 /\ i # m + 1
      <3>1. /\ a.kind = "voice" /\ a.nth = (voiceCount + (i - 1) - 1) % Superframe
            /\ f[i].kind = "voice" /\ f[i].nth = (voiceCount + i - 1) % Superframe
        BY <1>4, <2>1, <2>4
      <3>2. (voiceCount + i - 1) % 6 = (((voiceCount + (i - 1) - 1) % 6) + 1) % 6
        BY <1>1
      <3>3. QED
        BY <3>1, <3>2 DEF Follows
    <2>5. CASE i # 1 /\ i = m + 1
      <3>1. a.kind = "voice" /\ a.nth = (voiceCount + m - 1) % Superframe
        BY <1>4, <2>1, <2>5
      <3>2. (voiceCount + m - 1) % 6 = 5
        <4>1. voiceCount + m = 6
          BY <1>1, <1>2, <2>5
        <4>2. QED
          BY <1>1, <4>1
      <3>3. QED
        BY <1>4, <2>5, <3>1, <3>2 DEF Follows
    <2>6. QED
      BY <2>2, <2>3, <2>4, <2>5
  <1>7. LastPacket(sent', txQueue').talkgroup = tg
    BY <1>1, <1>2, <1>3, <1>4, LastConcat
  <1>8. OpenCall'
    BY <1>3 DEF OpenCall
  <1>9. Numbered'
    <2>1. SUFFICES ASSUME tidy, tg = LastTalkgroup
                   PROVE  /\ InTurn(txQueue', sequence, tg)
                          /\ sequence # 0 => /\ sent.stream = streamId
                                             /\ sent.sequence = sequence - 1
                                             /\ sent.talkgroup = tg
      BY <1>3, <1>7 DEF Numbered, LastTalkgroup
    <2>2. /\ InTurn(txQueue, sequence, tg)
          /\ Fits("voice", voiceCount, sequence + Len(txQueue))
          /\ sequence # 0 => /\ sent.stream = streamId
                             /\ sent.sequence = sequence - 1
                             /\ sent.talkgroup = tg
      BY <1>3, <2>1 DEF IInv, Numbered
    <2>3. PICK n \in Nat : n = sequence + Len(txQueue)
      BY <1>1, LenProperties
    <2>4. n >= 3 /\ (n - 3) % 6 = voiceCount
      BY <2>2, <2>3 DEF Fits
    <2>5. InTurn(f, n, tg)
      <3>1. SUFFICES ASSUME NEW i \in 1 .. m + 1
                     PROVE  Fits(f[i].kind, f[i].nth, n + i - 1) /\ f[i].talkgroup = tg
        BY <1>2 DEF InTurn
      <3>2. CASE i = m + 1
        BY <1>4, <2>4, <3>2 DEF Fits
      <3>3. CASE i # m + 1
        <4>1. f[i].kind = "voice" /\ f[i].nth = (voiceCount + i - 1) % 6 /\ f[i].talkgroup = tg
          BY <1>4, <3>3
        <4>2. (n + i - 1 - 3) % 6 = (voiceCount + i - 1) % 6
          BY <2>4
        <4>3. QED
          BY <2>4, <4>1, <4>2 DEF Fits
      <3>4. QED
        BY <3>2, <3>3
    <2>6. InTurn(txQueue', sequence, tg)
      BY <1>1, <1>2, <1>3, <2>2, <2>3, <2>5, TurnConcat
    <2>7. QED
      BY <2>2, <2>6
  <1>10. voiceCount' \in 0 .. Superframe - 1 /\ tidy' \in BOOLEAN
    BY <1>1, <1>3
  <1>11. TypeOK' /\ NoOversleep' /\ QueueIsChained' /\ SendSpacing'
    BY <1>1, <1>2, <1>3, <1>6, <1>10, ForwardInv
  <1>12. QED
    BY <1>8, <1>9, <1>11 DEF IInv

-----------------------------------------------------------------------------
\* The theorems.

LEMMA StepInv == IInv /\ [Next]_vars => IInv'
  <1> SUFFICES ASSUME IInv, [Next]_vars PROVE IInv'
    OBVIOUS
  <1>1. CASE Crash
    BY <1>1, CrashInv
  <1>2. CASE Tick
    BY <1>2, TickInv
  <1>3. CASE Clock
    BY <1>3, ClockInv
  <1>4. CASE WakeTimeout \/ WakeOther
    BY <1>4, WakeInv
  <1>5. ASSUME NEW tg \in Talkgroup, BeginCall(tg) PROVE IInv'
    BY <1>5, BeginInv
  <1>6. ASSUME NEW tg \in Talkgroup, Speak(tg) PROVE IInv'
    BY <1>6, SpeakInv
  <1>7. ASSUME NEW tg \in Talkgroup, EndCall(tg) PROVE IInv'
    BY <1>7, EndInv
  <1>8. CASE UNCHANGED vars
    BY <1>8 DEF IInv, TypeOK, NoOversleep, QueueIsChained, OpenCall, Numbered, SendSpacing,
                LastTalkgroup, vars, transmitter, wire
  <1>9. QED
    BY <1>1, <1>2, <1>3, <1>4, <1>5, <1>6, <1>7, <1>8 DEF Next

\* The inductive invariant of the transmitter holds in every reachable state.
THEOREM Invariance == Spec => []IInv
  BY InitInv, StepInv, PTL DEF Spec

\* select never sleeps past the time of the next packet.
THEOREM SelectWakesInTime == Spec => []NoOversleep
  <1>1. IInv => NoOversleep
    BY DEF IInv
  <1>2. QED
    BY <1>1, Invariance, PTL

\* Only the head of the loop sends.
LEMMA OnlyClockSends ==
    ASSUME IInv, [Next]_vars, Sends
    PROVE  Clock /\ nextSend = 0
  <1>1. txQueue \in Seq(Packet) /\ txQueue # <<>> /\ txQueue' = Tail(txQueue)
    BY DEF IInv, TypeOK, Sends
  <1>2. Len(txQueue') = Len(txQueue) - 1 /\ Len(txQueue) \in Nat
    BY <1>1, Popped
  <1>3. ~Crash
    BY DEF Crash, Sends, NothingSent
  <1>4. txQueue' # txQueue
    BY <1>2
  <1>5. ~(Tick \/ WakeTimeout \/ WakeOther \/ UNCHANGED vars)
    BY <1>4 DEF Tick, WakeTimeout, WakeOther, vars, transmitter
  <1>6. ASSUME NEW f \in Seq(Packet), Forward(f) PROVE FALSE
    <2>1. Len(txQueue') = Len(txQueue) + Len(f) /\ Len(f) \in Nat
      BY <1>1, <1>6, Concatenated DEF Forward
    <2>2. QED
      BY <1>2, <2>1
  <1>7. ASSUME NEW tg \in Talkgroup, BeginCall(tg) PROVE FALSE
    <2>1. <<Header(0, tg), Header(1, tg), Header(2, tg)>> \in Seq(Packet)
      BY PacketTyped
    <2>2. QED
      BY <1>6, <1>7, <2>1 DEF BeginCall
  <1>8. ASSUME NEW tg \in Talkgroup, Speak(tg) PROVE FALSE
    <2>1. voiceCount \in Nat /\ voiceCount + 1 \in Nat
      BY DEF IInv, TypeOK
    <2>2. <<Voice(voiceCount, tg), Voice(voiceCount + 1, tg)>> \in Seq(Packet)
      BY <2>1, PacketTyped
    <2>3. QED
      BY <1>6, <1>8, <2>2 DEF Speak
  <1>9. ASSUME NEW tg \in Talkgroup, EndCall(tg) PROVE FALSE
    <2>1. voiceCount \in 0 .. Superframe - 1
      BY DEF IInv, TypeOK
    <2>2. Append(Padding(tg), Term(tg)) \in Seq(Packet)
      BY <2>1, Padded
    <2>3. QED
      BY <1>6, <1>9, <2>2 DEF EndCall
  <1>10. Clock
    BY <1>3, <1>5, <1>7, <1>8, <1>9 DEF Next
  <1>11. nextSend = 0
    BY <1>4, <1>10 DEF Clock, FlushDmrTxQueue
  <1>12. QED
    BY <1>10, <1>11

\* What leaves is the head of the queue, stamped.
LEMMA SendsHead ==
    ASSUME IInv, [Next]_vars, Sends
    PROVE  /\ txQueue \in Seq(Packet) /\ txQueue # <<>>
           /\ Head(txQueue) = txQueue[1] /\ 1 \in 1 .. Len(txQueue)
           /\ sent' = Stamped(Head(txQueue))
  BY OnlyClockSends, Popped DEF IInv, TypeOK, Sends, Clock, FlushDmrTxQueue

\* The master receives whole calls: three headers, whole superframes, a
\* terminator, whatever the radio and the queue do.
THEOREM CallsAreWhole == Spec => WholeCalls
  <1>1. ASSUME IInv, [Next]_vars, Sends PROVE Follows(sent, sent')
    <2>1. Follows(sent, Head(txQueue))
      BY <1>1, SendsHead DEF IInv, QueueIsChained, Chained
    <2>2. sent'.kind = Head(txQueue).kind /\ sent'.nth = Head(txQueue).nth
      BY <1>1, SendsHead DEF Stamped
    <2>3. QED
      BY <2>1, <2>2 DEF Follows, Begins
  <1>2. QED
    BY <1>1, Invariance, PTL DEF WholeCalls, Spec

\* A call begun on an empty queue is one stream, numbered without a gap, until
\* it outruns the sequence number.
THEOREM CallsAreInStep == Spec => InStep
  <1>1. ASSUME IInv, [Next]_vars, Sends, tidy
        PROVE  /\ ~Begins(sent') => /\ sent'.stream = sent.stream
                                    /\ sent'.sequence = sent.sequence + 1
                                    /\ sent'.talkgroup = sent.talkgroup
               /\ sent'.kind = "voice" => sent'.voiceIndex = sent'.nth
    <2>1. /\ sequence \in Nat
          /\ InTurn(txQueue, sequence, LastTalkgroup)
          /\ sequence # 0 => /\ sent.stream = streamId
                             /\ sent.sequence = sequence - 1
                             /\ sent.talkgroup = LastTalkgroup
      BY <1>1 DEF IInv, TypeOK, Numbered
    <2>2. /\ Fits(Head(txQueue).kind, Head(txQueue).nth, sequence)
          /\ Head(txQueue).talkgroup = LastTalkgroup
      BY <1>1, <2>1, SendsHead, TurnPop
    <2>3. /\ sent'.kind = Head(txQueue).kind /\ sent'.nth = Head(txQueue).nth
          /\ sent'.talkgroup = Head(txQueue).talkgroup
          /\ sent'.stream = streamId /\ sent'.sequence = sequence
          /\ sent'.kind = "voice" => sent'.voiceIndex = (sequence - Headers) % Superframe
      BY <1>1, SendsHead DEF Stamped
    <2>4. sequence = 0 => Begins(sent')
      BY <2>2, <2>3 DEF Fits, Begins
    <2>5. QED
      BY <2>1, <2>2, <2>3, <2>4 DEF Fits
  <1>2. QED
    BY <1>1, Invariance, PTL DEF InStep, Spec

\* Packets leave at least the interval apart.
THEOREM PacketsArePaced == Spec => DmrPaced
  <1>1. ASSUME IInv, [Next]_vars, Sends, sinceSend # None PROVE sinceSend >= Interval
    <2>1. nextSend = 0 /\ sinceSend \in None .. MaxAge
      BY <1>1, OnlyClockSends DEF IInv, TypeOK
    <2>2. sinceSend + nextSend >= Interval
      BY <1>1 DEF IInv, SendSpacing
    <2>3. QED
      BY <2>1, <2>2, TimeAssumption
  <1>2. QED
    BY <1>1, Invariance, PTL DEF DmrPaced, Spec
=============================================================================
