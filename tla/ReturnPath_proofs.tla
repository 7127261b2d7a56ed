--------------------------- MODULE ReturnPath_proofs ---------------------------
(***************************************************************************)
(* ReturnPath's inductive invariant IInv, for all packets, settings, gaps  *)
(* and bounds, and what follows from it: no voice frame reaches YSFGateway *)
(* outside a stream, and frames leave the queue at the configured pace.    *)
(***************************************************************************)
EXTENDS ReturnPath, SequenceTheorems, TLAPS

USE DEF None

-----------------------------------------------------------------------------
\* The queue as a list of stream events.

\* What is appended does not change the stream in front of it.
LEMMA InStreamAppend ==
    ASSUME NEW q \in Seq(FrameKind), NEW f \in FrameKind, NEW g,
           NEW i \in 1 .. Len(q) + 1
    PROVE  InStreamAt(Append(q, f), g, i) <=> InStreamAt(q, g, i)
  <1>1. \A k \in 1 .. i - 1 : Append(q, f)[k] = q[k]
    OBVIOUS
  <1>2. QED
    BY <1>1 DEF InStreamAt

\* A header opens a stream, and only a terminator closes it.
LEMMA InStreamBehind ==
    ASSUME NEW q \in Seq(FrameKind), NEW f \in FrameKind, NEW g,
           \/ f = "header"
           \/ f # "term" /\ InStreamAt(q, g, Len(q) + 1)
    PROVE  InStreamAt(Append(q, f), g, Len(Append(q, f)) + 1)
  <1>1. /\ Len(Append(q, f)) = Len(q) + 1
        /\ Append(q, f)[Len(q) + 1] = f
        /\ \A k \in 1 .. Len(q) : Append(q, f)[k] = q[k]
        /\ Len(q) \in Nat
    OBVIOUS
  <1>2. CASE f = "header"
    BY <1>1, <1>2 DEF InStreamAt
  <1>3. CASE f # "term" /\ InStreamAt(q, g, Len(q) + 1)
    BY <1>1, <1>3 DEF InStreamAt
  <1>4. QED
    BY <1>2, <1>3

\* Handing the head of the queue to YSFGateway moves the stream along.
LEMMA InStreamPop ==
    ASSUME NEW q \in Seq(FrameKind), q # <<>>, NEW g,
           NEW i \in 1 .. Len(q),
           InStreamAt(q, g, i + 1)
    PROVE  InStreamAt(Tail(q), GatewayAfter(g, Head(q)), i)
  <1>1. /\ Len(Tail(q)) = Len(q) - 1
        /\ \A k \in 1 .. Len(q) - 1 : Tail(q)[k] = q[k + 1]
        /\ Head(q) = q[1]
        /\ Len(q) \in Nat
    OBVIOUS
  <1>2. CASE g = "open" /\ \A k \in 1 .. i : q[k] # "term"
    BY <1>1, <1>2 DEF InStreamAt, GatewayAfter
  <1>3. ASSUME NEW h \in 1 .. i, q[h] = "header", \A k \in h + 1 .. i : q[k] # "term"
        PROVE  InStreamAt(Tail(q), GatewayAfter(g, Head(q)), i)
    <2>1. CASE h = 1
      BY <1>1, <1>3, <2>1 DEF InStreamAt, GatewayAfter
    <2>2. CASE h # 1
      <3>1. /\ h - 1 \in 1 .. i - 1
            /\ Tail(q)[h - 1] = "header"
            /\ \A k \in h .. i - 1 : Tail(q)[k] # "term"
        BY <1>1, <1>3, <2>2
      <3>2. QED
        BY <3>1 DEF InStreamAt
    <2>3. QED
      BY <2>1, <2>2
  <1>4. QED
    BY <1>2, <1>3 DEF InStreamAt

\* An empty queue leaves YSFGateway's own view.
LEMMA InStreamEmpty ==
    ASSUME NEW g
    PROVE  InStreamAt(<<>>, g, 1) <=> g = "open"
  BY DEF InStreamAt

-----------------------------------------------------------------------------
\* Time.

LEMMA OlderAge ==
    ASSUME NEW age \in None .. MaxAge
    PROVE  /\ Older(age) \in None .. MaxAge
           /\ Older(age) = None <=> age = None
           /\ age # None => Older(age) \in {age, age + 1}
           /\ age # None /\ Older(age) = age => age = MaxAge
  BY TimeAssumption DEF Older

LEMMA SoonerLeft ==
    ASSUME NEW left \in Nat
    PROVE  /\ Sooner(left) \in Nat
           /\ Sooner(left) <= left
           /\ left <= Sooner(left) + 1
  BY DEF Sooner

LEMMA BehaviorTyped ==
    ASSUME NEW c \in Behavior
    PROVE  c.interval \in Nat /\ c.startDelay \in Nat /\ c.interval <= MaxAge
  BY BehaviorAssumption, TimeAssumption

-----------------------------------------------------------------------------
\* The inductive invariant, action by action.

LEMMA InitIInv == Init => IInv
  <1> SUFFICES ASSUME Init PROVE IInv
    OBVIOUS
  <1>1. 0 <= Largest(behavior.interval, behavior.startDelay)
    BY BehaviorTyped DEF Init, Largest
  <1>2. /\ 0 \in 0 .. MaxTimeout
        /\ None \in None .. MaxAge
        /\ <<>> \in Seq(Packet)
        /\ <<>> \in Seq(FrameKind)
    BY TimeAssumption
  <1>3. TypeOK
    BY <1>1, <1>2 DEF Init, TypeOK
  <1>4. QED
    BY <1>3 DEF Init, IInv, HeaderBeforeVoice, NoOversleep, StreamStampTogether,
       ImmediateQueuesNothing, QueueInStream, SendSpacing

LEMMA EnvironmentIInv ==
    ASSUME IInv, Arrive \/ GoQuiet
    PROVE  IInv'
  <1>1. inbox' \in Seq(Packet) /\ quiet' \in BOOLEAN
    <2>1. CASE Arrive
      BY <2>1 DEF Arrive, IInv, TypeOK
    <2>2. CASE GoQuiet
      BY <2>2 DEF GoQuiet, IInv, TypeOK
    <2>3. QED
      BY <2>1, <2>2
  <1>2. UNCHANGED <<pc, router, timeout, history>>
    BY DEF Arrive, GoQuiet
  <1>3. TypeOK'
    BY <1>1, <1>2 DEF IInv, TypeOK, router, history
  <1>4. QED
    BY <1>2, <1>3 DEF IInv, HeaderBeforeVoice, NoOversleep, StreamStampTogether,
       ImmediateQueuesNothing, QueueInStream, SendSpacing, router, history

LEMMA TickIInv ==
    ASSUME IInv, Tick
    PROVE  IInv'
  <1>1. /\ sinceFrame \in None .. MaxAge
        /\ sinceSend \in None .. MaxAge
        /\ nextSend \in Nat
        /\ timeout \in 0 .. MaxTimeout
        /\ behavior \in Behavior
    BY DEF IInv, TypeOK
  <1>2. TypeOK'
    <2>1. timeout' \in 0 .. MaxTimeout
      BY <1>1, TimeAssumption DEF Tick, Sooner
    <2>2. nextSend' \in Nat /\ nextSend' <= Largest(behavior.interval, behavior.startDelay)
      BY <1>1, BehaviorTyped DEF Tick, Sooner, Largest, IInv, TypeOK
    <2>3. QED
      BY <1>1, <2>1, <2>2, OlderAge DEF Tick, IInv, TypeOK
  <1>3. NoOversleep'
    BY <1>1, TimeAssumption DEF Tick, IInv, NoOversleep, Sooner
  <1>4. StreamStampTogether'
    BY <1>1, OlderAge DEF Tick, IInv, StreamStampTogether
  <1>5. SendSpacing'
    BY <1>1, OlderAge, SoonerLeft, BehaviorTyped, TimeAssumption
       DEF Tick, IInv, SendSpacing
  <1>6. HeaderBeforeVoice' /\ ImmediateQueuesNothing' /\ QueueInStream'
    BY DEF Tick, IInv, HeaderBeforeVoice, ImmediateQueuesNothing, QueueInStream
  <1>7. QED
    BY <1>2, <1>3, <1>4, <1>5, <1>6 DEF IInv

LEMMA CrashIInv ==
    ASSUME IInv, Crash
    PROVE  IInv'
  <1>1. 0 <= Largest(behavior'.interval, behavior'.startDelay)
    BY BehaviorTyped DEF Crash, Largest
  <1>2. /\ 0 \in 0 .. MaxTimeout
        /\ None \in None .. MaxAge
        /\ <<>> \in Seq(Packet)
        /\ <<>> \in Seq(FrameKind)
    BY TimeAssumption
  <1>3. TypeOK'
    BY <1>1, <1>2 DEF Crash, IInv, TypeOK
  <1>4. QED
    BY <1>3 DEF Crash, IInv, HeaderBeforeVoice, NoOversleep, StreamStampTogether,
       ImmediateQueuesNothing, QueueInStream, SendSpacing

\* What a flush, taken or not, keeps of the invariant.
LEMMA Flush ==
    ASSUME IInv, FlushReturnQueue, UNCHANGED <<behavior, streamActive, sinceFrame, clean>>
    PROVE  /\ returnQueue' \in Seq(FrameKind)
           /\ nextSend' \in Nat
           /\ nextSend' <= Largest(behavior.interval, behavior.startDelay)
           /\ gateway' \in {"open", "closed"}
           /\ headless' \in BOOLEAN
           /\ sinceSend' \in None .. MaxAge
           /\ HeaderBeforeVoice'
           /\ ImmediateQueuesNothing'
           /\ QueueInStream'
           /\ SendSpacing'
  <1>1. /\ returnQueue \in Seq(FrameKind)
        /\ behavior \in Behavior
        /\ nextSend \in Nat
        /\ gateway \in {"open", "closed"}
    BY DEF IInv, TypeOK
  <1>2. CASE ~Due
    BY <1>2 DEF FlushReturnQueue, IInv, TypeOK, HeaderBeforeVoice, ImmediateQueuesNothing,
       QueueInStream, SendSpacing
  <1>3. CASE Due
    <2>1. /\ returnQueue # <<>>
          /\ returnQueue' = Tail(returnQueue)
          /\ nextSend' = behavior.interval
          /\ gateway' = GatewayAfter(gateway, Head(returnQueue))
          /\ headless' = (headless \/ Headless(gateway, Head(returnQueue)))
          /\ sinceSend' = 0
      BY <1>3 DEF FlushReturnQueue, Due
    <2>2. /\ returnQueue' \in Seq(FrameKind)
          /\ Len(returnQueue') = Len(returnQueue) - 1
          /\ \A i \in 1 .. Len(returnQueue') : returnQueue'[i] = returnQueue[i + 1]
          /\ Head(returnQueue) = returnQueue[1]
          /\ Len(returnQueue) \in Nat \ {0}
      BY <1>1, <2>1
    <2>3. nextSend' \in Nat /\ nextSend' <= Largest(behavior.interval, behavior.startDelay)
      BY <1>1, <2>1, BehaviorTyped DEF Largest
    <2>4. gateway' \in {"open", "closed"} /\ headless' \in BOOLEAN
      BY <1>1, <2>1 DEF GatewayAfter
    <2>5. SendSpacing' /\ sinceSend' \in None .. MaxAge
      BY <1>1, <2>1, BehaviorTyped, TimeAssumption DEF SendSpacing
    <2>6. ImmediateQueuesNothing'
      BY <2>1 DEF IInv, ImmediateQueuesNothing
    <2>7. HeaderBeforeVoice'
      \* The head is voice only where YSFGateway is in a stream.
      <3>1. behavior.insertHeader /\ clean /\ returnQueue[1] = "voice" => gateway = "open"
        BY <1>1, <2>2 DEF IInv, QueueInStream, InStreamAt
      <3>2. QED
        BY <2>1, <2>2, <3>1 DEF IInv, HeaderBeforeVoice, Headless
    <2>8. QueueInStream'
      <3>1. SUFFICES ASSUME behavior.insertHeader, clean
                     PROVE  QueueInStream'
        BY DEF QueueInStream
      <3>2. \A i \in 1 .. Len(returnQueue) :
              InStreamAt(returnQueue, gateway, i + 1) => InStreamAt(returnQueue', gateway', i)
        BY <1>1, <2>1, InStreamPop
      <3>3. \A i \in 1 .. Len(returnQueue') :
              returnQueue'[i] = "voice" => InStreamAt(returnQueue', gateway', i)
        <4>1. SUFFICES ASSUME NEW i \in 1 .. Len(returnQueue'), returnQueue'[i] = "voice"
                       PROVE  InStreamAt(returnQueue', gateway', i)
          OBVIOUS
        <4>2. returnQueue[i + 1] = "voice" /\ i + 1 \in 1 .. Len(returnQueue)
          BY <2>2, <4>1
        <4>3. InStreamAt(returnQueue, gateway, i + 1)
          BY <3>1, <4>2 DEF IInv, QueueInStream
        <4>4. QED
          BY <2>2, <3>2, <4>3
      <3>4. streamActive => InStreamAt(returnQueue', gateway', Len(returnQueue') + 1)
        BY <2>2, <3>1, <3>2 DEF IInv, QueueInStream
      <3>5. QED
        BY <3>3, <3>4 DEF QueueInStream
    <2>9. QED
      BY <2>2, <2>3, <2>4, <2>5, <2>6, <2>7, <2>8
  <1>4. QED
    BY <1>2, <1>3

LEMMA TopIInv ==
    ASSUME IInv, Top
    PROVE  IInv'
  <1>1. /\ FlushReturnQueue
        /\ UNCHANGED <<behavior, inbox, streamActive, sinceFrame, clean, quiet>>
        /\ pc' = "select"
        /\ timeout' = SelectTimeout(returnQueue', nextSend')
    BY DEF Top
  <1>2. timeout' \in 0 .. MaxTimeout
    BY <1>1, Flush, TimeAssumption DEF SelectTimeout, Smallest
  <1>3. TypeOK'
    BY <1>1, <1>2, Flush DEF IInv, TypeOK
  <1>4. NoOversleep'
    BY <1>1, Flush, TimeAssumption DEF NoOversleep, SelectTimeout, Smallest
  <1>5. QED
    BY <1>1, <1>3, <1>4, Flush DEF IInv, StreamStampTogether

LEMMA BottomIInv ==
    ASSUME IInv, Bottom
    PROVE  IInv'
  <1>1. /\ FlushReturnQueue
        /\ UNCHANGED <<behavior, inbox, streamActive, sinceFrame, timeout, clean, quiet>>
        /\ pc' = "top"
    BY DEF Bottom
  <1>2. TypeOK'
    BY <1>1, Flush DEF IInv, TypeOK
  <1>3. QED
    BY <1>1, <1>2, Flush DEF IInv, StreamStampTogether, NoOversleep

\* Waking up, and the end of a drain, move nothing but pc and the socket.
LEMMA WakeIInv ==
    ASSUME IInv, WakeReadable \/ WakeTimeout \/ WakeGateway \/ DrainDone
    PROVE  IInv'
  <1>1. /\ pc' \in {"drain", "bottom"}
        /\ UNCHANGED <<router, timeout, history, quiet>>
    BY DEF WakeReadable, WakeTimeout, WakeGateway, DrainDone
  <1>2. inbox' \in Seq(Packet)
    <2>1. CASE UNCHANGED inbox
      BY <2>1 DEF IInv, TypeOK
    <2>2. CASE inbox # <<>> /\ inbox' = Tail(inbox)
      BY <2>2 DEF IInv, TypeOK
    <2>3. QED
      BY <2>1, <2>2 DEF WakeReadable, WakeTimeout, WakeGateway, DrainDone
  <1>3. TypeOK'
    BY <1>1, <1>2 DEF IInv, TypeOK, router, history
  <1>4. QED
    BY <1>1, <1>3 DEF IInv, HeaderBeforeVoice, NoOversleep, StreamStampTogether,
       ImmediateQueuesNothing, QueueInStream, SendSpacing, router, history

\* One frame is delivered while the settings insert headers and all frames are
\* clean: if the frame is no voice, or the router's stream was active, or a
\* header goes first, the stream stays in order; and it is open behind the
\* frame if that is a header, or no terminator in a stream.
LEMMA DeliverOne ==
    ASSUME IInv, NEW f \in FrameKind, Deliver(<<f>>), UNCHANGED behavior
    PROVE  /\ returnQueue' \in Seq(FrameKind)
           /\ gateway' \in {"open", "closed"}
           /\ headless' \in BOOLEAN
           /\ ImmediateQueuesNothing'
           /\ behavior.insertHeader /\ clean /\ (f = "voice" => streamActive) =>
                /\ ~headless'
                /\ \A i \in 1 .. Len(returnQueue') :
                      returnQueue'[i] = "voice" => InStreamAt(returnQueue', gateway', i)
                /\ f = "header" \/ (f # "term" /\ streamActive)
                     => InStreamAt(returnQueue', gateway', Len(returnQueue') + 1)
  <1>1. /\ returnQueue \in Seq(FrameKind)
        /\ gateway \in {"open", "closed"}
        /\ headless \in BOOLEAN
    BY DEF IInv, TypeOK
  <1>2. CASE behavior.interval = 0
    <2>1. /\ gateway' = GatewayAfter(gateway, f)
          /\ headless' = (headless \/ Headless(gateway, f))
          /\ returnQueue' = returnQueue
          /\ returnQueue = <<>>
      BY <1>2 DEF Deliver, IInv, ImmediateQueuesNothing
    <2>2. gateway' \in {"open", "closed"} /\ headless' \in BOOLEAN
      BY <1>1, <2>1 DEF GatewayAfter
    <2>3. behavior.insertHeader /\ clean /\ streamActive => gateway = "open"
      BY <2>1, InStreamEmpty DEF IInv, QueueInStream
    <2>4. behavior.insertHeader /\ clean /\ (f = "voice" => streamActive) => ~headless'
      BY <2>1, <2>3 DEF IInv, HeaderBeforeVoice, Headless
    <2>5. behavior.insertHeader /\ clean /\ (f = "header" \/ (f # "term" /\ streamActive))
            => gateway' = "open"
      BY <2>1, <2>3 DEF GatewayAfter
    <2>6. QED
      BY <1>1, <2>1, <2>2, <2>4, <2>5, InStreamEmpty DEF ImmediateQueuesNothing
  <1>3. CASE behavior.interval # 0
    <2>1. /\ returnQueue' = returnQueue \o <<f>>
          /\ gateway' = gateway
          /\ headless' = headless
      BY <1>3 DEF Deliver
    <2>2. returnQueue' = Append(returnQueue, f)
      BY <1>1, <2>1
    <2>3. /\ returnQueue' \in Seq(FrameKind)
          /\ Len(returnQueue') = Len(returnQueue) + 1
          /\ returnQueue'[Len(returnQueue) + 1] = f
          /\ \A i \in 1 .. Len(returnQueue) : returnQueue'[i] = returnQueue[i]
          /\ Len(returnQueue) \in Nat
      BY <1>1, <2>2
    <2>4. ASSUME behavior.insertHeader, clean, f = "voice" => streamActive
          PROVE  /\ ~headless'
                 /\ \A i \in 1 .. Len(returnQueue') :
                       returnQueue'[i] = "voice" => InStreamAt(returnQueue', gateway', i)
                 /\ f = "header" \/ (f # "term" /\ streamActive)
                      => InStreamAt(returnQueue', gateway', Len(returnQueue') + 1)
      <3>1. ~headless'
        BY <2>1, <2>4 DEF IInv, HeaderBeforeVoice
      <3>2. \A i \in 1 .. Len(returnQueue) + 1 :
              InStreamAt(returnQueue, gateway, i) => InStreamAt(returnQueue', gateway', i)
        <4>1. TAKE i \in 1 .. Len(returnQueue) + 1
        <4>2. InStreamAt(Append(returnQueue, f), gateway, i) <=> InStreamAt(returnQueue, gateway, i)
          BY <1>1, InStreamAppend
        <4>3. QED
          BY <2>1, <2>2, <4>2
      <3>3. streamActive => InStreamAt(returnQueue, gateway, Len(returnQueue) + 1)
        BY <2>4 DEF IInv, QueueInStream
      <3>4. \A i \in 1 .. Len(returnQueue') :
              returnQueue'[i] = "voice" => InStreamAt(returnQueue', gateway', i)
        <4>1. SUFFICES ASSUME NEW i \in 1 .. Len(returnQueue'), returnQueue'[i] = "voice"
                       PROVE  InStreamAt(returnQueue', gateway', i)
          OBVIOUS
        <4>2. CASE i = Len(returnQueue) + 1
          BY <2>3, <2>4, <3>2, <3>3, <4>1, <4>2
        <4>3. CASE i # Len(returnQueue) + 1
          <5>1. i \in 1 .. Len(returnQueue) /\ returnQueue[i] = "voice"
            BY <2>3, <4>1, <4>3
          <5>2. InStreamAt(returnQueue, gateway, i)
            BY <2>4, <5>1 DEF IInv, QueueInStream
          <5>3. QED
            BY <2>3, <3>2, <5>1, <5>2
        <4>4. QED
          BY <4>2, <4>3
      <3>5. f = "header" \/ (f # "term" /\ streamActive)
              => InStreamAt(returnQueue', gateway', Len(returnQueue') + 1)
        BY <1>1, <2>1, <2>2, <3>3, InStreamBehind
      <3>6. QED
        BY <3>1, <3>4, <3>5
    <2>5. QED
      BY <1>1, <1>3, <2>1, <2>3, <2>4 DEF ImmediateQueuesNothing
  <1>4. QED
    BY <1>2, <1>3

\* A voice frame behind the header inserted for it is in a stream whatever was
\* there before, and leaves it open.
LEMMA DeliverTwo ==
    ASSUME IInv, Deliver(<<"header", "voice">>), UNCHANGED behavior
    PROVE  /\ returnQueue' \in Seq(FrameKind)
           /\ gateway' \in {"open", "closed"}
           /\ headless' \in BOOLEAN
           /\ ImmediateQueuesNothing'
           /\ behavior.insertHeader /\ clean =>
                /\ ~headless'
                /\ \A i \in 1 .. Len(returnQueue') :
                      returnQueue'[i] = "voice" => InStreamAt(returnQueue', gateway', i)
                /\ InStreamAt(returnQueue', gateway', Len(returnQueue') + 1)
  <1>1. /\ returnQueue \in Seq(FrameKind)
        /\ gateway \in {"open", "closed"}
        /\ headless \in BOOLEAN
        /\ "header" \in FrameKind /\ "voice" \in FrameKind
    BY DEF IInv, TypeOK, FrameKind
  <1>2. CASE behavior.interval = 0
    <2>1. /\ gateway' = "open"
          /\ headless' = headless
          /\ returnQueue' = returnQueue
          /\ returnQueue = <<>>
      BY <1>1, <1>2 DEF Deliver, GatewayAfter, Headless, IInv, ImmediateQueuesNothing
    <2>2. QED
      BY <1>1, <2>1, InStreamEmpty DEF IInv, ImmediateQueuesNothing, HeaderBeforeVoice
  <1>3. CASE behavior.interval # 0
    <2> DEFINE mid == Append(returnQueue, "header")
    <2>1. /\ returnQueue' = returnQueue \o <<"header", "voice">>
          /\ gateway' = gateway
          /\ headless' = headless
      BY <1>3 DEF Deliver
    <2>2. returnQueue' = Append(mid, "voice")
      BY <1>1, <2>1
    <2>3. /\ mid \in Seq(FrameKind)
          /\ returnQueue' \in Seq(FrameKind)
          /\ Len(mid) = Len(returnQueue) + 1
          /\ Len(returnQueue') = Len(mid) + 1
          /\ \A i \in 1 .. Len(mid) : returnQueue'[i] = mid[i]
          /\ \A i \in 1 .. Len(returnQueue) : mid[i] = returnQueue[i]
          /\ mid[Len(returnQueue) + 1] = "header"
          /\ Len(returnQueue) \in Nat
      BY <1>1, <2>2
    <2>4. InStreamAt(mid, gateway, Len(mid) + 1)
      BY <1>1, InStreamBehind
    <2>5. InStreamAt(returnQueue', gateway', Len(returnQueue') + 1)
      <3>1. InStreamAt(Append(mid, "voice"), gateway, Len(Append(mid, "voice")) + 1)
        BY <1>1, <2>3, <2>4, InStreamBehind
      <3>2. QED
        BY <2>1, <2>2, <3>1
    <2>6. ASSUME behavior.insertHeader, clean,
                 NEW i \in 1 .. Len(returnQueue'), returnQueue'[i] = "voice"
          PROVE  InStreamAt(returnQueue', gateway', i)
      <3>1. i \in 1 .. Len(mid) + 1
        BY <2>3
      <3>2. InStreamAt(Append(mid, "voice"), gateway, i) <=> InStreamAt(mid, gateway, i)
        BY <1>1, <2>3, <3>1, InStreamAppend
      <3>3. CASE i = Len(mid) + 1
        BY <2>1, <2>2, <2>4, <3>2, <3>3
      <3>4. CASE i # Len(mid) + 1
        <4>1. i \in 1 .. Len(returnQueue) /\ returnQueue[i] = "voice"
          BY <2>3, <2>6, <3>4
        <4>2. InStreamAt(returnQueue, gateway, i)
          BY <2>6, <4>1 DEF IInv, QueueInStream
        <4>3. InStreamAt(mid, gateway, i)
          BY <1>1, <4>1, <4>2, InStreamAppend
        <4>4. QED
          BY <2>1, <2>2, <3>2, <4>3
      <3>5. QED
        BY <3>3, <3>4
    <2>7. behavior.insertHeader /\ clean => ~headless'
      BY <2>1 DEF IInv, HeaderBeforeVoice
    <2>8. QED
      BY <1>1, <1>3, <2>1, <2>3, <2>5, <2>6, <2>7 DEF ImmediateQueuesNothing
  <1>4. QED
    BY <1>2, <1>3

LEMMA RelayOtherIInv ==
    ASSUME IInv, RelayOther
    PROVE  IInv'
  <1>1. /\ inbox' \in Seq(Packet)
        /\ "other" \in FrameKind
        /\ pc = "drain"
        /\ Deliver(<<"other">>)
        /\ UNCHANGED <<pc, behavior, nextSend, streamActive, sinceFrame, timeout, sinceSend,
                       clean, quiet>>
    BY DEF RelayOther, IInv, TypeOK, FrameKind
  <1>2. TypeOK'
    BY <1>1, DeliverOne DEF IInv, TypeOK
  <1>3. HeaderBeforeVoice' /\ QueueInStream' /\ ImmediateQueuesNothing'
    BY <1>1, DeliverOne DEF HeaderBeforeVoice, QueueInStream
  <1>4. QED
    BY <1>1, <1>2, <1>3 DEF IInv, NoOversleep, StreamStampTogether, SendSpacing

\* What every frame does before its fate is decided.
LEMMA NextFrameTyped ==
    ASSUME IInv, NEW p \in Packet, NextFrame(p)
    PROVE  /\ inbox' \in Seq(Packet)
           /\ pc = "drain" /\ pc' = "drain"
           /\ p.kind \in {"header", "voice", "term"}
           /\ p.kind \in FrameKind
           /\ nextSend' \in Nat
           /\ nextSend <= nextSend'
           /\ nextSend' <= Largest(behavior.interval, behavior.startDelay)
           /\ clean' \in BOOLEAN
           /\ clean' => clean /\ ~HeaderRefused(p)
           /\ UNCHANGED <<behavior, timeout, sinceSend, quiet>>
  <1>1. /\ nextSend \in Nat
        /\ nextSend <= Largest(behavior.interval, behavior.startDelay)
        /\ behavior \in Behavior
        /\ clean \in BOOLEAN
    BY DEF IInv, TypeOK
  <1>2. /\ nextSend' \in Nat
        /\ nextSend <= nextSend'
        /\ nextSend' <= Largest(behavior.interval, behavior.startDelay)
    BY <1>1, BehaviorTyped DEF NextFrame, DelayedSend, Largest
  <1>3. inbox' \in Seq(Packet) /\ pc = "drain" /\ pc' = "drain"
    BY DEF NextFrame, IInv, TypeOK
  <1>4. QED
    BY <1>1, <1>2, <1>3 DEF NextFrame, FrameKind

LEMMA RelayFrameIInv ==
    ASSUME IInv, NEW p \in Packet, RelayFrame(p)
    PROVE  IInv'
  <1>1. NextFrame(p) /\ ~PrepareFails(p) /\ StreamAfter(p)
    BY DEF RelayFrame
  <1>2. /\ streamActive' \in BOOLEAN
        /\ sinceFrame' \in None .. MaxAge
        /\ StreamStampTogether'
        /\ streamActive' => p.kind # "term"
    <2>1. CASE p.kind = "term"
      <3>1. streamActive' = FALSE /\ sinceFrame' = None
        BY <1>1, <2>1 DEF StreamAfter
      <3>2. None \in None .. MaxAge
        BY TimeAssumption
      <3>3. QED
        BY <3>1, <3>2 DEF StreamStampTogether
    <2>2. CASE p.kind # "term"
      BY <1>1, <2>2, TimeAssumption DEF StreamAfter, StreamStampTogether
    <2>3. QED
      BY <2>1, <2>2
  <1>3. SendSpacing'
    BY <1>1, NextFrameTyped, BehaviorTyped DEF IInv, SendSpacing, TypeOK
  <1>4. NoOversleep'
    BY <1>1, NextFrameTyped DEF NoOversleep
  <1>5. CASE InsertsHeader(p)
    <2>1. Deliver(<<"header", "voice">>) /\ p.kind = "voice"
      BY <1>5 DEF RelayFrame, InsertsHeader
    <2>2. TypeOK'
      BY <1>1, <1>2, <2>1, NextFrameTyped, DeliverTwo DEF IInv, TypeOK
    <2>3. HeaderBeforeVoice' /\ QueueInStream' /\ ImmediateQueuesNothing'
      BY <1>1, <2>1, NextFrameTyped, DeliverTwo DEF HeaderBeforeVoice, QueueInStream
    <2>4. QED
      BY <1>2, <1>3, <1>4, <2>2, <2>3 DEF IInv
  <1>6. CASE ~InsertsHeader(p)
    \* No header is due: voice continues a stream that is active.
    <2>1. Deliver(<<p.kind>>)
      BY <1>6 DEF RelayFrame
    <2>2. behavior.insertHeader /\ p.kind = "voice" => streamActive
      BY <1>6 DEF InsertsHeader, NewStream
    <2>3. TypeOK'
      BY <1>1, <1>2, <2>1, NextFrameTyped, DeliverOne DEF IInv, TypeOK
    <2>4. HeaderBeforeVoice' /\ QueueInStream' /\ ImmediateQueuesNothing'
      <3>1. ImmediateQueuesNothing'
        BY <1>1, <2>1, NextFrameTyped, DeliverOne
      <3>2. ASSUME behavior.insertHeader, clean'
            PROVE  /\ ~headless'
                   /\ \A i \in 1 .. Len(returnQueue') :
                         returnQueue'[i] = "voice" => InStreamAt(returnQueue', gateway', i)
                   /\ streamActive' => InStreamAt(returnQueue', gateway', Len(returnQueue') + 1)
        <4>1. clean /\ p.kind \in {"header", "voice", "term"} /\ p.kind \in FrameKind
          BY <1>1, <3>2, NextFrameTyped
        <4>2. behavior' = behavior
          BY <1>1, NextFrameTyped
        <4>3. QED
          BY <1>2, <2>1, <2>2, <3>2, <4>1, <4>2, DeliverOne
      <3>3. QED
        BY <1>1, <3>1, <3>2, NextFrameTyped DEF HeaderBeforeVoice, QueueInStream
    <2>5. QED
      BY <1>2, <1>3, <1>4, <2>3, <2>4 DEF IInv
  <1>7. QED
    BY <1>5, <1>6

LEMMA RelayFailedIInv ==
    ASSUME IInv, NEW p \in Packet, RelayFailed(p)
    PROVE  IInv'
  <1>1. NextFrame(p) /\ PrepareFails(p) /\ StreamAfterFailure(p) /\ Deliver(<<p.kind>>)
    BY DEF RelayFailed
  <1>2. /\ streamActive' \in BOOLEAN
        /\ sinceFrame' \in None .. MaxAge
        /\ StreamStampTogether'
    <2>1. CASE behavior.insertHeader /\ p.kind = "header"
      BY <1>1, <2>1, TimeAssumption DEF StreamAfterFailure, StreamStampTogether
    <2>2. CASE ~(behavior.insertHeader /\ p.kind = "header")
      BY <1>1, <2>2 DEF StreamAfterFailure, StreamStampTogether, IInv, TypeOK
    <2>3. QED
      BY <2>1, <2>2
  <1>3. SendSpacing'
    BY <1>1, NextFrameTyped, BehaviorTyped DEF IInv, SendSpacing, TypeOK
  <1>4. NoOversleep'
    BY <1>1, NextFrameTyped DEF NoOversleep
  <1>5. ~clean'
    BY <1>1, NextFrameTyped DEF PrepareFails, RewriteFails, HeaderRefused
  <1>6. TypeOK' /\ ImmediateQueuesNothing'
    BY <1>1, <1>2, NextFrameTyped, DeliverOne DEF IInv, TypeOK
  <1>7. QED
    BY <1>2, <1>3, <1>4, <1>5, <1>6 DEF IInv, HeaderBeforeVoice, QueueInStream

LEMMA NextIInv == IInv /\ [Next]_vars => IInv'
  <1> SUFFICES ASSUME IInv, [Next]_vars PROVE IInv'
    OBVIOUS
  <1>1. CASE Arrive \/ GoQuiet
    BY <1>1, EnvironmentIInv
  <1>2. CASE Tick
    BY <1>2, TickIInv
  <1>3. CASE Crash
    BY <1>3, CrashIInv
  <1>4. CASE Top
    BY <1>4, TopIInv
  <1>5. CASE Bottom
    BY <1>5, BottomIInv
  <1>6. CASE WakeReadable \/ WakeTimeout \/ WakeGateway \/ DrainDone
    BY <1>6, WakeIInv
  <1>7. CASE RelayOther
    BY <1>7, RelayOtherIInv
  <1>8. CASE \E p \in Packet : RelayFrame(p) \/ RelayFailed(p)
    BY <1>8, RelayFrameIInv, RelayFailedIInv
  <1>9. CASE UNCHANGED vars
    BY <1>9 DEF IInv, vars, router, history, TypeOK, HeaderBeforeVoice, NoOversleep,
       StreamStampTogether, ImmediateQueuesNothing, QueueInStream, SendSpacing
  <1>10. QED
    BY <1>1, <1>2, <1>3, <1>4, <1>5, <1>6, <1>7, <1>8, <1>9 DEF Next, Drain

-----------------------------------------------------------------------------

\* The inductive invariant holds in every reachable state.
THEOREM Invariance == Spec => []IInv
  BY InitIInv, NextIInv, PTL DEF Spec

\* For every order of arrivals, every pacing and every restart, and with no
\* bound on the queue but the name MaxPending, YSFGateway gets no voice frame
\* outside a stream while headers are inserted and every frame is clean.
THEOREM VoiceHasHeader == Spec => []HeaderBeforeVoice
  <1>1. IInv => HeaderBeforeVoice
    BY DEF IInv
  <1>2. QED
    BY <1>1, Invariance, PTL

\* The loop never sleeps past the time of the frame at the head of the queue.
THEOREM SelectWakesInTime == Spec => []NoOversleep
  <1>1. IInv => NoOversleep
    BY DEF IInv
  <1>2. QED
    BY <1>1, Invariance, PTL

\* For every interval and start delay, frames leave the queue at least the
\* interval apart.
THEOREM FramesArePaced == Spec => Paced
  <1>1. ASSUME IInv, Next, Flushed, sinceSend # None
        PROVE  sinceSend >= behavior.interval
    <2>1. sinceSend + nextSend >= behavior.interval
      BY <1>1 DEF IInv, SendSpacing
    <2>2. nextSend = 0
      \* Only a flush takes the head of the queue and stamps a send; any other
      \* step that shortens the queue is a crash, which clears the stamp.
      <3>1. CASE FlushReturnQueue
        <4>1. returnQueue' # returnQueue
          BY <1>1 DEF Flushed, IInv, TypeOK
        <4>2. QED
          BY <3>1, <4>1 DEF FlushReturnQueue, Due
      <3>2. CASE returnQueue' = returnQueue
        BY <1>1, <3>2 DEF Flushed, IInv, TypeOK
      <3>3. CASE Len(returnQueue') >= Len(returnQueue)
        BY <1>1, <3>3 DEF Flushed, IInv, TypeOK
      <3>4. CASE sinceSend' = None
        BY <1>1, <3>4 DEF Flushed
      <3>5. ASSUME NEW f \in Seq(FrameKind), Deliver(f)
            PROVE  Len(returnQueue') >= Len(returnQueue)
        BY <1>1, <3>5 DEF Deliver, IInv, TypeOK
      <3>6. ASSUME RelayOther \/ \E p \in Packet : RelayFrame(p) \/ RelayFailed(p)
            PROVE  \E f \in Seq(FrameKind) : Deliver(f)
        <4>1. CASE RelayOther
          <5>1. <<"other">> \in Seq(FrameKind)
            BY DEF FrameKind
          <5>2. QED
            BY <4>1, <5>1 DEF RelayOther
        <4>2. ASSUME NEW p \in Packet, RelayFrame(p) \/ RelayFailed(p)
              PROVE  \E f \in Seq(FrameKind) : Deliver(f)
          <5>1. p.kind \in FrameKind /\ "header" \in FrameKind
            BY <1>1, <4>2, NextFrameTyped DEF RelayFrame, RelayFailed, FrameKind
          <5>2. <<p.kind>> \in Seq(FrameKind) /\ <<"header", p.kind>> \in Seq(FrameKind)
            BY <5>1
          <5>3. QED
            BY <4>2, <5>2 DEF RelayFrame, RelayFailed
        <4>3. QED
          BY <3>6, <4>1, <4>2
      <3>7. QED
        BY <1>1, <3>1, <3>2, <3>3, <3>4, <3>5, <3>6 DEF Next, Arrive, GoQuiet, Tick, Crash,
           Top, WakeReadable, WakeTimeout, WakeGateway, Drain, DrainDone, Bottom, router
    <2>3. QED
      BY <1>1, <2>1, <2>2 DEF IInv, TypeOK
  <1>2. IInv /\ [Next]_vars => [Flushed /\ sinceSend # None => sinceSend >= behavior.interval]_vars
    BY <1>1
  <1>3. QED
    BY <1>2, Invariance, PTL DEF Spec, Paced
=============================================================================
