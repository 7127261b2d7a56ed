----------------------------- MODULE DmrTransmit -----------------------------
(***************************************************************************)
(* The transmit side of DmrMasterBrandMeisterTransport: from YSF frames    *)
(* handle_packet forwards to the DMRD packets the master receives          *)
(* (forward_ysf_payload, _queue_*, clock, _flush_dmr_tx_queue,             *)
(* _send_dmrd_*, select_timeout), in the loop of serve_forever.            *)
(*                                                                         *)
(* Packets wait in a paced queue as (talkgroup, type, payload); the stream *)
(* id and the sequence number are put on when a packet leaves, not when it *)
(* was queued.  What waits therefore leaves with the numbers of whatever   *)
(* call began last.                                                        *)
(*                                                                         *)
(* One frame of the radio is one action, as is one iteration's clock; other*)
(* frames, time and restarts come between any two.                         *)
(***************************************************************************)
EXTENDS Integers, Sequences

CONSTANTS
    Talkgroup,
    StreamId,      \* what SystemRandom may draw; it never draws the same twice running
    SequenceSpan,  \* sequence numbers are one byte
    Interval,      \* _dmr_frame_interval_seconds, in ticks
    PingAfter,     \* the 5.0 s between two pings, in ticks
    MaxTimeout,    \* the 1.0 s cap of RouterRuntime._select_timeout, in ticks
    MaxAge,        \* ages saturate here
    MaxBacklog     \* bound: the radio speaks only when no more packets wait

None == -1

\* A call is three LC headers, voice in superframes of six, a terminator.
Headers    == 3
Superframe == 6

ASSUME IdAssumption ==
    /\ None \notin StreamId
    /\ \A s \in StreamId : StreamId \ {s} # {}

ASSUME SpanAssumption == SequenceSpan \in Nat /\ SequenceSpan > Headers

ASSUME TimeAssumption ==
    /\ Interval \in Nat
    /\ PingAfter \in Nat
    /\ MaxTimeout \in Nat
    /\ MaxAge \in Nat
    /\ Interval <= MaxAge
    /\ PingAfter <= MaxAge

ASSUME BoundAssumption == MaxBacklog \in Nat

VARIABLES
    pc,           \* "top" of the loop, or in "select"
    timeout,      \* ticks left of the select call
    txQueue,      \* _dmr_tx_queue
    nextSend,     \* ticks until _next_dmr_send_at, 0 once it has passed
    txActive,     \* _dmr_tx_active
    streamId,     \* _dmr_stream_id
    sequence,     \* _dmr_sequence
    voiceCount,   \* _dmr_voice_count, of which only the remainder by 6 is used
    sincePing     \* age of _last_ping_at

\* History: what the master received, and whether the call being transmitted
\* began on an empty queue, keeps its talkgroup and has not outrun the sequence
\* number.
VARIABLES
    sent,         \* the last packet
    sinceSend,    \* its age
    tidy

transmitter == <<txQueue, txActive, streamId, sequence, voiceCount, nextSend>>
wire        == <<sent, sinceSend, tidy>>
vars        == <<pc, timeout, transmitter, sincePing, wire>>

\* A queued packet: nth, its place among the headers or the voice frames of
\* its superframe, is history.
Packet == [kind : {"header", "voice", "term"}, nth : 0 .. Superframe - 1,
           talkgroup : Talkgroup]

\* A DMRD packet, as far as the properties read it.
Dmrd == [kind : {"header", "voice", "term", "none"}, nth : 0 .. Superframe - 1,
         talkgroup : Talkgroup \cup {None}, stream : StreamId \cup {None},
         sequence : 0 .. SequenceSpan - 1, voiceIndex : 0 .. Superframe - 1]

NothingSent ==
    [kind |-> "none", nth |-> 0, talkgroup |-> None, stream |-> None, sequence |-> 0,
     voiceIndex |-> 0]

TypeOK ==
    /\ pc \in {"top", "select"}
    /\ timeout \in 0 .. MaxTimeout
    /\ txQueue \in Seq(Packet)
    /\ nextSend \in 0 .. Interval
    /\ txActive \in BOOLEAN
    /\ streamId \in StreamId \cup {None}
    /\ sequence \in 0 .. SequenceSpan - 1
    /\ voiceCount \in 0 .. Superframe - 1
    /\ sincePing \in 0 .. MaxAge
    /\ sent \in Dmrd
    /\ sinceSend \in None .. MaxAge
    /\ tidy \in BOOLEAN

\* A session that has just logged in.
Init ==
    /\ pc = "top"
    /\ timeout = 0
    /\ txQueue = <<>>
    /\ nextSend = 0
    /\ txActive = FALSE
    /\ streamId = None
    /\ sequence = 0
    /\ voiceCount = 0
    /\ sincePing = 0
    /\ sent = NothingSent
    /\ sinceSend = None
    /\ tidy = TRUE

\* The process dies, and systemd starts it again with a new login.  A frame of
\* FI 1 shorter than 155 bytes does it too: the repacking raises.
Crash ==
    /\ pc' = "top"
    /\ timeout' = 0
    /\ txQueue' = <<>>
    /\ nextSend' = 0
    /\ txActive' = FALSE
    /\ streamId' = None
    /\ sequence' = 0
    /\ voiceCount' = 0
    /\ sincePing' = 0
    /\ sent' = NothingSent
    /\ sinceSend' = None
    /\ tidy' = TRUE

Older(age)   == IF age = None \/ age = MaxAge THEN age ELSE age + 1
Sooner(left) == IF left = 0 THEN 0 ELSE left - 1

Tick ==
    /\ nextSend' = Sooner(nextSend)
    /\ timeout' = Sooner(timeout)
    /\ sincePing' = Older(sincePing)
    /\ sinceSend' = Older(sinceSend)
    /\ UNCHANGED <<pc, txQueue, txActive, streamId, sequence, voiceCount, sent, tidy>>

-----------------------------------------------------------------------------

\* _send_dmrd_control and _send_dmrd_voice: the numbers of the moment.
Stamped(p) ==
    [kind |-> p.kind, nth |-> p.nth, talkgroup |-> p.talkgroup, stream |-> streamId,
     sequence |-> sequence,
     voiceIndex |-> IF p.kind = "voice" THEN (sequence - Headers) % Superframe ELSE 0]

Successor(number) == (number + 1) % SequenceSpan

\* A wrong FlushDmrTxQueue: the time of the next packet is not set.
FlushDmrTxQueueUnpaced ==
    IF txQueue # <<>> /\ nextSend = 0
    THEN /\ txQueue' = Tail(txQueue)
         /\ sent' = Stamped(Head(txQueue))
         /\ sequence' = Successor(sequence)
         /\ tidy' = (tidy /\ sequence' # 0)
         /\ sinceSend' = 0
         /\ UNCHANGED nextSend
    ELSE UNCHANGED <<txQueue, sent, sequence, tidy, nextSend, sinceSend>>

\* Another: the last packet is kept back.
FlushDmrTxQueueKeepsOne ==
    IF Len(txQueue) > 1 /\ nextSend = 0
    THEN /\ txQueue' = Tail(txQueue)
         /\ sent' = Stamped(Head(txQueue))
         /\ sequence' = Successor(sequence)
         /\ tidy' = (tidy /\ sequence' # 0)
         /\ nextSend' = Interval
         /\ sinceSend' = 0
    ELSE UNCHANGED <<txQueue, sent, sequence, tidy, nextSend, sinceSend>>

\* _flush_dmr_tx_queue: at most one packet, and only once its time has come.
FlushDmrTxQueue ==
    IF txQueue # <<>> /\ nextSend = 0
    THEN /\ txQueue' = Tail(txQueue)
         /\ sent' = Stamped(Head(txQueue))
         /\ sequence' = Successor(sequence)
         /\ tidy' = (tidy /\ sequence' # 0)
         /\ nextSend' = Interval
         /\ sinceSend' = 0
    ELSE UNCHANGED <<txQueue, sent, sequence, tidy, nextSend, sinceSend>>

\* A wrong SelectTimeout: the queue is not looked at.
SelectTimeoutIgnoringQueue(queue, left) == MaxTimeout

\* The transport's share of _select_timeout; a frame waiting in the return
\* queue can only make it shorter.
SelectTimeout(queue, left) ==
    IF queue = <<>> \/ left > MaxTimeout THEN MaxTimeout ELSE left

\* A wrong Clock: no ping while packets wait.
ClockPingsWhenIdle ==
    /\ pc = "top"
    /\ sincePing' = IF sincePing >= PingAfter /\ txQueue = <<>> THEN 0 ELSE sincePing
    /\ FlushDmrTxQueue
    /\ timeout' \in 0 .. SelectTimeout(txQueue', nextSend')
    /\ pc' = "select"
    /\ UNCHANGED <<txActive, streamId, voiceCount>>

\* The head of the loop: clock pings, flushes, and select is entered.
Clock ==
    /\ pc = "top"
    /\ sincePing' = IF sincePing >= PingAfter THEN 0 ELSE sincePing
    /\ FlushDmrTxQueue
    /\ timeout' \in 0 .. SelectTimeout(txQueue', nextSend')
    /\ pc' = "select"
    /\ UNCHANGED <<txActive, streamId, voiceCount>>

\* select returns: its time is up, or something came that queues nothing: a
\* datagram of the master, a poll, FI 3, or voice and terminators with no call.
WakeTimeout ==
    /\ pc = "select"
    /\ timeout = 0
    /\ pc' = "top"
    /\ UNCHANGED <<timeout, transmitter, sincePing, wire>>

WakeOther ==
    /\ pc = "select"
    /\ pc' = "top"
    /\ UNCHANGED <<timeout, transmitter, sincePing, wire>>

-----------------------------------------------------------------------------

\* The packet queued last, or sent last if none waits.
LastPacket(first, queue) == IF queue = <<>> THEN first ELSE queue[Len(queue)]

LastTalkgroup == LastPacket(sent, txQueue).talkgroup

Header(n, tg) == [kind |-> "header", nth |-> n, talkgroup |-> tg]
Voice(n, tg)  == [kind |-> "voice", nth |-> n % Superframe, talkgroup |-> tg]
Term(tg)      == [kind |-> "term", nth |-> 0, talkgroup |-> tg]

\* forward_ysf_payload runs, between select and the head of the loop.
Forward(frames) ==
    /\ pc = "select"
    /\ Len(txQueue) <= MaxBacklog
    /\ txQueue' = txQueue \o frames
    /\ pc' = "top"
    /\ UNCHANGED <<timeout, nextSend, sincePing, sent, sinceSend>>

\* A wrong BeginCall: the sequence number runs on.
BeginCallUnnumbered(tg) ==
    /\ Forward(<<Header(0, tg), Header(1, tg), Header(2, tg)>>)
    /\ streamId' \in StreamId \ {streamId}
    /\ voiceCount' = 0
    /\ txActive' = TRUE
    /\ tidy' = (txQueue = <<>>)
    /\ UNCHANGED sequence

\* FI 0: a new call, whatever still waits.
BeginCall(tg) ==
    /\ Forward(<<Header(0, tg), Header(1, tg), Header(2, tg)>>)
    /\ streamId' \in StreamId \ {streamId}
    /\ sequence' = 0
    /\ voiceCount' = 0
    /\ txActive' = TRUE
    /\ tidy' = (txQueue = <<>>)

\* FI 1: five AMBE chunks make two DMR frames.
Speak(tg) ==
    /\ txActive
    /\ Forward(<<Voice(voiceCount, tg), Voice(voiceCount + 1, tg)>>)
    /\ voiceCount' = (voiceCount + 2) % Superframe
    /\ tidy' = (tidy /\ tg = LastTalkgroup)
    /\ UNCHANGED <<streamId, sequence, txActive>>

\* A wrong Padding: one frame short.
PaddingShort(tg) ==
    [i \in 1 .. (Superframe - 1 - voiceCount) % Superframe |-> Voice(voiceCount + i - 1, tg)]

\* The silence that completes the superframe.
Padding(tg) ==
    [i \in 1 .. (Superframe - voiceCount) % Superframe |-> Voice(voiceCount + i - 1, tg)]

\* A wrong EndCall: the count of voice frames is not completed.
EndCallUncounted(tg) ==
    /\ txActive
    /\ Forward(Append(Padding(tg), Term(tg)))
    /\ tidy' = (tidy /\ tg = LastTalkgroup)
    /\ UNCHANGED <<voiceCount, txActive, streamId, sequence>>

\* FI 2: the superframe is completed with silence and the call closed.
EndCall(tg) ==
    /\ txActive
    /\ Forward(Append(Padding(tg), Term(tg)))
    /\ voiceCount' = 0
    /\ txActive' = FALSE
    /\ tidy' = (tidy /\ tg = LastTalkgroup)
    /\ UNCHANGED <<streamId, sequence>>

Next ==
    \/ Crash
    \/ Tick
    \/ Clock
    \/ WakeTimeout
    \/ WakeOther
    \/ \E tg \in Talkgroup : BeginCall(tg) \/ Speak(tg) \/ EndCall(tg)

Spec == Init /\ [][Next]_vars

\* The loop is a program that runs, and time passes.
FairSpec == Spec /\ WF_vars(Clock) /\ WF_vars(WakeTimeout) /\ WF_vars(Tick)

-----------------------------------------------------------------------------

\* A packet leaves for the master.
Sends ==
    /\ txQueue # <<>>
    /\ txQueue' = Tail(txQueue)
    /\ sent'.kind # "none"

Begins(p) == p.kind = "header" /\ p.nth = 0

\* b may come right behind a: three headers, voice frame after voice frame, a
\* terminator only behind a whole superframe (or none), and a new call at any
\* time.
Follows(a, b) ==
    \/ Begins(b)
    \/ b.kind = "header" /\ a.kind = "header" /\ b.nth = a.nth + 1
    \/ /\ b.kind = "voice"
       /\ \/ a.kind = "header" /\ a.nth = Headers - 1 /\ b.nth = 0
          \/ a.kind = "voice" /\ b.nth = (a.nth + 1) % Superframe
    \/ /\ b.kind = "term"
       /\ \/ a.kind = "header" /\ a.nth = Headers - 1
          \/ a.kind = "voice" /\ a.nth = Superframe - 1

\* The master receives whole calls, however the radio's frames, lost headers
\* and terminators included, interleave with the pacing of the queue: voice
\* only behind three headers, every superframe complete before the terminator,
\* nothing between a terminator and the next header.
WholeCalls == [][Sends => Follows(sent, sent')]_vars

\* A call that began on an empty queue, keeps its talkgroup and has not outrun
\* the sequence number is one stream to one talkgroup, numbered without a gap,
\* and each voice frame carries its own place in the superframe.  All three
\* conditions are needed: packets are numbered when they leave, so a header that
\* finds packets of the last call waiting gives them its own stream and numbers;
\* a route change whose header was lost goes on in the stream of the old route;
\* and as the superframe position is computed from the sequence number, which
\* wraps at 256, no multiple of 6, the positions jump after 253 voice frames.
InStep ==
    [][Sends /\ tidy =>
        /\ ~Begins(sent') => /\ sent'.stream = sent.stream
                             /\ sent'.sequence = sent.sequence + 1
                             /\ sent'.talkgroup = sent.talkgroup
        /\ sent'.kind = "voice" => sent'.voiceIndex = sent'.nth]_vars

\* Two packets leave at least the interval apart.
DmrPaced == [][Sends /\ sinceSend # None => sinceSend >= Interval]_vars

\* select never sleeps past the time of the packet at the head of the queue.
NoOversleep == pc = "select" /\ txQueue # <<>> => timeout <= nextSend

\* While packets wait they keep leaving, whatever the radio does, unless the
\* process dies.
QueueMoves == txQueue # <<>> /\ sinceSend = MaxAge ~> sinceSend \in {0, None}

\* The master is pinged again and again, during a call as well.
KeepsAlive == sincePing >= PingAfter ~> sincePing = 0

-----------------------------------------------------------------------------

\* What makes WholeCalls inductive: the queue continues what was sent, packet by
\* packet, and while a call is open its next voice frame fits behind the last.
Chained(first, queue) ==
    \A i \in 1 .. Len(queue) : Follows(IF i = 1 THEN first ELSE queue[i - 1], queue[i])

Awaits(last, nth) ==
    \/ last.kind = "header" /\ last.nth = Headers - 1 /\ nth = 0
    \/ last.kind = "voice" /\ nth = (last.nth + 1) % Superframe

QueueIsChained == Chained(sent, txQueue)

OpenCall == txActive => Awaits(LastPacket(sent, txQueue), voiceCount)

\* What makes InStep inductive: the number a waiting packet will get is the one
\* its place in the call asks for, and the last packet had the number before.
Fits(kind, nth, number) ==
    CASE kind = "header" -> number = nth
      [] kind = "voice"  -> number >= Headers /\ (number - Headers) % Superframe = nth
      [] OTHER           -> number >= Headers

InTurn(queue, number, talkgroup) ==
    \A i \in 1 .. Len(queue) : /\ Fits(queue[i].kind, queue[i].nth, number + i - 1)
                              /\ queue[i].talkgroup = talkgroup

Numbered ==
    tidy =>
        /\ InTurn(txQueue, sequence, LastTalkgroup)
        /\ txActive => Fits("voice", voiceCount, sequence + Len(txQueue))
        /\ sequence # 0 => /\ sent.stream = streamId
                           /\ sent.sequence = sequence - 1
                           /\ sent.talkgroup = LastTalkgroup

\* Enough time has been set aside since the last packet.
SendSpacing == sinceSend # None => sinceSend + nextSend >= Interval

IInv ==
    /\ TypeOK
    /\ NoOversleep
    /\ QueueIsChained
    /\ OpenCall
    /\ Numbered
    /\ SendSpacing
=============================================================================
