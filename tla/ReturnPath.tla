------------------------------ MODULE ReturnPath ------------------------------
(***************************************************************************)
(* The inbound half of ysf-bm-router: from the datagrams BrandMeister sends*)
(* to what YSFGateway gets (RouterRuntime._enqueue_brandmeister_packets,   *)
(* _prepare_brandmeister_packets_for_ysf, _should_insert_return_header,    *)
(* _start_return_playout_delay, _flush_return_queue, _select_timeout) and  *)
(* the loop of serve_forever that drives it.                               *)
(*                                                                         *)
(* One action per step of the loop; datagrams arrive and time passes       *)
(* between any two of them.  Arrivals are arbitrary: a lost, duplicated or *)
(* late frame is one more order in which frames may arrive.  The send-time *)
(* stamp is modelled by the ticks left until it, the stamp of the last     *)
(* frame by its age, capped at MaxAge.                                     *)
(***************************************************************************)
EXTENDS Integers, Sequences

CONSTANTS
    Packet,      \* what may arrive, see PacketAssumption
    Behavior,    \* the [behavior] settings the file on disk may hold
    StreamGap,   \* _return_stream_gap_seconds, in ticks
    MaxTimeout,  \* the 1.0 s cap of _select_timeout, in ticks
    MaxAge,      \* ages saturate here
    MaxPending   \* bound: frames waiting in the socket and in the queue

None == -1

\* A datagram: its kind, whether it has the 155 bytes of a whole frame, and
\* whether its DG-ID is one make_ysfd_header_frame accepts.  "control" is what
\* recv_packet swallows, "other" what is relayed untouched (no YSFD, or one
\* that does not decode), and the rest is the frame's FI.
FrameKind == {"other", "header", "voice", "term"}

ASSUME PacketAssumption ==
    Packet \subseteq [kind : FrameKind \cup {"control"}, whole : BOOLEAN, plain : BOOLEAN]

ASSUME BehaviorAssumption ==
    Behavior \subseteq [interval : Nat, startDelay : Nat, insertHeader : BOOLEAN,
                        rewriteDgid : BOOLEAN, showCallsign : BOOLEAN]

ASSUME TimeAssumption ==
    /\ StreamGap \in Nat
    /\ MaxTimeout \in Nat
    /\ MaxAge \in Nat
    /\ StreamGap < MaxAge
    /\ \A c \in Behavior : c.interval <= MaxAge

ASSUME BoundAssumption == MaxPending \in Nat

VARIABLES
    pc,            \* where serve_forever is: "top", "select", "drain", "bottom"
    behavior,      \* the settings the process runs with
    inbox,         \* datagrams in the transport's socket
    returnQueue,   \* _return_queue, a frame by its kind
    nextSend,      \* ticks until _next_return_send_at, 0 once it has passed
    streamActive,  \* _return_stream_active
    sinceFrame,    \* age of _last_return_frame_at
    timeout        \* ticks left of the select call

\* History and environment.
VARIABLES
    gateway,       \* YSFGateway's view of the stream: "open" or "closed"
    headless,      \* a voice frame has reached it outside a stream
    sinceSend,     \* age of the last paced send
    clean,         \* no frame so far was short or refused a header
    quiet          \* BrandMeister has stopped sending

router  == <<behavior, returnQueue, nextSend, streamActive, sinceFrame>>
history == <<gateway, headless, sinceSend, clean>>
vars    == <<pc, router, inbox, timeout, history, quiet>>

Largest(a, b)  == IF a < b THEN b ELSE a
Smallest(a, b) == IF a < b THEN a ELSE b

TypeOK ==
    /\ pc \in {"top", "select", "drain", "bottom"}
    /\ behavior \in Behavior
    /\ inbox \in Seq(Packet)
    /\ returnQueue \in Seq(FrameKind)
    /\ nextSend \in Nat
    /\ nextSend <= Largest(behavior.interval, behavior.startDelay)
    /\ streamActive \in BOOLEAN
    /\ sinceFrame \in None .. MaxAge
    /\ timeout \in 0 .. MaxTimeout
    /\ gateway \in {"open", "closed"}
    /\ headless \in BOOLEAN
    /\ sinceSend \in None .. MaxAge
    /\ clean \in BOOLEAN
    /\ quiet \in BOOLEAN

Init ==
    /\ pc = "top"
    /\ behavior \in Behavior
    /\ inbox = <<>>
    /\ returnQueue = <<>>
    /\ nextSend = 0
    /\ streamActive = FALSE
    /\ sinceFrame = None
    /\ timeout = 0
    /\ gateway = "closed"
    /\ headless = FALSE
    /\ sinceSend = None
    /\ clean = TRUE
    /\ quiet = FALSE

-----------------------------------------------------------------------------

\* The environment: BrandMeister sends, or stops for good.
Arrive ==
    /\ ~quiet
    /\ Len(inbox) + Len(returnQueue) < MaxPending
    /\ \E p \in Packet : inbox' = Append(inbox, p)
    /\ UNCHANGED <<pc, router, timeout, history, quiet>>

GoQuiet ==
    /\ ~quiet
    /\ quiet' = TRUE
    /\ UNCHANGED <<pc, router, inbox, timeout, history>>

Older(age) == IF age = None \/ age = MaxAge THEN age ELSE age + 1
Sooner(left) == IF left = 0 THEN 0 ELSE left - 1

Tick ==
    /\ sinceFrame' = Older(sinceFrame)
    /\ sinceSend' = Older(sinceSend)
    /\ nextSend' = Sooner(nextSend)
    /\ timeout' = Sooner(timeout)
    /\ UNCHANGED <<pc, behavior, inbox, returnQueue, streamActive, gateway, headless,
                   clean, quiet>>

\* The process dies and systemd starts it again, on what the file holds then:
\* the queue, the stream and the socket are lost, YSFGateway's view is not,
\* and the history of frames starts anew.
Crash ==
    /\ pc' = "top"
    /\ behavior' \in Behavior
    /\ inbox' = <<>>
    /\ returnQueue' = <<>>
    /\ nextSend' = 0
    /\ streamActive' = FALSE
    /\ sinceFrame' = None
    /\ timeout' = 0
    /\ headless' = FALSE
    /\ sinceSend' = None
    /\ clean' = TRUE
    /\ UNCHANGED <<gateway, quiet>>

-----------------------------------------------------------------------------

\* What one frame does to YSFGateway's stream, and whether it is voice that
\* no header announced.
GatewayAfter(g, frame) ==
    CASE frame = "header" -> "open"
      [] frame = "term"   -> "closed"
      [] OTHER            -> g

Headless(g, frame) == g = "closed" /\ frame = "voice"

\* A wrong Due: the last frame is kept back.
DueKeepsOne == Len(returnQueue) > 1 /\ nextSend = 0

\* _flush_return_queue: at most one frame, and only once its time has come.
Due == returnQueue # <<>> /\ nextSend = 0

FlushReturnQueue ==
    IF Due
    THEN /\ returnQueue' = Tail(returnQueue)
         /\ nextSend' = behavior.interval
         /\ gateway' = GatewayAfter(gateway, Head(returnQueue))
         /\ headless' = (headless \/ Headless(gateway, Head(returnQueue)))
         /\ sinceSend' = 0
    ELSE UNCHANGED <<returnQueue, nextSend, gateway, headless, sinceSend>>

\* A wrong SelectTimeout: the queue is not looked at.
SelectTimeoutIgnoringQueue(queue, left) == MaxTimeout

\* _select_timeout, for a transport without a timeout of its own.
SelectTimeout(queue, left) ==
    IF queue = <<>> THEN MaxTimeout ELSE Smallest(MaxTimeout, left)

\* The head of the loop: the clock is read, one frame flushed, select entered.
Top ==
    /\ pc = "top"
    /\ FlushReturnQueue
    /\ timeout' = SelectTimeout(returnQueue', nextSend')
    /\ pc' = "select"
    /\ UNCHANGED <<behavior, inbox, streamActive, sinceFrame, clean, quiet>>

\* select returns: the transport is readable ...
WakeReadable ==
    /\ pc = "select"
    /\ inbox # <<>>
    /\ pc' = "drain"
    /\ UNCHANGED <<router, inbox, timeout, history, quiet>>

\* ... or it is not, and the time is up or YSFGateway sent a datagram, whose
\* handling (module Routing) shares nothing with this state.
WakeTimeout ==
    /\ pc = "select"
    /\ inbox = <<>>
    /\ timeout = 0
    /\ pc' = "bottom"
    /\ UNCHANGED <<router, inbox, timeout, history, quiet>>

WakeGateway ==
    /\ pc = "select"
    /\ inbox = <<>>
    /\ pc' = "bottom"
    /\ UNCHANGED <<router, inbox, timeout, history, quiet>>

\* The second flush of the iteration.
Bottom ==
    /\ pc = "bottom"
    /\ FlushReturnQueue
    /\ pc' = "top"
    /\ UNCHANGED <<behavior, inbox, streamActive, sinceFrame, timeout, clean, quiet>>

-----------------------------------------------------------------------------

\* The body of _enqueue_brandmeister_packets on what was prepared: sent at
\* once when no interval is configured, queued otherwise.  A list holds one
\* frame, or an inserted header and one frame.
Deliver(frames) ==
    IF behavior.interval = 0
    THEN LET g == IF Len(frames) = 2 THEN GatewayAfter(gateway, frames[1]) ELSE gateway
             f == frames[Len(frames)]
         IN  /\ gateway' = GatewayAfter(g, f)
             /\ headless' = (headless \/ Headless(g, f))
             /\ UNCHANGED returnQueue
    ELSE /\ returnQueue' = returnQueue \o frames
         /\ UNCHANGED <<gateway, headless>>

\* recv_packet returns None: nothing is left, or a control datagram was read,
\* which ends the loop whatever is left behind it.
DrainDone ==
    /\ pc = "drain"
    /\ \/ inbox = <<>> /\ UNCHANGED inbox
       \/ inbox # <<>> /\ Head(inbox).kind = "control" /\ inbox' = Tail(inbox)
    /\ pc' = "bottom"
    /\ UNCHANGED <<router, timeout, history, quiet>>

RelayOther ==
    /\ pc = "drain"
    /\ inbox # <<>>
    /\ Head(inbox).kind = "other"
    /\ inbox' = Tail(inbox)
    /\ Deliver(<<"other">>)
    /\ UNCHANGED <<pc, behavior, nextSend, streamActive, sinceFrame, timeout, sinceSend,
                   clean, quiet>>

\* No stream is active, or the last frame is further back than the gap.
NewStream == ~streamActive \/ sinceFrame = None \/ sinceFrame > StreamGap

\* _should_insert_return_header returns True for p.
InsertsHeader(p) == behavior.insertHeader /\ p.kind = "voice" /\ NewStream

\* A wrong DelayedSend: the delay replaces the pacing.
DelayedSendUnpaced(p) ==
    IF behavior.insertHeader /\ p.kind \in {"header", "voice"} /\ NewStream
    THEN behavior.startDelay
    ELSE nextSend

\* Its other effect: a header or voice frame that begins a stream restarts the
\* playout delay, whatever becomes of the frame.
DelayedSend(p) ==
    IF behavior.insertHeader /\ p.kind \in {"header", "voice"} /\ NewStream
    THEN Largest(nextSend, behavior.startDelay)
    ELSE nextSend

\* make_ysfd_header_frame raises for p, and rewrite_ysfd_vd2_source does.
HeaderRefused(p) == ~p.whole \/ (~behavior.rewriteDgid /\ ~p.plain)
RewriteFails(p)  == behavior.showCallsign /\ ~p.whole

PrepareFails(p) == RewriteFails(p) \/ (InsertsHeader(p) /\ HeaderRefused(p))

\* A wrong StreamAfter: a terminator does not end the stream.
StreamAfterMissedEnd(p) == streamActive' = TRUE /\ sinceFrame' = 0

\* The stream's state after a frame that went through ...
StreamAfter(p) ==
    IF p.kind = "term"
    THEN streamActive' = FALSE /\ sinceFrame' = None
    ELSE streamActive' = TRUE /\ sinceFrame' = 0

\* A wrong StreamAfterFailure: the stream is opened without its time stamp.
StreamAfterFailureUnstamped(p) ==
    IF behavior.insertHeader /\ p.kind = "header"
    THEN streamActive' = TRUE /\ UNCHANGED sinceFrame
    ELSE UNCHANGED <<streamActive, sinceFrame>>

\* ... and after one that raised: only the header's branch had already run.
StreamAfterFailure(p) ==
    IF behavior.insertHeader /\ p.kind = "header"
    THEN streamActive' = TRUE /\ sinceFrame' = 0
    ELSE UNCHANGED <<streamActive, sinceFrame>>

NextFrame(p) ==
    /\ pc = "drain"
    /\ inbox # <<>>
    /\ p = Head(inbox)
    /\ p.kind \in {"header", "voice", "term"}
    /\ inbox' = Tail(inbox)
    /\ nextSend' = DelayedSend(p)
    /\ clean' = (clean /\ ~HeaderRefused(p))
    /\ UNCHANGED <<pc, behavior, timeout, sinceSend, quiet>>

RelayFrame(p) ==
    /\ NextFrame(p)
    /\ ~PrepareFails(p)
    /\ StreamAfter(p)
    /\ Deliver(IF InsertsHeader(p) THEN <<"header", p.kind>> ELSE <<p.kind>>)

\* YsfDecodeError on the way: the frame is relayed with what was already
\* rewritten, without a header.
RelayFailed(p) ==
    /\ NextFrame(p)
    /\ PrepareFails(p)
    /\ StreamAfterFailure(p)
    /\ Deliver(<<p.kind>>)

Drain == DrainDone \/ RelayOther \/ \E p \in Packet : RelayFrame(p) \/ RelayFailed(p)

Next ==
    \/ Arrive
    \/ GoQuiet
    \/ Tick
    \/ Crash
    \/ Top
    \/ WakeReadable
    \/ WakeTimeout
    \/ WakeGateway
    \/ Drain
    \/ Bottom

Spec == Init /\ [][Next]_vars

\* The loop is a program that runs, and time passes.
Loop == Top \/ WakeReadable \/ WakeTimeout \/ Drain \/ Bottom

FairSpec == Spec /\ WF_vars(Loop) /\ WF_vars(Tick)

-----------------------------------------------------------------------------

\* With header insertion on, YSFGateway never gets a voice frame outside a
\* stream, whichever headers and terminators were lost, repeated or overtaken
\* on the way from BrandMeister, whatever waits in the queue meanwhile and
\* wherever the process restarts: as long as every frame is whole and carries
\* a DG-ID a header can be made for.
HeaderBeforeVoice == behavior.insertHeader /\ clean => ~headless

Flushed ==
    /\ returnQueue # <<>>
    /\ returnQueue' = Tail(returnQueue)
    /\ sinceSend' = 0

\* Two frames leave the queue at least the configured interval apart, though
\* an iteration of the loop flushes twice and a new stream moves the time of
\* the next frame.
Paced ==
    [][Flushed /\ sinceSend # None => sinceSend >= behavior.interval]_vars

\* select never sleeps past the time of the frame at the head of the queue.
NoOversleep == pc = "select" /\ returnQueue # <<>> => timeout <= nextSend

\* With an interval of 0 nothing is ever queued behind the pacing, and the
\* state that tells streams apart is set and cleared as one.
StreamStampTogether == streamActive <=> sinceFrame # None
ImmediateQueuesNothing == behavior.interval = 0 => returnQueue = <<>>

\* Once BrandMeister is quiet, everything received reaches YSFGateway: neither
\* a control datagram that ends the drain early nor the pacing strands a frame.
Drained == inbox = <<>> /\ returnQueue = <<>>

DrainsWhenQuiet == quiet ~> Drained

-----------------------------------------------------------------------------

\* The frame at position i of the queue will find YSFGateway in a stream: a
\* header before it that no terminator follows, or the stream it is in now.
InStreamAt(queue, g, i) ==
    \/ \E h \in 1 .. i - 1 : /\ queue[h] = "header"
                             /\ \A k \in h + 1 .. i - 1 : queue[k] # "term"
    \/ g = "open" /\ \A k \in 1 .. i - 1 : queue[k] # "term"

\* What makes HeaderBeforeVoice inductive: no voice in the queue is outside a
\* stream, and while the router holds a stream to be active the last frame it
\* queued left one open.
QueueInStream ==
    behavior.insertHeader /\ clean =>
        /\ \A i \in 1 .. Len(returnQueue) :
              returnQueue[i] = "voice" => InStreamAt(returnQueue, gateway, i)
        /\ streamActive => InStreamAt(returnQueue, gateway, Len(returnQueue) + 1)

\* Enough time has been set aside since the last send.
SendSpacing == sinceSend # None => sinceSend + nextSend >= behavior.interval

IInv ==
    /\ TypeOK
    /\ HeaderBeforeVoice
    /\ NoOversleep
    /\ StreamStampTogether
    /\ ImmediateQueuesNothing
    /\ QueueInStream
    /\ SendSpacing
=============================================================================
