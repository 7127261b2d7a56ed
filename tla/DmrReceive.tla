------------------------------ MODULE DmrReceive ------------------------------
(***************************************************************************)
(* The receive side of DmrMasterBrandMeisterTransport: from the master's   *)
(* datagrams to the YSF frames recv_packet hands to the service loop       *)
(* (recv_packet, _process_dmr_frame, _start_stream, _end_stream,           *)
(* _flush_vch_chunks).                                                     *)
(*                                                                         *)
(* A DMR voice frame carries three chunks of audio, a YSF frame five.  A   *)
(* chunk is modelled by the stream it came in and its place there.         *)
(* Datagrams are arbitrary: streams interleave, and headers, voice and     *)
(* terminators are lost, repeated or late.  Each call of recv_packet is    *)
(* one action; datagrams come between any two.                             *)
(***************************************************************************)
EXTENDS Integers, Sequences

CONSTANTS
    StreamId,
    None,          \* no stream
    SequenceSpan,  \* 128 in the code
    MaxInbox       \* bound on the datagrams waiting in the socket

FrameSpan  == 8    \* frame_number is taken modulo this
DmrChunks  == 3
YsfChunks  == 5
PlaceSpan  == FrameSpan * YsfChunks

ASSUME IdAssumption == None \notin StreamId

ASSUME SpanAssumption ==
    /\ SequenceSpan \in Nat \ {0}
    /\ SequenceSpan % FrameSpan = 0

ASSUME BoundAssumption == MaxInbox \in Nat

\* "other" is a pong, an ack, a data frame or anything else recv_packet ignores.
Datagram == [kind : {"header", "voice", "term", "other"}, stream : StreamId]

Chunk == [stream : StreamId \cup {None}, place : 0 .. PlaceSpan - 1]

Silence == [stream |-> None, place |-> 0]

VARIABLES
    pc,          \* the service loop is in "select" or "drain"
    inbox,       \* the socket
    streamId,    \* _stream_id
    chunks,      \* _vch_chunks
    ysfSequence, \* _ysf_sequence
    dataCount,   \* _ysf_data_count, of which only the remainder by 8 is used
    source,      \* _source, named by the stream it is the sender of
    ysfQueue     \* _ysf_queue

\* History: the frame handed over last, and the chunks of the stream so far,
\* modulo PlaceSpan.
VARIABLES last, heard

stream == <<streamId, source, chunks, ysfSequence, dataCount, heard>>
vars   == <<pc, inbox, stream, ysfQueue, last>>

YsfFrame == [kind : {"none", "header", "data", "term"}, source : StreamId \cup {None},
             number : 0 .. FrameSpan - 1, sequence : 0 .. SequenceSpan - 1,
             chunks : Seq(Chunk)]

Frame(kind, from, number, sequence, content) ==
    [kind |-> kind, source |-> from, number |-> number, sequence |-> sequence,
     chunks |-> content]

TypeOK ==
    /\ pc \in {"select", "drain"}
    /\ inbox \in Seq(Datagram)
    /\ streamId \in StreamId \cup {None}
    /\ source \in StreamId \cup {None}
    /\ chunks \in Seq(Chunk)
    /\ ysfSequence \in 0 .. SequenceSpan - 1
    /\ dataCount \in 0 .. FrameSpan - 1
    /\ ysfQueue \in Seq(YsfFrame)
    /\ last \in YsfFrame
    /\ heard \in 0 .. PlaceSpan - 1

Init ==
    /\ pc = "select"
    /\ inbox = <<>>
    /\ streamId = None
    /\ source = None
    /\ chunks = <<>>
    /\ ysfSequence = 0
    /\ dataCount = 0
    /\ ysfQueue = <<>>
    /\ last = Frame("none", None, 0, 0, <<>>)
    /\ heard = 0

\* The process dies and systemd starts it again (Restart=always).
Crash ==
    /\ pc' = "select"
    /\ inbox' = <<>>
    /\ streamId' = None
    /\ source' = None
    /\ chunks' = <<>>
    /\ ysfSequence' = 0
    /\ dataCount' = 0
    /\ ysfQueue' = <<>>
    /\ last' = Frame("none", None, 0, 0, <<>>)
    /\ heard' = 0

Arrive(d) ==
    /\ Len(inbox) < MaxInbox
    /\ inbox' = Append(inbox, d)
    /\ UNCHANGED <<pc, stream, ysfQueue, last>>

\* select returns: the socket is readable, or something else woke the loop; it
\* drains the transport in either case.
Wake ==
    /\ pc = "select"
    /\ pc' = "drain"
    /\ UNCHANGED <<inbox, stream, ysfQueue, last>>

-----------------------------------------------------------------------------

\* recv_packet hands over what waits before it looks at the socket.
HandOver ==
    /\ pc = "drain"
    /\ ysfQueue # <<>>
    /\ last' = Head(ysfQueue)
    /\ ysfQueue' = Tail(ysfQueue)
    /\ UNCHANGED <<pc, inbox, stream>>

\* A wrong NothingLeft: only the socket is looked at.
NothingLeftInSocket ==
    /\ pc = "drain"
    /\ inbox = <<>>
    /\ pc' = "select"
    /\ UNCHANGED <<inbox, stream, ysfQueue, last>>

NothingLeft ==
    /\ pc = "drain"
    /\ ysfQueue = <<>>
    /\ inbox = <<>>
    /\ pc' = "select"
    /\ UNCHANGED <<inbox, stream, ysfQueue, last>>

\* A datagram is read that makes these frames: the first is handed over, or, with
\* none, recv_packet returns None and the loop goes back to select.
Read(d, frames) ==
    /\ pc = "drain"
    /\ ysfQueue = <<>>
    /\ inbox # <<>>
    /\ d = Head(inbox)
    /\ inbox' = Tail(inbox)
    /\ IF frames = <<>>
       THEN pc' = "select" /\ UNCHANGED <<ysfQueue, last>>
       ELSE last' = Head(frames) /\ ysfQueue' = Tail(frames) /\ UNCHANGED pc

\* A wrong StartStream: the chunks of the old stream are not cleared.
StartStreamUncleared(id, begun) ==
    /\ streamId' = id
    /\ source' = id
    /\ chunks' = chunks \o begun
    /\ ysfSequence' = 0
    /\ dataCount' = 0
    /\ heard' = Len(begun)

\* _start_stream, with the chunks the new stream begins with.
StartStream(id, begun) ==
    /\ streamId' = id
    /\ source' = id
    /\ chunks' = begun
    /\ ysfSequence' = 0
    /\ dataCount' = 0
    /\ heard' = Len(begun)

HeaderFrame(id) == Frame("header", id, 0, 0, <<>>)

\* sequence=_ysf_sequence + 1, of which the codec keeps seven bits.
DataFrame(five) == Frame("data", source, dataCount, (ysfSequence + 1) % SequenceSpan, five)

TermFrame(sequence) == Frame("term", source, 0, sequence, <<>>)

Ignore ==
    /\ inbox # <<>>
    /\ LET d == Head(inbox) IN
         \/ d.kind = "other"
         \/ d.kind = "header" /\ streamId = d.stream
    /\ Read(Head(inbox), <<>>)
    /\ UNCHANGED stream

NewHeader(d) ==
    /\ d.kind = "header"
    /\ streamId # d.stream
    /\ Read(d, <<HeaderFrame(d.stream)>>)
    /\ StartStream(d.stream, <<>>)

\* dmr_voice_frame_to_ysf_vch.
ChunksOf(id, from) ==
    [i \in 1 .. DmrChunks |-> [stream |-> id, place |-> (from + i - 1) % PlaceSpan]]

\* Voice outside its stream begins a stream.
FirstVoice(d) ==
    /\ d.kind = "voice"
    /\ streamId # d.stream
    /\ Read(d, <<HeaderFrame(d.stream)>>)
    /\ StartStream(d.stream, ChunksOf(d.stream, 0))

\* A wrong Voice: frames are not counted.
VoiceUncounted(d) ==
    LET all == chunks \o ChunksOf(d.stream, heard) IN
    /\ d.kind = "voice"
    /\ streamId = d.stream
    /\ heard' = (heard + DmrChunks) % PlaceSpan
    /\ IF Len(all) >= YsfChunks
       THEN /\ Read(d, <<DataFrame(SubSeq(all, 1, YsfChunks))>>)
            /\ chunks' = SubSeq(all, YsfChunks + 1, Len(all))
            /\ ysfSequence' = (ysfSequence + 1) % SequenceSpan
            /\ UNCHANGED dataCount
       ELSE /\ Read(d, <<>>)
            /\ chunks' = all
            /\ UNCHANGED <<ysfSequence, dataCount>>
    /\ UNCHANGED <<streamId, source>>

\* _flush_vch_chunks: five chunks make a frame; seven are never ten.
Voice(d) ==
    LET all == chunks \o ChunksOf(d.stream, heard) IN
    /\ d.kind = "voice"
    /\ streamId = d.stream
    /\ heard' = (heard + DmrChunks) % PlaceSpan
    /\ IF Len(all) >= YsfChunks
       THEN /\ Read(d, <<DataFrame(SubSeq(all, 1, YsfChunks))>>)
            /\ chunks' = SubSeq(all, YsfChunks + 1, Len(all))
            /\ ysfSequence' = (ysfSequence + 1) % SequenceSpan
            /\ dataCount' = (dataCount + 1) % FrameSpan
       ELSE /\ Read(d, <<>>)
            /\ chunks' = all
            /\ UNCHANGED <<ysfSequence, dataCount>>
    /\ UNCHANGED <<streamId, source>>

Padded(some) == some \o [i \in 1 .. YsfChunks - Len(some) |-> Silence]

\* A wrong EndStream: a terminator goes out for every terminator.
EndStreamAlways(d) ==
    /\ d.kind = "term"
    /\ Read(d, <<TermFrame(ysfSequence)>>)
    /\ streamId' = None
    /\ chunks' = <<>>
    /\ UNCHANGED <<source, heard, ysfSequence, dataCount>>

\* Another: the stream is not ended.
EndStreamOpen(d) ==
    /\ d.kind = "term"
    /\ streamId # None
    /\ chunks # <<>>
    /\ ysfSequence' = (ysfSequence + 1) % SequenceSpan
    /\ dataCount' = (dataCount + 1) % FrameSpan
    /\ Read(d, <<DataFrame(Padded(chunks))>>)
    /\ chunks' = <<>>
    /\ UNCHANGED <<streamId, source, heard>>

\* A terminator of any stream ends the current one; the rest of its audio goes
\* out in a last frame filled with silence.
EndStream(d) ==
    /\ d.kind = "term"
    /\ IF streamId = None
       THEN Read(d, <<>>) /\ UNCHANGED <<ysfSequence, dataCount>>
       ELSE IF chunks = <<>>
       THEN Read(d, <<TermFrame(ysfSequence)>>) /\ UNCHANGED <<ysfSequence, dataCount>>
       ELSE /\ ysfSequence' = (ysfSequence + 1) % SequenceSpan
            /\ dataCount' = (dataCount + 1) % FrameSpan
            /\ Read(d, <<DataFrame(Padded(chunks)), TermFrame(ysfSequence')>>)
    /\ streamId' = None
    /\ chunks' = <<>>
    /\ UNCHANGED <<source, heard>>

Next ==
    \/ Crash
    \/ \E d \in Datagram : Arrive(d)
    \/ Wake
    \/ HandOver
    \/ NothingLeft
    \/ Ignore
    \/ \E d \in Datagram : NewHeader(d) \/ FirstVoice(d) \/ Voice(d) \/ EndStream(d)

Spec == Init /\ [][Next]_vars

-----------------------------------------------------------------------------

\* The frames handed over form streams as YsfStream describes them, whatever the
\* master's datagrams do.
Visible == [kind |-> last.kind, source |-> last.source, number |-> last.number,
            sequence |-> last.sequence]

Stream == INSTANCE YsfStream WITH
    Source <- StreamId,
    Nobody <- None,
    frame  <- Visible,
    open   <- last.kind \in {"header", "data"},
    count  <- last.sequence

FormsStreams == Stream!Spec

\* The audio of a data frame: chunks of one stream in their order, from the place
\* the frame's number says, then silence.
CarriesOneVoice(f) ==
    \E n \in 1 .. YsfChunks : \A i \in 1 .. YsfChunks :
        f.chunks[i] = IF i <= n
                      THEN [stream |-> f.source, place |-> YsfChunks * f.number + i - 1]
                      ELSE Silence

\* No data frame mixes the audio of two streams, puts it under another's name,
\* repeats it or leaves a gap in it, though streams interleave.
OneVoice == last.kind = "data" => CarriesOneVoice(last)

\* Audio is filled up with silence only to end a stream.
SilenceEndsStream ==
    [][last.kind = "data" /\ last.chunks[YsfChunks] = Silence
         => last' = last \/ last'.kind \in {"term", "none"}]_vars

\* When the loop goes back to select, which watches only the socket, no frame is
\* left behind in _ysf_queue, though recv_packet returns None for many reasons.
NoFrameLeftBehind == pc = "select" => ysfQueue = <<>>

-----------------------------------------------------------------------------

\* What makes these inductive: only a terminator can wait behind the frame handed
\* over, and otherwise the receiver stands where that frame left it.
QueueHoldsEnd ==
    ysfQueue # <<>> =>
        /\ pc = "drain"
        /\ last.kind = "data"
        /\ streamId = None
        /\ ysfQueue = <<Frame("term", last.source, 0, last.sequence, <<>>)>>

StandsWithLast ==
    streamId # None =>
        /\ last.kind \in {"header", "data"}
        /\ source = streamId
        /\ last.source = streamId
        /\ last.sequence = ysfSequence
        /\ last.kind = "data" => last.chunks[YsfChunks] # Silence
        /\ dataCount = ysfSequence % FrameSpan

ChunksInOrder ==
    /\ Len(chunks) < YsfChunks
    /\ streamId = None => chunks = <<>>
    /\ streamId # None =>
        /\ heard = YsfChunks * dataCount + Len(chunks)
        /\ \A i \in 1 .. Len(chunks) :
             chunks[i] = [stream |-> streamId, place |-> YsfChunks * dataCount + i - 1]

SilenceWaitsForEnd ==
    last.kind = "data" /\ last.chunks[YsfChunks] = Silence => ysfQueue # <<>>

IInv ==
    /\ TypeOK
    /\ OneVoice
    /\ NoFrameLeftBehind
    /\ QueueHoldsEnd
    /\ StandsWithLast
    /\ ChunksInOrder
    /\ SilenceWaitsForEnd
=============================================================================
