--------------------------- MODULE DmrReceive_proofs ---------------------------
(***************************************************************************)
(* Proofs about DmrReceive for any streams, any sequence numbers that are  *)
(* a whole number of frame numbers, and any socket.  Only a terminator can *)
(* wait behind the frame handed over last; otherwise the receiver stands   *)
(* where that frame left it, and the chunks it holds are the next ones of  *)
(* its stream.                                                             *)
(***************************************************************************)
EXTENDS DmrReceive, TLAPS, SequenceTheorems

\* The chunks of one voice frame.
LEMMA ChunksOfShape ==
    ASSUME NEW id \in StreamId, NEW from \in 0 .. PlaceSpan - 1
    PROVE  /\ ChunksOf(id, from) \in Seq(Chunk)
           /\ Len(ChunksOf(id, from)) = 3
           /\ \A i \in 1 .. 3 :
                ChunksOf(id, from)[i] = [stream |-> id, place |-> (from + i - 1) % PlaceSpan]
  <1>. DEFINE e(i) == [stream |-> id, place |-> (from + i - 1) % PlaceSpan]
              f    == [i \in 1 .. 3 |-> e(i)]
  <1>1. \A i \in 1 .. 3 : e(i) \in Chunk
    BY DEF Chunk, PlaceSpan, FrameSpan, YsfChunks
  <1>4. ChunksOf(id, from) = f
    BY DEF ChunksOf, DmrChunks
  <1>2. ChunksOf(id, from) \in Seq(Chunk) /\ Len(ChunksOf(id, from)) = 3
    <2>. HIDE DEF e
    <2>1. f \in Seq(Chunk) /\ Len(f) = 3
      BY <1>1
    <2>. QED
      BY <2>1, <1>4
  <1>3. \A i \in 1 .. 3 :
          ChunksOf(id, from)[i] = [stream |-> id, place |-> (from + i - 1) % PlaceSpan]
    BY DEF ChunksOf, DmrChunks
  <1>. QED
    BY <1>2, <1>3

\* What a concatenation holds, and where.
LEMMA Concatenated ==
    ASSUME NEW q \in Seq(Chunk), NEW f \in Seq(Chunk)
    PROVE  /\ q \o f \in Seq(Chunk)
           /\ Len(q \o f) = Len(q) + Len(f)
           /\ \A i \in 1 .. Len(q) : (q \o f)[i] = q[i]
           /\ \A i \in 1 .. Len(f) : (q \o f)[Len(q) + i] = f[i]
           /\ Len(q) \in Nat /\ Len(f) \in Nat
  <1>1. /\ q \o f \in Seq(Chunk)
        /\ Len(q \o f) = Len(q) + Len(f)
        /\ Len(q) \in Nat /\ Len(f) \in Nat
    BY ConcatProperties, LenProperties
  <1>2. \A i \in 1 .. Len(q) + Len(f) :
           (q \o f)[i] = IF i <= Len(q) THEN q[i] ELSE f[i - Len(q)]
    BY ConcatProperties
  <1>3. QED
    BY <1>1, <1>2

\* What is held, with the chunks of one more voice frame.
LEMMA JoinedShape ==
    ASSUME TypeOK, NEW id \in StreamId
    PROVE  LET all == chunks \o ChunksOf(id, heard) IN
           /\ all \in Seq(Chunk)
           /\ Len(all) = Len(chunks) + 3
           /\ \A i \in 1 .. Len(chunks) : all[i] = chunks[i]
           /\ \A i \in 1 .. 3 : all[Len(chunks) + i]
                = [stream |-> id, place |-> (heard + i - 1) % PlaceSpan]
  <1>1. chunks \in Seq(Chunk) /\ heard \in 0 .. PlaceSpan - 1 /\ Len(chunks) \in Nat
    BY DEF TypeOK
  <1>2. /\ ChunksOf(id, heard) \in Seq(Chunk)
        /\ Len(ChunksOf(id, heard)) = 3
        /\ \A i \in 1 .. 3 :
             ChunksOf(id, heard)[i] = [stream |-> id, place |-> (heard + i - 1) % PlaceSpan]
    BY <1>1, ChunksOfShape
  <1>. DEFINE more == ChunksOf(id, heard)
  <1>5. /\ more \in Seq(Chunk) /\ Len(more) = 3
        /\ \A i \in 1 .. 3 : more[i] = [stream |-> id, place |-> (heard + i - 1) % PlaceSpan]
    BY <1>2
  <1>. HIDE DEF more
  <1>3. /\ chunks \o more \in Seq(Chunk)
        /\ Len(chunks \o more) = Len(chunks) + 3
        /\ \A i \in 1 .. Len(chunks) : (chunks \o more)[i] = chunks[i]
        /\ \A i \in 1 .. 3 : (chunks \o more)[Len(chunks) + i] = more[i]
    <2>1. /\ chunks \o more \in Seq(Chunk)
          /\ Len(chunks \o more) = Len(chunks) + Len(more)
          /\ \A i \in 1 .. Len(chunks) : (chunks \o more)[i] = chunks[i]
          /\ \A i \in 1 .. Len(more) : (chunks \o more)[Len(chunks) + i] = more[i]
      BY <1>1, <1>5, Concatenated
    <2>. QED
      BY <2>1, <1>5
  <1>. QED
    BY <1>3, <1>5 DEF more

\* What is held, filled up with silence.
LEMMA PaddedShape ==
    ASSUME TypeOK, Len(chunks) < YsfChunks
    PROVE  /\ Padded(chunks) \in Seq(Chunk)
           /\ Len(Padded(chunks)) = YsfChunks
           /\ \A i \in 1 .. YsfChunks :
                Padded(chunks)[i] = IF i <= Len(chunks) THEN chunks[i] ELSE Silence
  <1>. DEFINE m == Len(chunks)
              f == [i \in 1 .. YsfChunks - m |-> Silence]
  <1>1. chunks \in Seq(Chunk) /\ m \in Nat /\ m < 5
    BY DEF TypeOK, YsfChunks
  <1>2. Silence \in Chunk
    BY DEF Silence, Chunk, PlaceSpan, FrameSpan, YsfChunks
  <1>3. f = [i \in 1 .. 5 - m |-> Silence] /\ 5 - m \in Nat
    BY <1>1 DEF YsfChunks
  <1>4. f \in Seq(Chunk) /\ Len(f) = 5 - m
    <2>. HIDE DEF f
    <2>. QED
      BY <1>2, <1>3
  <1>5. \A i \in 1 .. 5 - m : f[i] = Silence
    BY DEF YsfChunks
  <1>6. Padded(chunks) = chunks \o f
    BY DEF Padded
  <1>. HIDE DEF f
  <1>7. /\ chunks \o f \in Seq(Chunk)
        /\ Len(chunks \o f) = 5
        /\ \A i \in 1 .. 5 : (chunks \o f)[i] = IF i <= m THEN chunks[i] ELSE f[i - m]
    BY <1>1, <1>4, ConcatProperties
  <1>8. \A i \in 1 .. 5 : ~(i <= m) => f[i - m] = Silence
    BY <1>1, <1>5
  <1>. QED
    BY <1>6, <1>7, <1>8 DEF YsfChunks

LEMMA InitIInv == Init => IInv
  <1>. SUFFICES ASSUME Init PROVE IInv
    OBVIOUS
  <1>1. last = Frame("none", None, 0, 0, <<>>) /\ last \in YsfFrame
    BY SpanAssumption DEF Init, Frame, YsfFrame, FrameSpan
  <1>2. TypeOK
    BY <1>1, SpanAssumption DEF Init, TypeOK, FrameSpan, PlaceSpan, YsfChunks
  <1>. QED
    BY <1>1, <1>2 DEF Init, IInv, OneVoice, NoFrameLeftBehind, QueueHoldsEnd, StandsWithLast,
       ChunksInOrder, SilenceWaitsForEnd, Frame, YsfChunks

-----------------------------------------------------------------------------

\* The first five of five to seven chunks, and the others.
LEMMA Flushed ==
    ASSUME NEW q \in Seq(Chunk), Len(q) \in 5 .. 7
    PROVE  /\ SubSeq(q, 1, 5) \in Seq(Chunk)
           /\ Len(SubSeq(q, 1, 5)) = 5
           /\ \A i \in 1 .. 5 : SubSeq(q, 1, 5)[i] = q[i]
           /\ SubSeq(q, 6, Len(q)) \in Seq(Chunk)
           /\ Len(SubSeq(q, 6, Len(q))) = Len(q) - 5
           /\ \A i \in 1 .. Len(q) - 5 : SubSeq(q, 6, Len(q))[i] = q[5 + i]
  <1>1. \A i \in 1 .. Len(q) : q[i] \in Chunk
    BY ElementOfSeq
  <1>2. /\ SubSeq(q, 1, 5) \in Seq(Chunk)
        /\ Len(SubSeq(q, 1, 5)) = 5
        /\ \A i \in 1 .. 5 : SubSeq(q, 1, 5)[i] = q[i]
    <2>1. \A i \in 1 .. 5 : q[i] \in Chunk
      BY <1>1
    <2>. QED
      BY <2>1, SubSeqProperties
  <1>3. /\ SubSeq(q, 6, Len(q)) \in Seq(Chunk)
        /\ Len(SubSeq(q, 6, Len(q))) = Len(q) - 5
        /\ \A i \in 1 .. Len(q) - 5 : SubSeq(q, 6, Len(q))[i] = q[5 + i]
    <2>1. PICK n \in 5 .. 7 : Len(q) = n
      OBVIOUS
    <2>2. \A i \in 6 .. n : q[i] \in Chunk
      BY <1>1, <2>1
    <2>3. /\ SubSeq(q, 6, n) \in Seq(Chunk)
          /\ Len(SubSeq(q, 6, n)) = n - 5
          /\ \A i \in 1 .. n - 6 + 1 : SubSeq(q, 6, n)[i] = q[6 + i - 1]
      BY <2>2, SubSeqProperties
    <2>4. \A i \in 1 .. n - 5 : i \in 1 .. n - 6 + 1 /\ 6 + i - 1 = 5 + i
      OBVIOUS
    <2>. QED
      BY <2>1, <2>3, <2>4
  <1>. QED
    BY <1>2, <1>3

\* Frames are typed when what they are made of is.
LEMMA FrameType ==
    ASSUME NEW k \in {"none", "header", "data", "term"}, NEW s \in StreamId \cup {None},
           NEW n \in 0 .. 7, NEW m \in 0 .. SequenceSpan - 1, NEW c \in Seq(Chunk)
    PROVE  Frame(k, s, n, m, c) \in YsfFrame
  BY DEF Frame, YsfFrame, FrameSpan

LEMMA NoChunks == <<>> \in Seq(Chunk) /\ Len(<<>>) = 0
  OBVIOUS

\* The number of the next data frame, and the frame number that goes with it.
LEMMA NextNumber ==
    ASSUME NEW n \in 0 .. SequenceSpan - 1
    PROVE  /\ (n + 1) % SequenceSpan \in 0 .. SequenceSpan - 1
           /\ ((n + 1) % SequenceSpan) % FrameSpan = ((n % FrameSpan) + 1) % FrameSpan
  <1>1. SequenceSpan \in Nat /\ SequenceSpan > 0 /\ SequenceSpan % 8 = 0
    BY SpanAssumption DEF FrameSpan
  <1>2. CASE n + 1 < SequenceSpan
    <2>1. (n + 1) % SequenceSpan = n + 1
      BY <1>1, <1>2
    <2>2. (n + 1) % 8 = ((n % 8) + 1) % 8
      OBVIOUS
    <2>. QED
      BY <1>1, <1>2, <2>1, <2>2 DEF FrameSpan
  <1>3. CASE n + 1 = SequenceSpan
    <2>1. (n + 1) % SequenceSpan = 0
      BY <1>1, <1>3
    <2>2. ((n % 8) + 1) % 8 = 0
      BY <1>1, <1>3
    <2>. QED
      BY <1>1, <2>1, <2>2 DEF FrameSpan
  <1>. QED
    BY <1>1, <1>2, <1>3

-----------------------------------------------------------------------------

\* What reading a datagram does to what waits, by the number of frames it makes.
LEMMA ReadsNone ==
    ASSUME TypeOK, NEW d, Read(d, <<>>)
    PROVE  /\ pc = "drain" /\ pc' = "select" /\ inbox' \in Seq(Datagram)
           /\ d \in Datagram
           /\ ysfQueue = <<>> /\ ysfQueue' = <<>> /\ last' = last
  <1>1. inbox \in Seq(Datagram) /\ inbox # <<>>
    BY DEF TypeOK, Read
  <1>2. Tail(inbox) \in Seq(Datagram) /\ Head(inbox) \in Datagram
    BY <1>1, HeadTailProperties
  <1>. QED
    BY <1>2 DEF Read

LEMMA ReadsOne ==
    ASSUME TypeOK, NEW d, NEW f, Read(d, <<f>>)
    PROVE  /\ pc = "drain" /\ pc' = "drain" /\ inbox' \in Seq(Datagram)
           /\ d \in Datagram
           /\ ysfQueue = <<>> /\ ysfQueue' = <<>> /\ last' = f
  <1>1. inbox \in Seq(Datagram) /\ inbox # <<>>
    BY DEF TypeOK, Read
  <1>2. Tail(inbox) \in Seq(Datagram) /\ Head(inbox) \in Datagram
    BY <1>1, HeadTailProperties
  <1>3. <<f>> # <<>> /\ Head(<<f>>) = f /\ Tail(<<f>>) = <<>>
    OBVIOUS
  <1>. QED
    BY <1>2, <1>3 DEF Read

LEMMA ReadsTwo ==
    ASSUME TypeOK, NEW d, NEW f, NEW g, Read(d, <<f, g>>)
    PROVE  /\ pc = "drain" /\ pc' = "drain" /\ inbox' \in Seq(Datagram)
           /\ d \in Datagram
           /\ ysfQueue = <<>> /\ ysfQueue' = <<g>> /\ last' = f
  <1>1. inbox \in Seq(Datagram) /\ inbox # <<>>
    BY DEF TypeOK, Read
  <1>2. Tail(inbox) \in Seq(Datagram) /\ Head(inbox) \in Datagram
    BY <1>1, HeadTailProperties
  <1>3. <<f, g>> # <<>> /\ Head(<<f, g>>) = f /\ Tail(<<f, g>>) = <<g>>
    OBVIOUS
  <1>. QED
    BY <1>2, <1>3 DEF Read

-----------------------------------------------------------------------------

LEMMA Spans == FrameSpan = 8 /\ YsfChunks = 5 /\ PlaceSpan = 40
  BY DEF FrameSpan, YsfChunks, PlaceSpan

\* The places of the k-th chunk to come and of the chunk after it, when m chunks
\* wait for data frame n.
LEMMA Places ==
    ASSUME NEW n \in 0 .. 7, NEW m \in 0 .. 4
    PROVE  /\ \A k \in 1 .. 3 : m + k <= 5
                => (5 * n + m + k - 1) % PlaceSpan = 5 * n + (m + k) - 1
           /\ \A k \in 1 .. 3 : m + k > 5
                => (5 * n + m + k - 1) % PlaceSpan = 5 * ((n + 1) % FrameSpan) + (m + k - 5) - 1
           /\ m < 2 => (5 * n + m + 3) % PlaceSpan = 5 * n + m + 3
           /\ m >= 2 => (5 * n + m + 3) % PlaceSpan = 5 * ((n + 1) % FrameSpan) + (m - 2)
           /\ (5 * n + m + 3) % PlaceSpan \in 0 .. PlaceSpan - 1
  <1>1. CASE n < 7
    <2>1. (n + 1) % 8 = n + 1
      BY <1>1
    <2>. QED
      BY <1>1, <2>1, Spans
  <1>2. CASE n = 7
    <2>1. (n + 1) % 8 = 0
      BY <1>2
    <2>. QED
      BY <1>2, <2>1, Spans
  <1>. QED
    BY <1>1, <1>2

LEMMA StartsTyped ==
    ASSUME NEW id \in StreamId, NEW begun \in Seq(Chunk), Len(begun) \in 0 .. 3,
           StartStream(id, begun)
    PROVE  /\ streamId' = id /\ source' = id /\ chunks' = begun
           /\ streamId' \in StreamId /\ chunks' \in Seq(Chunk)
           /\ ysfSequence' = 0 /\ ysfSequence' \in 0 .. SequenceSpan - 1
           /\ dataCount' = 0 /\ dataCount' \in 0 .. FrameSpan - 1
           /\ heard' = Len(begun) /\ heard' \in 0 .. PlaceSpan - 1
  <1>1. /\ 0 \in 0 .. SequenceSpan - 1 /\ 0 \in 0 .. FrameSpan - 1
        /\ Len(begun) \in 0 .. PlaceSpan - 1
    BY SpanAssumption, Spans
  <1>. QED
    BY <1>1 DEF StartStream

\* A new stream begins: with a header, and with the chunks it brought.
LEMMA BeginInv ==
    ASSUME IInv, NEW d \in Datagram, NEW begun \in Seq(Chunk), Len(begun) \in 0 .. 3,
           \A i \in 1 .. Len(begun) : begun[i] = [stream |-> d.stream, place |-> i - 1],
           Read(d, <<HeaderFrame(d.stream)>>), StartStream(d.stream, begun)
    PROVE  IInv'
  <1>1. d.stream \in StreamId /\ d.stream # None
    BY IdAssumption DEF Datagram
  <1>2. /\ pc' = "drain" /\ inbox' \in Seq(Datagram) /\ ysfQueue' = <<>>
        /\ last' = Frame("header", d.stream, 0, 0, <<>>)
    BY ReadsOne DEF IInv, HeaderFrame
  <1>3. last' \in YsfFrame
    <2>1. 0 \in 0 .. SequenceSpan - 1 /\ 0 \in 0 .. 7 /\ <<>> \in Seq(Chunk)
      BY SpanAssumption, NoChunks
    <2>. QED
      BY <1>1, <1>2, <2>1, FrameType
  <1>4. /\ streamId' = d.stream /\ source' = d.stream /\ chunks' = begun
        /\ chunks' \in Seq(Chunk)
        /\ ysfSequence' = 0 /\ ysfSequence' \in 0 .. SequenceSpan - 1
        /\ dataCount' = 0 /\ dataCount' \in 0 .. FrameSpan - 1
        /\ heard' = Len(begun) /\ heard' \in 0 .. PlaceSpan - 1
    BY <1>1, StartsTyped
  <1>5. TypeOK'
    BY <1>1, <1>2, <1>3, <1>4, NoChunks DEF TypeOK
  <1>6. /\ last'.kind = "header" /\ last'.source = d.stream /\ last'.sequence = 0
    BY <1>2 DEF Frame
  <1>7. StandsWithLast'
    BY <1>4, <1>6 DEF StandsWithLast, FrameSpan
  <1>8. ChunksInOrder'
    BY <1>1, <1>4 DEF ChunksInOrder, YsfChunks
  <1>. QED
    BY <1>2, <1>5, <1>6, <1>7, <1>8
    DEF IInv, OneVoice, NoFrameLeftBehind, QueueHoldsEnd, SilenceWaitsForEnd

LEMMA NewHeaderInv ==
    ASSUME IInv, NEW d \in Datagram, NewHeader(d)
    PROVE  IInv'
  <1>. DEFINE begun == <<>>
  <1>1. /\ begun \in Seq(Chunk) /\ Len(begun) \in 0 .. 3
        /\ \A i \in 1 .. Len(begun) : begun[i] = [stream |-> d.stream, place |-> i - 1]
    BY NoChunks
  <1>2. Read(d, <<HeaderFrame(d.stream)>>) /\ StartStream(d.stream, begun)
    BY DEF NewHeader
  <1>. HIDE DEF begun
  <1>. QED
    BY <1>1, <1>2, BeginInv

LEMMA FirstVoiceInv ==
    ASSUME IInv, NEW d \in Datagram, FirstVoice(d)
    PROVE  IInv'
  <1>. DEFINE begun == ChunksOf(d.stream, 0)
  <1>1. d.stream \in StreamId /\ 0 \in 0 .. PlaceSpan - 1
    BY DEF Datagram, PlaceSpan, FrameSpan, YsfChunks
  <1>2. /\ begun \in Seq(Chunk) /\ Len(begun) = 3
        /\ \A i \in 1 .. 3 : begun[i] = [stream |-> d.stream, place |-> (0 + i - 1) % PlaceSpan]
    BY <1>1, ChunksOfShape
  <1>3. \A i \in 1 .. 3 : (0 + i - 1) % PlaceSpan = i - 1
    BY DEF PlaceSpan, FrameSpan, YsfChunks
  <1>4. Read(d, <<HeaderFrame(d.stream)>>) /\ StartStream(d.stream, begun)
    BY DEF FirstVoice
  <1>. HIDE DEF begun
  <1>5. \A i \in 1 .. Len(begun) : begun[i] = [stream |-> d.stream, place |-> i - 1]
    BY <1>2, <1>3
  <1>6. Len(begun) \in 0 .. 3
    BY <1>2
  <1>. QED
    BY <1>2, <1>4, <1>5, <1>6, BeginInv


\* What is held with one more voice frame of the stream: the next chunks of it.
LEMMA AllInOrder ==
    ASSUME IInv, NEW id \in StreamId, streamId = id, NEW m \in 0 .. 4, Len(chunks) = m
    PROVE  LET all == chunks \o ChunksOf(id, heard) IN
           /\ all \in Seq(Chunk)
           /\ Len(all) = m + 3
           /\ \A i \in 1 .. m + 3 : i <= 5
                => all[i] = [stream |-> id, place |-> 5 * dataCount + i - 1]
           /\ \A i \in 1 .. m + 3 : i > 5
                => all[i] = [stream |-> id,
                             place |-> 5 * ((dataCount + 1) % FrameSpan) + (i - 5) - 1]
  <1>. DEFINE all == chunks \o ChunksOf(id, heard)
  <1>1. /\ TypeOK /\ id # None /\ dataCount \in 0 .. 7 /\ heard = 5 * dataCount + m
        /\ \A i \in 1 .. m : chunks[i] = [stream |-> id, place |-> 5 * dataCount + i - 1]
    <2>1. TypeOK /\ ChunksInOrder /\ id # None
      BY IdAssumption DEF IInv
    <2>. QED
      BY <2>1, Spans DEF TypeOK, ChunksInOrder
  <1>2. /\ all \in Seq(Chunk)
        /\ Len(all) = m + 3
        /\ \A i \in 1 .. m : all[i] = chunks[i]
        /\ \A i \in 1 .. 3 : all[m + i] = [stream |-> id, place |-> (heard + i - 1) % PlaceSpan]
    BY <1>1, JoinedShape
  <1>. HIDE DEF all
  <1>3. SUFFICES ASSUME NEW i \in 1 .. m + 3
                 PROVE  /\ i <= 5 => all[i] = [stream |-> id, place |-> 5 * dataCount + i - 1]
                        /\ i > 5 => all[i] =
                             [stream |-> id,
                              place |-> 5 * ((dataCount + 1) % FrameSpan) + (i - 5) - 1]
    BY <1>2 DEF all
  <1>4. CASE i <= m
    <2>1. i \in 1 .. m /\ i <= 5 /\ ~(i > 5)
      BY <1>4
    <2>. QED
      BY <1>1, <1>2, <2>1
  <1>5. CASE i > m
    <2>1. PICK k \in 1 .. 3 : i = m + k
      <3>1. i - m \in 1 .. 3 /\ i = m + (i - m)
        BY <1>5
      <3>. QED
        BY <3>1
    <2>2. all[i] = [stream |-> id, place |-> (5 * dataCount + m + k - 1) % PlaceSpan]
      BY <1>1, <1>2, <2>1
    <2>3. /\ m + k <= 5 => (5 * dataCount + m + k - 1) % PlaceSpan = 5 * dataCount + (m + k) - 1
          /\ m + k > 5 => (5 * dataCount + m + k - 1) % PlaceSpan
                            = 5 * ((dataCount + 1) % FrameSpan) + (m + k - 5) - 1
      BY <1>1, Places
    <2>. QED
      BY <2>1, <2>2, <2>3
  <1>6. i <= m \/ i > m
    OBVIOUS
  <1>. QED
    BY <1>4, <1>5, <1>6, Zenon

\* Voice of the current stream: it fills a frame, or waits.
LEMMA VoiceInv ==
    ASSUME IInv, NEW d \in Datagram, Voice(d)
    PROVE  IInv'
  <1>. DEFINE all == chunks \o ChunksOf(d.stream, heard)
  <1>1. /\ d.stream \in StreamId /\ streamId = d.stream /\ d.stream # None
        /\ streamId' = streamId /\ source' = source
        /\ heard' = (heard + 3) % PlaceSpan
    BY IdAssumption DEF Datagram, Voice, DmrChunks
  <1>2. TypeOK /\ StandsWithLast /\ ChunksInOrder /\ OneVoice
    BY DEF IInv
  <1>3. PICK m \in 0 .. 4 : Len(chunks) = m
    <2>1. chunks \in Seq(Chunk) /\ Len(chunks) < 5
      BY <1>2, Spans DEF TypeOK, ChunksInOrder
    <2>2. Len(chunks) \in Nat
      BY <2>1, LenProperties
    <2>3. Len(chunks) \in 0 .. 4
      <3>1. \A n \in Nat : n < 5 => n \in 0 .. 4
        OBVIOUS
      <3>. QED
        BY <2>1, <2>2, <3>1, Zenon
    <2>. QED
      BY <2>3, Zenon
  <1>4. /\ all \in Seq(Chunk)
        /\ Len(all) = m + 3
        /\ \A i \in 1 .. m + 3 : i <= 5
             => all[i] = [stream |-> d.stream, place |-> 5 * dataCount + i - 1]
        /\ \A i \in 1 .. m + 3 : i > 5
             => all[i] = [stream |-> d.stream,
                          place |-> 5 * ((dataCount + 1) % FrameSpan) + (i - 5) - 1]
    BY <1>1, <1>3, AllInOrder, Zenon
  <1>5. /\ source = d.stream /\ last.source = d.stream /\ last.kind \in {"header", "data"}
        /\ last.sequence = ysfSequence /\ dataCount = ysfSequence % FrameSpan
        /\ last.kind = "data" => last.chunks[YsfChunks] # Silence
    BY <1>1, <1>2 DEF StandsWithLast
  <1>6. /\ ysfSequence \in 0 .. SequenceSpan - 1 /\ dataCount \in 0 .. 7
        /\ heard = 5 * dataCount + m /\ heard' = (5 * dataCount + m + 3) % PlaceSpan
        /\ heard' \in 0 .. PlaceSpan - 1
    <2>1. ysfSequence \in 0 .. SequenceSpan - 1 /\ dataCount \in 0 .. 7
      BY <1>2, Spans DEF TypeOK
    <2>2. heard = 5 * dataCount + m
      BY <1>1, <1>2, <1>3, Spans DEF ChunksInOrder
    <2>. QED
      BY <1>1, <2>1, <2>2, Places
  <1>7. Len(all) >= YsfChunks
          => /\ Read(d, <<DataFrame(SubSeq(all, 1, 5))>>)
             /\ chunks' = SubSeq(all, 6, Len(all))
             /\ ysfSequence' = (ysfSequence + 1) % SequenceSpan
             /\ dataCount' = (dataCount + 1) % FrameSpan
    BY DEF Voice, YsfChunks
  <1>8. ~(Len(all) >= YsfChunks)
          => /\ Read(d, <<>>)
             /\ chunks' = all
             /\ ysfSequence' = ysfSequence /\ dataCount' = dataCount
    BY DEF Voice
  <1>. HIDE DEF all
  <1>9. CASE m < 2
    <2>1. /\ Read(d, <<>>) /\ chunks' = all
          /\ ysfSequence' = ysfSequence /\ dataCount' = dataCount
      BY <1>4, <1>8, <1>9, Spans
    <2>2. /\ pc' = "select" /\ inbox' \in Seq(Datagram) /\ ysfQueue' = <<>> /\ last' = last
      BY <1>2, <2>1, ReadsNone
    <2>3. TypeOK'
      BY <1>1, <1>2, <1>4, <1>6, <2>1, <2>2 DEF TypeOK
    <2>4. StandsWithLast'
      BY <1>1, <1>2, <2>1, <2>2 DEF StandsWithLast
    <2>5. heard' = 5 * dataCount + (m + 3)
      BY <1>6, <1>9, Places
    <2>6. \A i \in 1 .. m + 3 : all[i] = [stream |-> d.stream, place |-> 5 * dataCount + i - 1]
      <3>1. \A i \in 1 .. m + 3 : i <= 5
        BY <1>9
      <3>. QED
        BY <1>4, <3>1
    <2>7. ChunksInOrder'
      <3>1. Len(chunks') = m + 3 /\ m + 3 < 5
        BY <1>4, <1>9, <2>1
      <3>. QED
        BY <1>1, <2>1, <2>5, <2>6, <3>1, Spans DEF ChunksInOrder
    <2>8. OneVoice' /\ ~(last'.kind = "data" /\ last'.chunks[YsfChunks] = Silence)
      BY <1>2, <1>5, <2>2 DEF OneVoice, CarriesOneVoice
    <2>. QED
      BY <2>2, <2>3, <2>4, <2>7, <2>8
      DEF IInv, NoFrameLeftBehind, QueueHoldsEnd, SilenceWaitsForEnd
  <1>10. CASE m >= 2
    <2>. DEFINE five == SubSeq(all, 1, 5)
                rest == SubSeq(all, 6, Len(all))
    <2>1. /\ Read(d, <<DataFrame(five)>>) /\ chunks' = rest
          /\ ysfSequence' = (ysfSequence + 1) % SequenceSpan
          /\ dataCount' = (dataCount + 1) % FrameSpan
      <3>1. Len(all) >= YsfChunks
        BY <1>4, <1>10, Spans
      <3>. QED
        BY <3>1, <1>7
    <2>2. /\ five \in Seq(Chunk) /\ Len(five) = 5
          /\ \A i \in 1 .. 5 : five[i] = all[i]
          /\ rest \in Seq(Chunk) /\ Len(rest) = m - 2
          /\ \A i \in 1 .. m - 2 : rest[i] = all[5 + i]
      <3>1. Len(all) \in 5 .. 7 /\ Len(all) - 5 = m - 2
        BY <1>4, <1>10
      <3>. QED
        BY <1>4, <3>1, Flushed
    <2>. HIDE DEF five, rest
    <2>3. /\ pc' = "drain" /\ inbox' \in Seq(Datagram) /\ ysfQueue' = <<>>
          /\ last' = DataFrame(five)
      BY <1>2, <2>1, ReadsOne
    <2>4. /\ ysfSequence' \in 0 .. SequenceSpan - 1 /\ dataCount' \in 0 .. FrameSpan - 1
          /\ dataCount' = ysfSequence' % FrameSpan
      <3>1. (dataCount + 1) % 8 \in 0 .. 7
        BY <1>6
      <3>. QED
        BY <1>5, <1>6, <2>1, <3>1, NextNumber, Spans
    <2>5. /\ last' = Frame("data", d.stream, dataCount, ysfSequence', five)
          /\ last'.kind = "data" /\ last'.source = d.stream
          /\ last'.number = dataCount /\ last'.sequence = ysfSequence' /\ last'.chunks = five
      BY <1>5, <2>1, <2>3 DEF DataFrame, Frame
    <2>6. last' \in YsfFrame
      BY <1>1, <1>6, <2>2, <2>4, <2>5, FrameType
    <2>7. TypeOK'
      BY <1>1, <1>2, <1>6, <2>1, <2>2, <2>3, <2>4, <2>6 DEF TypeOK
    <2>8. \A i \in 1 .. 5 : five[i] = [stream |-> d.stream, place |-> 5 * dataCount + i - 1]
      <3>1. \A i \in 1 .. 5 : i \in 1 .. m + 3 /\ i <= 5
        BY <1>10
      <3>. QED
        BY <1>4, <2>2, <3>1
    <2>9. \A i \in 1 .. m - 2 : rest[i] = [stream |-> d.stream, place |-> 5 * dataCount' + i - 1]
      <3>1. \A i \in 1 .. m - 2 : 5 + i \in 1 .. m + 3 /\ 5 + i > 5 /\ (5 + i) - 5 = i
        BY <1>10
      <3>. QED
        BY <1>4, <2>1, <2>2, <3>1
    <2>10. heard' = 5 * dataCount' + (m - 2)
      BY <1>6, <1>10, <2>1, Places
    <2>11. ChunksInOrder'
      <3>1. Len(chunks') = m - 2 /\ m - 2 < 5
        BY <1>10, <2>1, <2>2
      <3>. QED
        BY <1>1, <2>1, <2>9, <2>10, <3>1, Spans DEF ChunksInOrder
    <2>12. last'.chunks[YsfChunks] # Silence
      BY <1>1, <2>5, <2>8, Spans DEF Silence
    <2>13. OneVoice'
      <3>1. 5 \in 1 .. YsfChunks
        BY Spans
      <3>2. \A i \in 1 .. YsfChunks :
               last'.chunks[i] = IF i <= 5
                  THEN [stream |-> last'.source, place |-> YsfChunks * last'.number + i - 1]
                  ELSE Silence
        BY <2>5, <2>8, Spans
      <3>. QED
        BY <3>1, <3>2 DEF OneVoice, CarriesOneVoice
    <2>14. StandsWithLast'
      BY <1>1, <1>5, <2>4, <2>5, <2>12 DEF StandsWithLast
    <2>. QED
      BY <2>3, <2>7, <2>11, <2>12, <2>13, <2>14
      DEF IInv, NoFrameLeftBehind, QueueHoldsEnd, SilenceWaitsForEnd
  <1>. QED
    BY <1>9, <1>10

\* A terminator: none is due, one is, or first the rest of the audio.
LEMMA EndStreamInv ==
    ASSUME IInv, NEW d \in Datagram, EndStream(d)
    PROVE  IInv'
  <1>1. TypeOK /\ StandsWithLast /\ ChunksInOrder /\ OneVoice /\ SilenceWaitsForEnd
    BY DEF IInv
  <1>2. streamId' = None /\ chunks' = <<>> /\ source' = source /\ heard' = heard
    BY DEF EndStream
  <1>3. <<>> \in Seq(Chunk) /\ Len(<<>>) = 0
    BY NoChunks
  <1>4. StandsWithLast' /\ ChunksInOrder'
    BY <1>2, <1>3, Spans DEF StandsWithLast, ChunksInOrder
  <1>5. CASE streamId = None
    <2>1. Read(d, <<>>) /\ ysfSequence' = ysfSequence /\ dataCount' = dataCount
      BY <1>5 DEF EndStream
    <2>2. /\ pc' = "select" /\ inbox' \in Seq(Datagram)
          /\ ysfQueue = <<>> /\ ysfQueue' = <<>> /\ last' = last
      BY <1>1, <2>1, ReadsNone
    <2>3. TypeOK'
      BY <1>1, <1>2, <1>3, <2>1, <2>2 DEF TypeOK
    <2>4. OneVoice' /\ SilenceWaitsForEnd'
      BY <1>1, <2>2 DEF OneVoice, CarriesOneVoice, SilenceWaitsForEnd
    <2>. QED
      BY <1>4, <2>2, <2>3, <2>4 DEF IInv, NoFrameLeftBehind, QueueHoldsEnd
  <1>6. CASE streamId # None /\ chunks = <<>>
    <2>1. /\ Read(d, <<TermFrame(ysfSequence)>>)
          /\ ysfSequence' = ysfSequence /\ dataCount' = dataCount
      BY <1>6 DEF EndStream
    <2>2. /\ pc' = "drain" /\ inbox' \in Seq(Datagram)
          /\ ysfQueue' = <<>> /\ last' = Frame("term", source, 0, ysfSequence, <<>>)
      BY <1>1, <2>1, ReadsOne DEF TermFrame
    <2>3. last' \in YsfFrame
      <3>1. 0 \in 0 .. 7
        OBVIOUS
      <3>. QED
        BY <1>1, <1>3, <2>2, <3>1, FrameType DEF TypeOK
    <2>4. TypeOK'
      BY <1>1, <1>2, <1>3, <2>1, <2>2, <2>3 DEF TypeOK
    <2>5. last'.kind = "term"
      BY <2>2 DEF Frame
    <2>. QED
      BY <1>4, <2>2, <2>4, <2>5
      DEF IInv, OneVoice, NoFrameLeftBehind, QueueHoldsEnd, SilenceWaitsForEnd
  <1>7. CASE streamId # None /\ chunks # <<>>
    <2>. DEFINE full == Padded(chunks)
                end  == TermFrame(ysfSequence')
    <2>1. /\ Read(d, <<DataFrame(full), end>>)
          /\ ysfSequence' = (ysfSequence + 1) % SequenceSpan
          /\ dataCount' = (dataCount + 1) % FrameSpan
      BY <1>7 DEF EndStream
    <2>2. /\ full \in Seq(Chunk)
          /\ \A i \in 1 .. YsfChunks : full[i] = IF i <= Len(chunks) THEN chunks[i] ELSE Silence
      BY <1>1, PaddedShape DEF ChunksInOrder
    <2>3. end = Frame("term", source, 0, ysfSequence', <<>>)
      BY DEF TermFrame
    <2>. HIDE DEF full, end
    <2>4. /\ pc' = "drain" /\ inbox' \in Seq(Datagram)
          /\ ysfQueue' = <<end>> /\ last' = DataFrame(full)
      BY <1>1, <2>1, ReadsTwo
    <2>5. /\ ysfSequence \in 0 .. SequenceSpan - 1 /\ dataCount \in 0 .. 7
          /\ source \in StreamId \cup {None}
      BY <1>1, Spans DEF TypeOK
    <2>6. ysfSequence' \in 0 .. SequenceSpan - 1 /\ dataCount' \in 0 .. FrameSpan - 1
      <3>1. (dataCount + 1) % 8 \in 0 .. 7
        BY <2>5
      <3>. QED
        BY <2>1, <2>5, <3>1, NextNumber, Spans
    <2>7. /\ last' = Frame("data", source, dataCount, ysfSequence', full)
          /\ last'.kind = "data" /\ last'.source = source /\ last'.number = dataCount
          /\ last'.sequence = ysfSequence' /\ last'.chunks = full
      BY <2>1, <2>4 DEF DataFrame, Frame
    <2>8. last' \in YsfFrame /\ end \in YsfFrame
      <3>1. 0 \in 0 .. 7
        OBVIOUS
      <3>. QED
        BY <1>3, <2>2, <2>3, <2>5, <2>6, <2>7, <3>1, FrameType
    <2>9. TypeOK'
      BY <1>1, <1>2, <1>3, <2>4, <2>6, <2>8 DEF TypeOK
    <2>10. QueueHoldsEnd'
      BY <1>2, <2>3, <2>4, <2>7 DEF QueueHoldsEnd
    <2>11. CarriesOneVoice(last')
      <3>1. /\ source = streamId /\ Len(chunks) < 5
            /\ \A i \in 1 .. Len(chunks) :
                 chunks[i] = [stream |-> streamId, place |-> 5 * dataCount + i - 1]
        BY <1>1, <1>7, Spans DEF StandsWithLast, ChunksInOrder
      <3>2. Len(chunks) \in 1 .. YsfChunks
        <4>1. chunks \in Seq(Chunk)
          BY <1>1 DEF TypeOK
        <4>2. Len(chunks) \in Nat /\ Len(chunks) # 0
          BY <1>7, <4>1, EmptySeq, LenProperties
        <4>3. \A n \in Nat : n < 5 /\ n # 0 => n \in 1 .. YsfChunks
          BY Spans
        <4>. QED
          BY <3>1, <4>2, <4>3, Zenon
      <3>3. PICK n \in 1 .. YsfChunks : Len(chunks) = n
        BY <3>2, Zenon
      <3>4. \A i \in 1 .. YsfChunks : last'.chunks[i] =
               IF i <= n
               THEN [stream |-> last'.source, place |-> YsfChunks * last'.number + i - 1]
               ELSE Silence
        <4>1. SUFFICES ASSUME NEW i \in 1 .. YsfChunks
                       PROVE  full[i] = IF i <= n
                                        THEN [stream |-> streamId, place |-> 5 * dataCount + i - 1]
                                        ELSE Silence
          BY <2>7, <3>1, Spans
        <4>2. CASE i <= n
          <5>1. i \in 1 .. n
            BY <4>2
          <5>. QED
            BY <2>2, <3>1, <3>3, <4>2, <5>1
        <4>3. CASE ~(i <= n)
          BY <2>2, <3>3, <4>3
        <4>. QED
          BY <4>2, <4>3, Zenon
      <3>. QED
        BY <3>4 DEF CarriesOneVoice
    <2>12. ysfQueue' # <<>>
      BY <2>4
    <2>. QED
      BY <1>4, <2>4, <2>9, <2>10, <2>11, <2>12
      DEF IInv, OneVoice, NoFrameLeftBehind, SilenceWaitsForEnd
  <1>. QED
    BY <1>5, <1>6, <1>7

\* What waits is handed over: the terminator after the last data frame.
LEMMA HandOverInv ==
    ASSUME IInv, HandOver
    PROVE  IInv'
  <1>1. /\ TypeOK /\ ChunksInOrder
        /\ last.kind = "data" /\ streamId = None
        /\ ysfQueue = <<Frame("term", last.source, 0, last.sequence, <<>>)>>
    BY DEF IInv, QueueHoldsEnd, HandOver
  <1>2. /\ pc' = "drain" /\ inbox' = inbox /\ streamId' = streamId /\ source' = source
        /\ chunks' = chunks /\ ysfSequence' = ysfSequence /\ dataCount' = dataCount
        /\ heard' = heard /\ last' = Head(ysfQueue) /\ ysfQueue' = Tail(ysfQueue)
    BY DEF HandOver, stream
  <1>3. last' = Frame("term", last.source, 0, last.sequence, <<>>) /\ ysfQueue' = <<>>
    BY <1>1, <1>2
  <1>4. last' \in YsfFrame
    <2>1. last.source \in StreamId \cup {None} /\ last.sequence \in 0 .. SequenceSpan - 1
      BY <1>1 DEF TypeOK, YsfFrame
    <2>2. 0 \in 0 .. 7
      OBVIOUS
    <2>. QED
      BY <1>3, <2>1, <2>2, FrameType, NoChunks
  <1>5. last'.kind = "term"
    BY <1>3 DEF Frame
  <1>6. TypeOK'
    BY <1>1, <1>2, <1>3, <1>4 DEF TypeOK
  <1>7. ChunksInOrder'
    BY <1>1, <1>2 DEF ChunksInOrder
  <1>. QED
    BY <1>1, <1>2, <1>3, <1>5, <1>6, <1>7
    DEF IInv, OneVoice, NoFrameLeftBehind, QueueHoldsEnd, StandsWithLast, SilenceWaitsForEnd

\* Steps that hand over no frame and change no stream.
LEMMA QuietInv ==
    ASSUME IInv, pc' \in {"select", "drain"}, inbox' \in Seq(Datagram),
           UNCHANGED <<stream, ysfQueue, last>>,
           ysfQueue # <<>> => pc' = pc
    PROVE  IInv'
  <1>1. /\ streamId' = streamId /\ source' = source /\ chunks' = chunks
        /\ ysfSequence' = ysfSequence /\ dataCount' = dataCount /\ heard' = heard
        /\ ysfQueue' = ysfQueue /\ last' = last
    BY DEF stream
  <1>2. TypeOK'
    BY <1>1 DEF IInv, TypeOK
  <1>3. StandsWithLast' /\ ChunksInOrder'
    BY <1>1 DEF IInv, StandsWithLast, ChunksInOrder
  <1>4. OneVoice' /\ SilenceWaitsForEnd'
    BY <1>1 DEF IInv, OneVoice, CarriesOneVoice, SilenceWaitsForEnd
  <1>5. QueueHoldsEnd' /\ NoFrameLeftBehind'
    BY <1>1 DEF IInv, QueueHoldsEnd, NoFrameLeftBehind
  <1>. QED
    BY <1>2, <1>3, <1>4, <1>5 DEF IInv

LEMMA ArriveInv ==
    ASSUME IInv, NEW d \in Datagram, Arrive(d)
    PROVE  IInv'
  <1>1. pc \in {"select", "drain"} /\ inbox \in Seq(Datagram)
    BY DEF IInv, TypeOK
  <1>2. pc' = pc /\ inbox' = Append(inbox, d) /\ UNCHANGED <<stream, ysfQueue, last>>
    BY DEF Arrive
  <1>3. inbox' \in Seq(Datagram)
    BY <1>1, <1>2
  <1>. QED
    BY <1>1, <1>2, <1>3, QuietInv

LEMMA WakeInv ==
    ASSUME IInv, Wake
    PROVE  IInv'
  <1>1. inbox \in Seq(Datagram) /\ ysfQueue = <<>>
    BY DEF IInv, TypeOK, NoFrameLeftBehind, Wake
  <1>2. pc' = "drain" /\ inbox' = inbox /\ UNCHANGED <<stream, ysfQueue, last>>
    BY DEF Wake
  <1>. QED
    BY <1>1, <1>2, QuietInv

LEMMA NothingLeftInv ==
    ASSUME IInv, NothingLeft
    PROVE  IInv'
  <1>1. inbox \in Seq(Datagram) /\ ysfQueue = <<>>
    BY DEF IInv, TypeOK, NothingLeft
  <1>2. pc' = "select" /\ inbox' = inbox /\ UNCHANGED <<stream, ysfQueue, last>>
    BY DEF NothingLeft
  <1>. QED
    BY <1>1, <1>2, QuietInv

LEMMA IgnoreInv ==
    ASSUME IInv, Ignore
    PROVE  IInv'
  <1>1. Read(Head(inbox), <<>>) /\ UNCHANGED stream
    BY DEF Ignore
  <1>2. /\ pc' = "select" /\ inbox' \in Seq(Datagram)
        /\ ysfQueue = <<>> /\ ysfQueue' = <<>> /\ last' = last
    BY <1>1, ReadsNone DEF IInv
  <1>3. UNCHANGED <<stream, ysfQueue, last>>
    BY <1>1, <1>2
  <1>. QED
    BY <1>2, <1>3, QuietInv

LEMMA CrashInv == Crash => IInv'
  <1>. SUFFICES ASSUME Crash PROVE IInv'
    OBVIOUS
  <1>1. last' = Frame("none", None, 0, 0, <<>>) /\ last' \in YsfFrame
    BY SpanAssumption DEF Crash, Frame, YsfFrame, FrameSpan
  <1>2. TypeOK'
    BY <1>1, SpanAssumption DEF Crash, TypeOK, FrameSpan, PlaceSpan, YsfChunks
  <1>. QED
    BY <1>1, <1>2 DEF Crash, IInv, OneVoice, NoFrameLeftBehind, QueueHoldsEnd, StandsWithLast,
       ChunksInOrder, SilenceWaitsForEnd, Frame, YsfChunks

-----------------------------------------------------------------------------

\* No step loses the invariant: Spec => []IInv, checked by the run dmr_receive.
THEOREM Invariance == Spec => []IInv
  <1>1. IInv /\ [Next]_vars => IInv'
    <2>. SUFFICES ASSUME IInv, [Next]_vars PROVE IInv'
      OBVIOUS
    <2>1. CASE UNCHANGED vars
      <3>1. /\ pc' = pc /\ inbox' = inbox /\ UNCHANGED <<stream, ysfQueue, last>>
        BY <2>1 DEF vars
      <3>2. pc \in {"select", "drain"} /\ inbox \in Seq(Datagram)
        BY DEF IInv, TypeOK
      <3>. QED
        BY <3>1, <3>2, QuietInv
    <2>2. CASE Crash
      BY <2>2, CrashInv
    <2>3. CASE \E d \in Datagram : Arrive(d)
      BY <2>3, ArriveInv
    <2>4. CASE Wake
      BY <2>4, WakeInv
    <2>5. CASE HandOver
      BY <2>5, HandOverInv
    <2>6. CASE NothingLeft
      BY <2>6, NothingLeftInv
    <2>7. CASE Ignore
      BY <2>7, IgnoreInv
    <2>8. CASE \E d \in Datagram : NewHeader(d) \/ FirstVoice(d) \/ Voice(d) \/ EndStream(d)
      BY <2>8, NewHeaderInv, FirstVoiceInv, VoiceInv, EndStreamInv
    <2>. QED
      BY <2>1, <2>2, <2>3, <2>4, <2>5, <2>6, <2>7, <2>8 DEF Next
  <1>. QED
    BY <1>1, InitIInv, PTL DEF Spec

\* No data frame mixes, renames, repeats or skips audio, however streams interleave.
THEOREM VoiceOfOneStream == Spec => []OneVoice
  <1>1. IInv => OneVoice
    BY DEF IInv
  <1>. QED
    BY <1>1, Invariance, PTL

\* The loop never waits in select with a frame to hand over.
THEOREM NoFrameLeft == Spec => []NoFrameLeftBehind
  <1>1. IInv => NoFrameLeftBehind
    BY DEF IInv
  <1>. QED
    BY <1>1, Invariance, PTL

\* Steps that hand nothing over leave the frame handed over last.
LEMMA NothingHandedOver ==
    ASSUME NEW d, Read(d, <<>>)
    PROVE  last' = last
  BY DEF Read

\* A data frame filled up with silence is followed by its terminator: the
\* terminator waits, and what waits is handed over before anything is read.
THEOREM SilenceEnds == Spec => SilenceEndsStream
  <1>1. IInv /\ [Next]_vars =>
          [last.kind = "data" /\ last.chunks[YsfChunks] = Silence
             => last' = last \/ last'.kind \in {"term", "none"}]_vars
    <2>. SUFFICES ASSUME IInv, Next, last.kind = "data", last.chunks[YsfChunks] = Silence
                  PROVE  last' = last \/ last'.kind \in {"term", "none"}
      BY DEF vars
    <2>1. ysfQueue # <<>> /\ QueueHoldsEnd
      BY DEF IInv, SilenceWaitsForEnd
    <2>2. CASE Crash
      BY <2>2 DEF Crash, Frame
    <2>3. CASE \E d \in Datagram : Arrive(d)
      BY <2>3 DEF Arrive
    <2>4. CASE Wake
      BY <2>4 DEF Wake
    <2>5. CASE HandOver
      <3>1. last' = Frame("term", last.source, 0, last.sequence, <<>>)
        BY <2>1, <2>5 DEF HandOver, QueueHoldsEnd
      <3>. QED
        BY <3>1 DEF Frame
    <2>6. CASE NothingLeft
      BY <2>6 DEF NothingLeft
    <2>7. CASE Ignore
      BY <2>7, <2>1 DEF Ignore, Read
    <2>8. CASE \E d \in Datagram : NewHeader(d) \/ FirstVoice(d) \/ Voice(d) \/ EndStream(d)
      BY <2>8, <2>1 DEF NewHeader, FirstVoice, Voice, EndStream, Read
    <2>. QED
      BY <2>2, <2>3, <2>4, <2>5, <2>6, <2>7, <2>8 DEF Next
  <1>. QED
    BY <1>1, Invariance, PTL DEF Spec, SilenceEndsStream

-----------------------------------------------------------------------------
\* The frames handed over form streams.

\* A frame of the stream, as a receiver sees it.
LEMMA VisibleFrame ==
    ASSUME NEW k, NEW s, NEW n, NEW m, NEW c, last' = Frame(k, s, n, m, c)
    PROVE  /\ Visible' = [kind |-> k, source |-> s, number |-> n, sequence |-> m]
           /\ last'.kind = k /\ last'.sequence = m
  BY DEF Frame, Visible

\* Every step is a step of YsfStream or hands nothing over.
LEMMA StepFormsStream ==
    ASSUME IInv, Next
    PROVE  Stream!Next \/ last' = last
  <1>1. TypeOK /\ StandsWithLast /\ ChunksInOrder /\ QueueHoldsEnd
    BY DEF IInv
  <1>2. CASE Crash
    <2>1. last' = Frame("none", None, 0, 0, <<>>)
      BY <1>2 DEF Crash
    <2>2. Stream!Restart
      BY <2>1, VisibleFrame DEF Stream!Restart, Stream!NoFrame
    <2>. QED
      BY <2>2 DEF Stream!Next
  <1>3. CASE (\E d \in Datagram : Arrive(d)) \/ Wake \/ NothingLeft
    BY <1>3 DEF Arrive, Wake, NothingLeft
  <1>4. CASE HandOver
    <2>1. last' = Frame("term", last.source, 0, last.sequence, <<>>) /\ last.kind = "data"
      BY <1>1, <1>4 DEF HandOver, QueueHoldsEnd
    <2>2. Stream!Terminator
      BY <2>1, VisibleFrame DEF Stream!Terminator, Visible
    <2>. QED
      BY <2>2 DEF Stream!Next
  <1>5. CASE Ignore
    BY <1>5, NothingHandedOver DEF Ignore
  <1>6. ASSUME NEW d \in Datagram, NewHeader(d) \/ FirstVoice(d)
        PROVE  Stream!Next
    <2>1. Read(d, <<HeaderFrame(d.stream)>>)
      BY <1>6 DEF NewHeader, FirstVoice
    <2>2. last' = Frame("header", d.stream, 0, 0, <<>>)
      BY <1>1, <2>1, ReadsOne DEF HeaderFrame
    <2>3. Stream!Header(d.stream)
      BY <2>2, VisibleFrame DEF Stream!Header
    <2>. QED
      BY <2>3 DEF Stream!Next, Datagram
  <1>7. ASSUME streamId # None, NEW d, NEW five, NEW g,
               Read(d, <<DataFrame(five)>>) \/ Read(d, <<DataFrame(five), g>>)
        PROVE  Stream!Next
    <2>1. last' = Frame("data", source, dataCount, (ysfSequence + 1) % SequenceSpan, five)
      BY <1>1, <1>7, ReadsOne, ReadsTwo DEF DataFrame
    <2>2. /\ last.kind \in {"header", "data"} /\ last.source = source
          /\ last.sequence = ysfSequence /\ dataCount = ysfSequence % FrameSpan
      BY <1>1, <1>7 DEF StandsWithLast
    <2>3. Stream!Data
      <3>1. /\ Visible' = [kind |-> "data", source |-> source, number |-> dataCount,
                            sequence |-> (ysfSequence + 1) % SequenceSpan]
            /\ last'.kind = "data" /\ last'.sequence = (ysfSequence + 1) % SequenceSpan
        BY <2>1, VisibleFrame, Zenon
      <3>2. Visible.source = source
        BY <2>2 DEF Visible
      <3>3. last'.sequence = (last.sequence + 1) % SequenceSpan
        BY <2>2, <3>1
      <3>4. Visible' = [kind |-> "data", source |-> Visible.source,
                        number |-> last.sequence % FrameSpan, sequence |-> last'.sequence]
        BY <2>2, <3>1, <3>2
      <3>5. (last.kind \in {"header", "data"})' = (last.kind \in {"header", "data"})
        BY <2>2, <3>1
      <3>. QED
        BY <2>2, <3>3, <3>4, <3>5, Zenon DEF Stream!Data
    <2>. QED
      BY <2>3 DEF Stream!Next
  <1>8. ASSUME NEW d \in Datagram, Voice(d)
        PROVE  Stream!Next \/ last' = last
    <2>. DEFINE all == chunks \o ChunksOf(d.stream, heard)
    <2>1. streamId # None
      BY <1>8, IdAssumption DEF Voice, Datagram
    <2>2. Read(d, <<DataFrame(SubSeq(all, 1, YsfChunks))>>) \/ Read(d, <<>>)
      BY <1>8 DEF Voice
    <2>. QED
      BY <1>7, <2>1, <2>2, NothingHandedOver
  <1>9. ASSUME NEW d \in Datagram, EndStream(d)
        PROVE  Stream!Next \/ last' = last
    <2>1. CASE streamId = None
      BY <1>9, <2>1, NothingHandedOver DEF EndStream
    <2>2. CASE streamId # None /\ chunks = <<>>
      <3>1. Read(d, <<TermFrame(ysfSequence)>>)
        BY <1>9, <2>2 DEF EndStream
      <3>2. last' = Frame("term", source, 0, ysfSequence, <<>>)
        BY <1>1, <3>1, ReadsOne DEF TermFrame
      <3>3. /\ last.kind \in {"header", "data"} /\ last.source = source
            /\ last.sequence = ysfSequence
        BY <1>1, <2>2 DEF StandsWithLast
      <3>4. Stream!Terminator
        BY <3>2, <3>3, VisibleFrame DEF Stream!Terminator, Visible
      <3>. QED
        BY <3>4 DEF Stream!Next
    <2>3. CASE streamId # None /\ chunks # <<>>
      <3>1. Read(d, <<DataFrame(Padded(chunks)), TermFrame(ysfSequence')>>)
        BY <1>9, <2>3 DEF EndStream
      <3>. QED
        BY <1>7, <2>3, <3>1
    <2>. QED
      BY <2>1, <2>2, <2>3
  <1>. QED
    BY <1>2, <1>3, <1>4, <1>5, <1>6, <1>8, <1>9 DEF Next

\* recv_packet implements YsfStream: what the service loop is given are headers,
\* data frames numbered from one, and terminators that repeat the last number.
THEOREM ImplementsStream == Spec => FormsStreams
  <1>1. Init => Stream!Init
    BY DEF Init, Stream!Init, Stream!NoFrame, Visible, Frame
  <1>2. IInv /\ [Next]_vars
          => [Stream!Next]_<<Visible, last.kind \in {"header", "data"}, last.sequence>>
    <2>1. ASSUME last' = last
          PROVE  UNCHANGED <<Visible, last.kind \in {"header", "data"}, last.sequence>>
      BY <2>1 DEF Visible
    <2>2. UNCHANGED vars => last' = last
      BY DEF vars
    <2>. QED
      BY <2>1, <2>2, StepFormsStream
  <1>. QED
    BY <1>1, <1>2, Invariance, PTL DEF Spec, FormsStreams, Stream!Spec
=============================================================================
