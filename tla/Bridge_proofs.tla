----------------------------- MODULE Bridge_proofs -----------------------------
(***************************************************************************)
(* Proofs about Bridge for any talkgroup and colour code, from what is     *)
(* proved about the words of ModeConv.                                     *)
(***************************************************************************)
EXTENDS Bridge, ModeConv_proofs

\* Words of unknowns, and what of them differs.

LEMMA UnknownsHaveBits ==
    ASSUME NEW name, NEW of, NEW n \in Nat
    PROVE  HasBits(Unknowns(name, of, n), n)
  BY DEF HasBits, Unknowns, Bits

LEMMA ZerosHaveBits == ASSUME NEW n \in Nat PROVE HasBits(Zeros(n), n)
  BY DEF HasBits, Zeros, Bits

LEMMA OtherUnknowns ==
    ASSUME NEW s, NEW t, NEW x, NEW y, NEW i, NEW j, s # t
    PROVE  Unknown(s, x, i) # Unknown(t, y, j)
  <1>1. <<s, x, i>> # <<t, y, j>>
    OBVIOUS
  <1>. QED
    BY <1>1 DEF Unknown

LEMMA BitsHaveLength ==
    ASSUME NEW n \in Nat, NEW word, HasBits(word, n)
    PROVE  Len(word) = n
  BY DEF HasBits

\* Two and one are three.
LEMMA AppendToTwo ==
    ASSUME NEW x, NEW y, NEW z
    PROVE  Append(<<x, y>>, z) = <<x, y, z>>
  <1>. DEFINE S == {x, y, z}
              all == Append(<<x, y>>, z)
  <1>1. <<x, y>> \in Seq(S) /\ z \in S
    OBVIOUS
  <1>2. all \in Seq(S) /\ Len(all) = 3 /\ all[1] = x /\ all[2] = y /\ all[3] = z
    BY <1>1, AppendProperties
  <1>. HIDE DEF all
  <1>3. all = <<all[1], all[2], all[3]>>
    BY <1>2
  <1>4. all = <<x, y, z>>
    BY <1>2, <1>3
  <1>. QED
    BY <1>4 DEF all

LEMMA ConcatTwoAndOne ==
    ASSUME NEW x, NEW y, NEW z
    PROVE  <<x, y>> \o <<z>> = <<x, y, z>>
  <1>. DEFINE S == {x, y, z}
              all == <<x, y>> \o <<z>>
  <1>1. <<x, y>> \in Seq(S) /\ <<z>> \in Seq(S)
    OBVIOUS
  <1>2. all \in Seq(S) /\ Len(all) = 3 /\ all[1] = x /\ all[2] = y /\ all[3] = z
    BY <1>1, ConcatProperties
  <1>. HIDE DEF all
  <1>3. all = <<all[1], all[2], all[3]>>
    BY <1>2
  <1>4. all = <<x, y, z>>
    BY <1>2, <1>3
  <1>. QED
    BY <1>4 DEF all

-----------------------------------------------------------------------------

\* What is read of a voice channel are words of an AMBE frame.
LEMMA VchHasWords ==
    ASSUME NEW data, NEW offset
    PROVE  LET ambe == VchAmbe(data, offset)
           IN  IsAmbe(ambe.a, ambe.b, ambe.c) /\ ambe = Ambe(ambe.a, ambe.b, ambe.c)
  <1>. DEFINE vch == Bits(104, LAMBDA i : Xor(data[offset + VchTable(i) + 1], White(i)))
              important == Bits(27, LAMBDA i : vch[3 * i + 2])
              a == Part(important, 0, 12)
              b == Part(important, 12, 12)
              c1 == Part(important, 24, 3)
              c2 == Part(vch, 81, 22)
              c == Join(c1, c2)
  <1>1. VchAmbe(data, offset) = [a |-> a, b |-> b, c |-> c]
    BY DEF VchAmbe, Join
  <1>. HIDE DEF vch, important
  <1>2. HasBits(a, 12) /\ HasBits(b, 12) /\ HasBits(c1, 3) /\ HasBits(c2, 22)
    BY Parted
  <1>. HIDE DEF a, b, c1, c2
  <1>3. HasBits(c, 25)
    BY <1>2, Joined
  <1>. HIDE DEF c
  <1>. QED
    BY <1>1, <1>2, <1>3 DEF IsAmbe, Ambe

LEMMA SpokenHasWords ==
    ASSUME NEW who, NEW k
    PROVE  LET ambe == Spoken(who, k)
           IN  IsAmbe(ambe.a, ambe.b, ambe.c) /\ ambe = Ambe(ambe.a, ambe.b, ambe.c)
  BY UnknownsHaveBits DEF Spoken, IsAmbe, Ambe

\* The chunks made of the radio's packet.
RadioAmbe(k) == VchAmbe(RadioPacket, VchOffset(k))
RadioChunk(k) == DmrChunk(RadioAmbe(k))

LEMMA RadioChunks ==
    ASSUME NEW k
    PROVE  HasBits(RadioChunk(k), 72) /\ AmbeOf(RadioChunk(k)) = RadioAmbe(k)
  <1>. DEFINE a == RadioAmbe(k).a
              b == RadioAmbe(k).b
              c == RadioAmbe(k).c
  <1>1. IsAmbe(a, b, c) /\ RadioAmbe(k) = Ambe(a, b, c)
    BY VchHasWords DEF RadioAmbe
  <1>. HIDE DEF a, b, c
  <1>2. /\ HasBits(DmrChunk(Ambe(a, b, c)), 72)
        /\ AmbeOf(DmrChunk(Ambe(a, b, c))) = Ambe(a, b, c)
    BY <1>1, ChunkReadsBack
  <1>. QED
    BY <1>1, <1>2 DEF RadioChunk

\* Chunk k of voice frame v: the radio's, and silence behind them.
FrameChunk(v, k) == IF 3 * (v - 1) + k <= 5 THEN RadioChunk(3 * (v - 1) + k) ELSE Silence

LEMMA VoiceFramesAre ==
    /\ DOMAIN VoiceFrames = 1 .. 3
    /\ \A v \in 1 .. 3 :
          VoiceFrames[v] =
              PackDmrVoiceChunks(<<FrameChunk(v, 1), FrameChunk(v, 2), FrameChunk(v, 3)>>)
  <1>. DEFINE chunk == [k \in 1 .. 5 |-> RadioChunk(k)]
  <1>1. ysf_vd2_frame_to_dmr_voice_frames(RadioPacket)
          = <<PackDmrVoiceChunks(SubSeq(chunk, 1, 3)),
              PackDmrVoiceChunks(SubSeq(chunk, 4, 5) \o <<Silence>>)>>
    BY DEF ysf_vd2_frame_to_dmr_voice_frames, RadioChunk, RadioAmbe
  <1>2. SubSeq(chunk, 1, 3) = <<RadioChunk(1), RadioChunk(2), RadioChunk(3)>>
    <2>. DEFINE first == Part(chunk, 0, 3)
    <2>1. HasBits(first, 3) /\ \A k \in 1 .. 3 : first[k] = chunk[0 + k]
      <3>. HIDE DEF chunk
      <3>. QED
        BY Parted
    <2>2. first = SubSeq(chunk, 1, 3)
      BY DEF Part
    <2>. HIDE DEF first
    <2>3. first[1] = RadioChunk(1) /\ first[2] = RadioChunk(2) /\ first[3] = RadioChunk(3)
      BY <2>1
    <2>4. first = <<first[1], first[2], first[3]>>
      BY <2>1 DEF HasBits
    <2>. QED
      BY <2>2, <2>3, <2>4
  <1>3. SubSeq(chunk, 4, 5) \o <<Silence>> = <<RadioChunk(4), RadioChunk(5), Silence>>
    <2>. DEFINE last == Part(chunk, 3, 2)
    <2>1. HasBits(last, 2) /\ \A k \in 1 .. 2 : last[k] = chunk[3 + k]
      <3>. HIDE DEF chunk
      <3>. QED
        BY Parted
    <2>2. last = SubSeq(chunk, 4, 5)
      BY DEF Part
    <2>. HIDE DEF last
    <2>3. last[1] = RadioChunk(4) /\ last[2] = RadioChunk(5)
      BY <2>1
    <2>4. last = <<last[1], last[2]>>
      BY <2>1 DEF HasBits
    <2>5. last \o <<Silence>> = <<last[1], last[2], Silence>>
      BY <2>4, ConcatTwoAndOne
    <2>. QED
      BY <2>2, <2>3, <2>5
  <1>4. VoiceFrames
          = <<PackDmrVoiceChunks(<<RadioChunk(1), RadioChunk(2), RadioChunk(3)>>),
              PackDmrVoiceChunks(<<RadioChunk(4), RadioChunk(5), Silence>>),
              PackDmrVoiceChunks(<<Silence, Silence, Silence>>)>>
    <2>. DEFINE x == PackDmrVoiceChunks(SubSeq(chunk, 1, 3))
                y == PackDmrVoiceChunks(SubSeq(chunk, 4, 5) \o <<Silence>>)
                z == PackDmrVoiceChunks(<<Silence, Silence, Silence>>)
    <2>1. VoiceFrames = Append(<<x, y>>, z)
      BY <1>1 DEF VoiceFrames
    <2>. HIDE DEF x, y, z
    <2>2. VoiceFrames = <<x, y, z>>
      BY <2>1, AppendToTwo
    <2>. QED
      BY <1>2, <1>3, <2>2 DEF x, y, z
  <1>. QED
    BY <1>4 DEF FrameChunk

LEMMA VoiceFramesHaveChunks ==
    ASSUME NEW v \in 1 .. 3
    PROVE  /\ HasBits(VoiceFrames[v], 264)
           /\ DmrChunks(VoiceFrames[v])
                = <<FrameChunk(v, 1), FrameChunk(v, 2), FrameChunk(v, 3)>>
  <1>1. \A k \in 1 .. 3 : HasBits(FrameChunk(v, k), 72)
    BY RadioChunks, UnknownsHaveBits DEF FrameChunk, Silence
  <1>2. AreChunks(FrameChunk(v, 1), FrameChunk(v, 2), FrameChunk(v, 3))
    BY <1>1 DEF AreChunks
  <1>. QED
    BY <1>2, VoiceFramesAre, FrameReadsBack

\* What stands between the voice of a frame.
LEMMA VoicePayload ==
    ASSUME NEW frame, NEW c, NEW i, NEW lc
    PROVE  LET p == make_dmr_voice_payload(frame, c, i, lc)
           IN  /\ HasBits(p, 264)
               /\ Part(p, 0, 108) = Part(frame, 0, 108)
               /\ Part(p, 156, 108) = Part(frame, 156, 108)
               /\ i # 0 => /\ Part(p, 108, 8) = Part(Emb(c, Lcss(i)), 0, 8)
                           /\ Part(p, 116, 32) = Fragment(i, lc)
                           /\ Part(p, 148, 8) = Part(Emb(c, Lcss(i)), 8, 8)
               /\ i = 0 => /\ Part(p, 108, 8) = Part(AudioSync, 0, 8)
                           /\ Part(p, 148, 8) = Part(AudioSync, 40, 8)
  <1>. DEFINE emb == Emb(c, Lcss(i))
              e1 == Part(emb, 0, 8)
              e2 == Part(emb, 8, 8)
              fragment == Fragment(i, lc)
              half == Join(e1, fragment)
              signal == Join(half, e2)
              middle == IF i = 0 THEN AudioSync ELSE signal
              x == Part(frame, 0, 108)
              y == Part(frame, 156, 108)
              front == Join(x, middle)
              p == Join(front, y)
  <1>1. make_dmr_voice_payload(frame, c, i, lc) = p
    BY DEF make_dmr_voice_payload, Join
  <1>2. HasBits(e1, 8) /\ HasBits(e2, 8) /\ HasBits(x, 108) /\ HasBits(y, 108)
    <2>1. \A place, n \in Nat : \A word : HasBits(Part(word, place, n), n)
      BY Parted
    <2>. QED
      BY <2>1
  <1>3. HasBits(fragment, 32)
    <2>1. HasBits(Part(EmbeddedLc(lc), 32 * (i - 1), 32), 32) \/ i \notin 1 .. 4
      <3>. SUFFICES ASSUME i \in 1 .. 4
                    PROVE  HasBits(Part(EmbeddedLc(lc), 32 * (i - 1), 32), 32)
        OBVIOUS
      <3>1. 32 * (i - 1) \in Nat
        OBVIOUS
      <3>. QED
        BY <3>1, Parted
    <2>. QED
      BY <2>1, ZerosHaveBits DEF Fragment
  <1>. HIDE DEF e1, e2, fragment, x, y
  <1>4. HasBits(half, 40)
    BY <1>2, <1>3, JoinedBits
  <1>5. Part(half, 0, 8) = e1
    <2>1. Part(half, 0, 8) = Part(e1, 0, 8)
      BY <1>2, <1>3, PartOfFirst
    <2>. QED
      BY <1>2, <2>1, PartIsWhole
  <1>6. Part(half, 8, 32) = fragment
    <2>1. Part(half, 8, 32) = Part(fragment, 0, 32)
      BY <1>2, <1>3, PartOfLast
    <2>. QED
      BY <1>3, <2>1, PartIsWhole
  <1>. HIDE DEF half
  <1>7. HasBits(signal, 48)
    BY <1>2, <1>4, JoinedBits
  <1>8. Part(signal, 0, 8) = Part(half, 0, 8)
    BY <1>2, <1>4, PartOfFirst
  <1>9. Part(signal, 8, 32) = Part(half, 8, 32)
    BY <1>2, <1>4, PartOfFirst
  <1>10. Part(signal, 40, 8) = e2
    <2>1. Part(signal, 40, 8) = Part(e2, 0, 8)
      BY <1>2, <1>4, PartOfLast
    <2>. QED
      BY <1>2, <2>1, PartIsWhole
  <1>. HIDE DEF signal
  <1>11. HasBits(middle, 48)
    BY <1>7, UnknownsHaveBits DEF AudioSync
  <1>. HIDE DEF middle
  <1>12. HasBits(front, 156)
    BY <1>2, <1>11, JoinedBits
  <1>13. Part(front, 0, 108) = x
    <2>1. Part(front, 0, 108) = Part(x, 0, 108)
      BY <1>2, <1>11, PartOfFirst
    <2>. QED
      BY <1>2, <2>1, PartIsWhole
  <1>14. Part(front, 108, 8) = Part(middle, 0, 8)
    BY <1>2, <1>11, PartOfLast
  <1>15. Part(front, 116, 32) = Part(middle, 8, 32)
    BY <1>2, <1>11, PartOfLast
  <1>16. Part(front, 148, 8) = Part(middle, 40, 8)
    BY <1>2, <1>11, PartOfLast
  <1>. HIDE DEF front
  <1>17. HasBits(p, 264)
    BY <1>2, <1>12, JoinedBits
  <1>18. Part(p, 0, 108) = Part(front, 0, 108)
    BY <1>2, <1>12, PartOfFirst
  <1>19. Part(p, 108, 8) = Part(front, 108, 8)
    BY <1>2, <1>12, PartOfFirst
  <1>20. Part(p, 116, 32) = Part(front, 116, 32)
    BY <1>2, <1>12, PartOfFirst
  <1>21. Part(p, 148, 8) = Part(front, 148, 8)
    BY <1>2, <1>12, PartOfFirst
  <1>22. Part(p, 156, 108) = y
    <2>1. Part(p, 156, 108) = Part(y, 0, 108)
      BY <1>2, <1>12, PartOfLast
    <2>. QED
      BY <1>2, <2>1, PartIsWhole
  <1>. HIDE DEF p
  <1>23. i = 0 => middle = AudioSync
    BY DEF middle
  <1>24. i # 0 => middle = signal
    BY DEF middle
  <1>25. /\ i # 0 => /\ Part(p, 108, 8) = Part(Emb(c, Lcss(i)), 0, 8)
                     /\ Part(p, 116, 32) = Fragment(i, lc)
                     /\ Part(p, 148, 8) = Part(Emb(c, Lcss(i)), 8, 8)
         /\ i = 0 => /\ Part(p, 108, 8) = Part(AudioSync, 0, 8)
                     /\ Part(p, 148, 8) = Part(AudioSync, 40, 8)
    BY <1>5, <1>6, <1>8, <1>9, <1>10, <1>14, <1>15, <1>16, <1>19, <1>20, <1>21, <1>23, <1>24
       DEF e1, e2, fragment
  <1>. QED
    BY <1>1, <1>13, <1>17, <1>18, <1>22, <1>25 DEF x, y

\* The middle of a voice payload shows whether a fragment is in it, and which.
LEMMA Marked ==
    ASSUME NEW c, NEW d, NEW l, NEW m, l # m
    PROVE  /\ Part(Emb(c, l), 0, 8) # Part(Emb(d, m), 0, 8)
           /\ Part(AudioSync, 0, 8) # Part(Emb(d, m), 0, 8)
  <1>. DEFINE x == Emb(c, l)
              y == Emb(d, m)
              z == AudioSync
  <1>1. x[1] = Unknown("emb", <<c, l>>, 0) /\ y[1] = Unknown("emb", <<d, m>>, 0)
        /\ z[1] = Unknown("sync", "audio", 0)
    BY DEF Emb, AudioSync, Unknowns, Bits
  <1>2. <<c, l>> # <<d, m>>
    OBVIOUS
  <1>3. x[1] # y[1]
    <2>1. <<"emb", <<c, l>>, 0>> # <<"emb", <<d, m>>, 0>>
      BY <1>2
    <2>. QED
      BY <1>1, <2>1 DEF Unknown
  <1>4. z[1] # y[1]
    <2>1. <<"sync", "audio", 0>> # <<"emb", <<d, m>>, 0>>
      OBVIOUS
    <2>. QED
      BY <1>1, <2>1 DEF Unknown
  <1>. HIDE DEF x, y, z
  <1>5. Part(x, 0, 8)[1] = x[1] /\ Part(y, 0, 8)[1] = y[1] /\ Part(z, 0, 8)[1] = z[1]
    <2>1. \A word : Part(word, 0, 8)[1] = word[0 + 1]
      BY Parted
    <2>. QED
      BY <2>1
  <1>. QED
    BY <1>3, <1>4, <1>5 DEF x, y, z

-----------------------------------------------------------------------------

\* The chunks of a frame are all that is around its middle.
Around(frame) == Join(Part(frame, 0, 108), Part(frame, 156, 108))

LEMMA ChunksAround ==
    ASSUME NEW frame
    PROVE  /\ Part(Around(frame), 0, 72) = DmrChunks(frame)[1]
           /\ Part(Around(frame), 72, 72) = DmrChunks(frame)[2]
           /\ Part(Around(frame), 144, 72) = DmrChunks(frame)[3]
  <1>. DEFINE x == Part(frame, 0, 108)
              y == Part(frame, 156, 108)
              raw == Join(x, y)
  <1>1. HasBits(x, 108) /\ HasBits(y, 108)
    BY Parted
  <1>2. Part(x, 0, 72) = Part(frame, 0, 72) /\ Part(x, 72, 36) = Part(frame, 72, 36)
    BY PartOfPart
  <1>3. Part(y, 0, 36) = Part(frame, 156, 36) /\ Part(y, 36, 72) = Part(frame, 192, 72)
    BY PartOfPart
  <1>. HIDE DEF x, y
  <1>4. Part(raw, 0, 72) = Part(x, 0, 72)
    BY <1>1, PartOfFirst
  <1>5. Part(raw, 72, 36) = Part(x, 72, 36)
    BY <1>1, PartOfFirst
  <1>6. Part(raw, 108, 36) = Part(y, 0, 36)
    BY <1>1, PartOfLast
  <1>7. Part(raw, 144, 72) = Part(y, 36, 72)
    BY <1>1, PartOfLast
  <1>. HIDE DEF raw
  <1>8. Part(raw, 72, 72) = Join(Part(raw, 72, 36), Part(raw, 108, 36))
    BY PartsJoined
  <1>9. DmrChunks(frame)
          = << Part(frame, 0, 72), Join(Part(frame, 72, 36), Part(frame, 156, 36)),
               Part(frame, 192, 72) >>
    BY DEF DmrChunks, Join
  <1>10. Around(frame) = raw
    BY DEF Around, raw, x, y
  <1>. QED
    BY <1>2, <1>3, <1>4, <1>5, <1>6, <1>7, <1>8, <1>9, <1>10

\* Voice around any middle.
LEMMA ChunksOfVoice ==
    ASSUME NEW voices, HasBits(voices, 216), NEW middle, HasBits(middle, 48)
    PROVE  LET frame == Part(voices, 0, 108) \o middle \o Part(voices, 108, 108)
           IN  /\ DmrChunks(frame)[1] = Part(voices, 0, 72)
               /\ DmrChunks(frame)[2] = Part(voices, 72, 72)
               /\ DmrChunks(frame)[3] = Part(voices, 144, 72)
  <1>. DEFINE x == Part(voices, 0, 108)
              y == Part(voices, 108, 108)
              front == Join(x, middle)
              frame == Join(front, y)
  <1>1. HasBits(x, 108) /\ HasBits(y, 108)
    BY Parted
  <1>2. Join(x, y) = voices
    <2>1. Join(x, y) = Part(voices, 0, 216)
      BY PartsJoined
    <2>. QED
      BY <2>1, PartIsWhole
  <1>. HIDE DEF x, y
  <1>3. HasBits(front, 156)
    BY <1>1, JoinedBits
  <1>4. Part(front, 0, 108) = x
    <2>1. Part(front, 0, 108) = Part(x, 0, 108)
      BY <1>1, PartOfFirst
    <2>. QED
      BY <1>1, <2>1, PartIsWhole
  <1>. HIDE DEF front
  <1>5. Part(frame, 0, 108) = Part(front, 0, 108)
    BY <1>1, <1>3, PartOfFirst
  <1>6. Part(frame, 156, 108) = y
    <2>1. Part(frame, 156, 108) = Part(y, 0, 108)
      BY <1>1, <1>3, PartOfLast
    <2>. QED
      BY <1>1, <2>1, PartIsWhole
  <1>. HIDE DEF frame
  <1>7. Around(frame) = voices
    BY <1>2, <1>4, <1>5, <1>6 DEF Around
  <1>8. frame = Part(voices, 0, 108) \o middle \o Part(voices, 108, 108)
    BY DEF frame, front, x, y, Join
  <1>. QED
    BY <1>7, <1>8, ChunksAround

\* What a DMR station sends becomes the voice channels of its words.
LEMMA StationVoice ==
    dmr_voice_frame_to_ysf_vch(StationFrame) = [k \in 1 .. 3 |-> YsfVch(Spoken("station", k))]
  <1>. DEFINE chunk == [k \in 1 .. 3 |-> DmrChunk(Spoken("station", k))]
              all == FlattenSeq(chunk)
              middle == Unknowns("station", "middle", 48)
  <1>1. \A k \in 1 .. 3 : HasBits(chunk[k], 72) /\ AmbeOf(chunk[k]) = Spoken("station", k)
    <2>. TAKE k \in 1 .. 3
    <2>1. HasBits(DmrChunk(Spoken("station", k)), 72)
          /\ AmbeOf(DmrChunk(Spoken("station", k))) = Spoken("station", k)
      <3>. DEFINE ambe == Spoken("station", k)
      <3>1. IsAmbe(ambe.a, ambe.b, ambe.c) /\ ambe = Ambe(ambe.a, ambe.b, ambe.c)
        BY SpokenHasWords
      <3>. HIDE DEF ambe
      <3>2. HasBits(DmrChunk(ambe), 72) /\ AmbeOf(DmrChunk(ambe)) = ambe
        BY <3>1, ChunkReadsBack
      <3>. QED
        BY <3>2 DEF ambe
    <2>. QED
      BY <2>1
  <1>2. AreWords(chunk, 3, 72)
    BY <1>1 DEF AreWords, HasBits
  <1>. HIDE DEF chunk
  <1>3. HasBits(all, 216)
    <2>1. HasBits(all, 72 * 3)
      BY <1>2, Flattened
    <2>. QED
      BY <2>1
  <1>4. HasRows(all, chunk, 3, 72)
    BY <1>2, FlattenedRows
  <1>5. Part(all, 0, 72) = chunk[1] /\ Part(all, 72, 72) = chunk[2] /\ Part(all, 144, 72) = chunk[3]
    <2>. HIDE DEF all
    <2>. QED
      BY <1>4 DEF HasRows, Row
  <1>6. HasBits(middle, 48)
    BY UnknownsHaveBits
  <1>. HIDE DEF middle
  <1>7. StationFrame = Part(all, 0, 108) \o middle \o Part(all, 108, 108)
    BY DEF StationFrame, chunk, middle
  <1>. HIDE DEF all
  <1>8. /\ DmrChunks(StationFrame)[1] = chunk[1]
        /\ DmrChunks(StationFrame)[2] = chunk[2]
        /\ DmrChunks(StationFrame)[3] = chunk[3]
    BY <1>3, <1>5, <1>6, <1>7, ChunksOfVoice
  <1>9. \A k \in 1 .. 3 : AmbeOf(DmrChunks(StationFrame)[k]) = Spoken("station", k)
    BY <1>1, <1>8
  <1>. QED
    BY <1>9 DEF dmr_voice_frame_to_ysf_vch

\* The voice channels of a packet are in their native places.
LEMMA PacketHasChannels ==
    ASSUME NEW vch, \A k \in 1 .. 5 : HasBits(vch[k], 104)
    PROVE  /\ HasBits(YsfdPacket(vch), 1240)
           /\ \A k \in 1 .. 5 : Part(YsfdPacket(vch), 560 + 144 * (k - 1), 104) = vch[k]
  <1>. DEFINE head == Unknowns("ysfd", "head", 520)
              dch(k) == Unknowns("ysfd", k, 40)
              block == [k \in 1 .. 5 |-> Join(dch(k), vch[k])]
              all == FlattenSeq(block)
              packet == Join(head, all)
  <1>1. HasBits(head, 520) /\ \A k : HasBits(dch(k), 40)
    BY UnknownsHaveBits
  <1>2. YsfdPacket(vch) = packet
    BY DEF YsfdPacket, Join
  <1>. HIDE DEF head, dch
  <1>3. ASSUME NEW k \in 1 .. 5
        PROVE  HasBits(block[k], 144) /\ Part(block[k], 40, 104) = vch[k]
    <2>. DEFINE x == dch(k)
                y == vch[k]
                z == Join(x, y)
    <2>1. HasBits(x, 40) /\ HasBits(y, 104)
      BY <1>1
    <2>2. block[k] = z
      OBVIOUS
    <2>. HIDE DEF x, y, block
    <2>3. HasBits(z, 144)
      BY <2>1, JoinedBits
    <2>4. Part(z, 40, 104) = Part(y, 0, 104)
      BY <2>1, PartOfLast
    <2>5. Part(y, 0, 104) = y
      BY <2>1, PartIsWhole
    <2>. QED
      BY <2>2, <2>3, <2>4, <2>5 DEF y
  <1>4. AreWords(block, 5, 144)
    <2>1. HasBits(block, 5)
      BY DEF HasBits
    <2>. QED
      BY <1>3, <2>1 DEF AreWords
  <1>. HIDE DEF block
  <1>5. HasBits(all, 144 * 5)
    BY <1>4, Flattened
  <1>6. HasRows(all, block, 5, 144)
    BY <1>4, FlattenedRows
  <1>7. HasBits(all, 720)
    <2>. HIDE DEF all
    <2>. QED
      BY <1>5
  <1>. HIDE DEF all
  <1>8. HasBits(packet, 1240)
    BY <1>1, <1>7, JoinedBits
  <1>9. ASSUME NEW k \in 1 .. 5 PROVE Part(packet, 560 + 144 * (k - 1), 104) = vch[k]
    <2>. DEFINE at == 144 * (k - 1)
                native == 560 + at
                row == Part(all, at, 144)
    <2>1. at \in Nat /\ at <= 576 /\ native \in Nat
      OBVIOUS
    <2>2. row = block[k]
      BY <1>6 DEF HasRows, Row
    <2>. HIDE DEF at
    <2>3. native = 520 + (at + 40) /\ at + 40 \in Nat /\ (at + 40) + 104 <= 720
      BY <2>1
    <2>4. Part(packet, native, 104) = Part(all, at + 40, 104)
      BY <1>1, <1>7, <2>1, <2>3, PartOfLast, SMTT(30)
    <2>5. Part(row, 40, 104) = Part(all, at + 40, 104)
      BY <2>1, PartOfPart, SMTT(30)
    <2>. HIDE DEF row
    <2>6. Part(packet, native, 104) = vch[k]
      BY <1>3, <2>2, <2>4, <2>5
    <2>. QED
      BY <2>6 DEF at
  <1>. QED
    BY <1>2, <1>8, <1>9

\* The voice channel of a word spoken, wherever it is.
Vch(who, k) == YsfVch(Spoken(who, k))

LEMMA SpokenChannel ==
    ASSUME NEW who, NEW k
    PROVE  /\ HasBits(Vch(who, k), 104)
           /\ VchAmbe(Vch(who, k), 0) = Spoken(who, k)
           /\ Agree(Unwhitened(Vch(who, k), 0))
  <1>. DEFINE ambe == Spoken(who, k)
  <1>1. IsAmbe(ambe.a, ambe.b, ambe.c) /\ ambe = Ambe(ambe.a, ambe.b, ambe.c)
    BY SpokenHasWords
  <1>. HIDE DEF ambe
  <1>2. /\ HasBits(YsfVch(ambe), 104)
        /\ VchAmbe(YsfVch(ambe), 0) = ambe
        /\ Agree(Unwhitened(YsfVch(ambe), 0))
    BY <1>1, VchReadsBack
  <1>. QED
    BY <1>2 DEF ambe, Vch

\* What BuiltPacket says of a packet is all a radio needs.
LEMMA Returned == BuiltPacket => VoiceReturned
  <1>. SUFFICES ASSUME BuiltPacket, ysfd # <<>>, NEW k \in 1 .. 5
                PROVE  LET native == 560 + 144 * (k - 1)
                           vch == Bits(104, LAMBDA i :
                                      Xor(ysfd[native + VchTable(i) + 1], White(i)))
                       IN  /\ VchAmbe(ysfd, native) = Spoken("station", ysfdWords[k])
                           /\ \A i \in 1 .. 27 :
                                 vch[3 * i - 2] = vch[3 * i] /\ vch[3 * i - 1] = vch[3 * i]
    BY DEF VoiceReturned
  <1>. DEFINE native == 560 + 144 * (k - 1)
              word == ysfdWords[k]
              vch == [i \in 1 .. 5 |-> Vch("station", ysfdWords[i])]
  <1>1. ysfd = YsfdPacket(vch)
    BY DEF BuiltPacket, Vch
  <1>2. \A i \in 1 .. 5 : HasBits(vch[i], 104)
    BY SpokenChannel
  <1>3. vch[k] = Vch("station", word)
    OBVIOUS
  <1>4. native \in Nat
    OBVIOUS
  <1>. HIDE DEF vch
  <1>5. Part(ysfd, native, 104) = Vch("station", word)
    BY <1>1, <1>2, <1>3, PacketHasChannels
  <1>. HIDE DEF native, word
  <1>6. VchAmbe(ysfd, native) = Spoken("station", word)
    BY <1>4, <1>5, AmbeElsewhere, SpokenChannel
  <1>7. Agree(Unwhitened(ysfd, native))
    BY <1>4, <1>5, UnwhitenedElsewhere, SpokenChannel
  <1>. QED
    BY <1>6, <1>7 DEF Agree, Unwhitened, native, word

\* NativePlacesRead: read where make_ysfd_vd2_data_frame and the radio put them,
\* the voice channels of the radio's packet give the words the radio spoke.  With
\* VoiceIsUnharmed it leaves one thing between the words spoken and those that
\* leave for the master: the places VchOffset looks in
\* (ysf_vd2_frame_to_dmr_voice_frames, _ysf_vch_to_dmr_ambe).
THEOREM NativePlacesRead ==
    \A k \in 1 .. 5 : VchAmbe(RadioPacket, 560 + 144 * (k - 1)) = Spoken("radio", k)
  <1>. DEFINE vch == [k \in 1 .. 5 |-> Vch("radio", k)]
  <1>1. \A k \in 1 .. 5 : HasBits(vch[k], 104) /\ VchAmbe(vch[k], 0) = Spoken("radio", k)
    BY SpokenChannel
  <1>2. RadioPacket = YsfdPacket(vch)
    BY DEF RadioPacket, Vch
  <1>. HIDE DEF vch
  <1>3. ASSUME NEW k \in 1 .. 5
        PROVE  VchAmbe(RadioPacket, 560 + 144 * (k - 1)) = Spoken("radio", k)
    <2>. DEFINE native == 560 + 144 * (k - 1)
    <2>1. native \in Nat
      OBVIOUS
    <2>2. Part(RadioPacket, native, 104) = vch[k]
      BY <1>1, <1>2, PacketHasChannels
    <2>. HIDE DEF native
    <2>3. VchAmbe(RadioPacket, native) = Spoken("radio", k)
      BY <1>1, <2>1, <2>2, AmbeElsewhere
    <2>. QED
      BY <2>3 DEF native
  <1>. QED
    BY <1>3

\* A receiver of a voice payload has the chunks of its frame.
LEMMA Unharmed == LastPayload => VoiceUnharmed
  <1>. SUFFICES ASSUME LastPayload, kind = "voice", NEW k \in 1 .. 3
                PROVE  IF Channel(k) <= 5
                       THEN LET ambe == AmbeOf(ReceivedChunk(k))
                            IN  /\ ambe = VchAmbe(RadioPacket, VchOffset(Channel(k)))
                                /\ ReceivedChunk(k) = DmrChunk(ambe)
                       ELSE ReceivedChunk(k) = Silence
    BY DEF VoiceUnharmed
  <1>1. voice \in 1 .. 3
    BY DEF LastPayload
  <1>. DEFINE frame == VoiceFrames[voice]
  <1>2. Part(payload, 0, 108) = Part(frame, 0, 108) /\ Part(payload, 156, 108) = Part(frame, 156, 108)
    BY VoicePayload DEF LastPayload
  <1>3. DmrChunks(frame) = <<FrameChunk(voice, 1), FrameChunk(voice, 2), FrameChunk(voice, 3)>>
    BY <1>1, VoiceFramesHaveChunks
  <1>. HIDE DEF frame
  <1>4. Around(payload) = Around(frame)
    BY <1>2 DEF Around
  <1>5. /\ Part(Around(payload), 0, 72) = FrameChunk(voice, 1)
        /\ Part(Around(payload), 72, 72) = FrameChunk(voice, 2)
        /\ Part(Around(payload), 144, 72) = FrameChunk(voice, 3)
    BY <1>3, <1>4, ChunksAround
  <1>6. ReceivedChunk(k) = Part(Around(payload), 72 * (k - 1), 72)
    BY DEF ReceivedChunk, Around, Join
  <1>7. ReceivedChunk(k) = FrameChunk(voice, k)
    BY <1>5, <1>6
  <1>8. CASE Channel(k) <= 5
    <2>1. ReceivedChunk(k) = RadioChunk(Channel(k))
      BY <1>7, <1>8 DEF FrameChunk, Channel
    <2>2. AmbeOf(RadioChunk(Channel(k))) = RadioAmbe(Channel(k))
      BY RadioChunks
    <2>. QED
      BY <1>8, <2>1, <2>2 DEF RadioChunk, RadioAmbe
  <1>9. CASE ~(Channel(k) <= 5)
    BY <1>7, <1>9 DEF FrameChunk, Channel
  <1>. QED
    BY <1>8, <1>9

-----------------------------------------------------------------------------

\* A link control payload has its 196 bits around slot type and sync.
LEMMA ControlPayload ==
    ASSUME NEW c, NEW type, NEW lc
    PROVE  LET p == make_dmr_lc_control_payload(c, type, lc)
               raw == Bptc(FullLc(lc, type))
           IN  /\ HasBits(p, 264)
               /\ Join(Part(p, 0, 98), Part(p, 166, 98)) = raw
               /\ Part(p, 108, 48) = DataSync
  <1>. DEFINE raw == Bptc(FullLc(lc, type))
              slot == SlotType(c, type)
              x == Part(raw, 0, 98)
              y == Part(raw, 98, 98)
              s1 == Part(slot, 0, 10)
              s2 == Part(slot, 10, 10)
              sync == DataSync
              f1 == Join(x, s1)
              f2 == Join(f1, sync)
              f3 == Join(f2, s2)
              p == Join(f3, y)
  <1>1. make_dmr_lc_control_payload(c, type, lc) = p
    BY DEF make_dmr_lc_control_payload, Join
  <1>2. HasBits(x, 98) /\ HasBits(y, 98) /\ HasBits(s1, 10) /\ HasBits(s2, 10)
    BY Parted
  <1>3. HasBits(sync, 48)
    BY UnknownsHaveBits DEF DataSync
  <1>4. Join(x, y) = raw
    <2>1. HasBits(raw, 196)
      BY DEF Bptc, Bits, HasBits
    <2>. HIDE DEF raw
    <2>2. Join(x, y) = Part(raw, 0, 196)
      BY PartsJoined
    <2>. QED
      BY <2>1, <2>2, PartIsWhole
  <1>. HIDE DEF x, y, s1, s2, sync
  <1>5. HasBits(f1, 108)
    BY <1>2, JoinedBits
  <1>6. Part(f1, 0, 98) = x
    <2>1. Part(f1, 0, 98) = Part(x, 0, 98)
      BY <1>2, PartOfFirst
    <2>. QED
      BY <1>2, <2>1, PartIsWhole
  <1>. HIDE DEF f1
  <1>7. HasBits(f2, 156)
    BY <1>3, <1>5, JoinedBits
  <1>8. Part(f2, 0, 98) = Part(f1, 0, 98)
    BY <1>3, <1>5, PartOfFirst
  <1>9. Part(f2, 108, 48) = sync
    <2>1. Part(f2, 108, 48) = Part(sync, 0, 48)
      BY <1>3, <1>5, PartOfLast
    <2>. QED
      BY <1>3, <2>1, PartIsWhole
  <1>. HIDE DEF f2
  <1>10. HasBits(f3, 166)
    BY <1>2, <1>7, JoinedBits
  <1>11. Part(f3, 0, 98) = Part(f2, 0, 98)
    BY <1>2, <1>7, PartOfFirst
  <1>12. Part(f3, 108, 48) = Part(f2, 108, 48)
    BY <1>2, <1>7, PartOfFirst
  <1>. HIDE DEF f3
  <1>13. HasBits(p, 264)
    BY <1>2, <1>10, JoinedBits
  <1>14. Part(p, 0, 98) = Part(f3, 0, 98)
    BY <1>2, <1>10, PartOfFirst
  <1>15. Part(p, 108, 48) = Part(f3, 108, 48)
    BY <1>2, <1>10, PartOfFirst
  <1>16. Part(p, 166, 98) = y
    <2>1. Part(p, 166, 98) = Part(y, 0, 98)
      BY <1>2, <1>10, PartOfLast
    <2>. QED
      BY <1>2, <2>1, PartIsWhole
  <1>. HIDE DEF p
  <1>. QED
    BY <1>1, <1>4, <1>6, <1>8, <1>9, <1>11, <1>12, <1>13, <1>14, <1>15, <1>16 DEF sync

\* What a receiver sees in the middle of a voice payload tells it what to do
\* with the fragment.
LEMMA EmbeddedOf ==
    ASSUME NEW frame, NEW i \in 0 .. 5
    PROVE  LET p == make_dmr_voice_payload(frame, color, i, Lc)
           IN  Embedded(p) =
                 IF i = 1 THEN Fragment(i, Lc)
                 ELSE IF i \in 2 .. 4 /\ Len(embedded) \in 32 .. 96
                      THEN embedded \o Fragment(i, Lc)
                      ELSE embedded
  <1>. DEFINE p == make_dmr_voice_payload(frame, color, i, Lc)
              e1 == Part(p, 108, 8)
              e2 == Part(p, 148, 8)
              emb == Join(e1, e2)
              fragment == Part(p, 116, 32)
  <1>1. /\ i # 0 => /\ e1 = Part(Emb(color, Lcss(i)), 0, 8)
                    /\ fragment = Fragment(i, Lc)
                    /\ e2 = Part(Emb(color, Lcss(i)), 8, 8)
        /\ i = 0 => e1 = Part(AudioSync, 0, 8)
    BY VoicePayload
  <1>2. HasBits(e1, 8) /\ HasBits(e2, 8)
    BY Parted
  <1>3. Embedded(p) =
          CASE emb = Emb(color, 1) -> fragment
            [] emb \in {Emb(color, 2), Emb(color, 3)} /\ Len(embedded) \in 32 .. 96 ->
                  embedded \o fragment
            [] OTHER -> embedded
    BY DEF Embedded, Join
  <1>. HIDE DEF e1, e2, fragment
  <1>4. Part(emb, 0, 8) = e1
    <2>1. Part(emb, 0, 8) = Part(e1, 0, 8)
      BY <1>2, PartOfFirst
    <2>. QED
      BY <1>2, <2>1, PartIsWhole
  <1>5. i # 0 => emb = Emb(color, Lcss(i))
    <2>. DEFINE y == Emb(color, Lcss(i))
    <2>1. HasBits(y, 16)
      BY UnknownsHaveBits DEF Emb
    <2>. HIDE DEF y
    <2>2. Join(Part(y, 0, 8), Part(y, 8, 8)) = Part(y, 0, 16)
      BY PartsJoined
    <2>3. Part(y, 0, 16) = y
      BY <2>1, PartIsWhole
    <2>. QED
      BY <1>1, <2>2, <2>3 DEF y
  <1>. HIDE DEF p, emb
  <1>6. \A l, m : l # m => Emb(color, l) # Emb(color, m)
    BY Marked
  <1>7. CASE i = 0
    <2>1. \A m \in 1 .. 3 : emb # Emb(color, m)
      <3>. TAKE m \in 1 .. 3
      <3>1. Part(AudioSync, 0, 8) # Part(Emb(color, m), 0, 8)
        <4>1. 0 # m
          OBVIOUS
        <4>. QED
          BY <4>1, Marked
      <3>. QED
        BY <1>1, <1>4, <1>7, <3>1
    <2>2. emb # Emb(color, 1) /\ emb # Emb(color, 2) /\ emb # Emb(color, 3)
      BY <2>1
    <2>3. Embedded(p) = embedded
      BY <1>3, <2>2
    <2>. QED
      BY <1>7, <2>3 DEF p
  <1>8. CASE i = 1
    <2>1. emb = Emb(color, 1)
      BY <1>5, <1>8 DEF Lcss
    <2>2. emb # Emb(color, 2) /\ emb # Emb(color, 3)
      BY <1>6, <2>1
    <2>3. Embedded(p) = fragment
      BY <1>3, <2>1, <2>2
    <2>. QED
      BY <1>1, <1>8, <2>3 DEF p
  <1>9. CASE i \in 2 .. 4
    <2>1. emb \in {Emb(color, 2), Emb(color, 3)}
      BY <1>5, <1>9 DEF Lcss
    <2>2. emb # Emb(color, 1)
      BY <1>6, <2>1
    <2>3. Embedded(p) = IF Len(embedded) \in 32 .. 96 THEN embedded \o fragment ELSE embedded
      BY <1>3, <2>1, <2>2
    <2>. QED
      BY <1>1, <1>9, <2>3 DEF p
  <1>10. CASE i = 5
    <2>1. emb = Emb(color, 0)
      BY <1>5, <1>10 DEF Lcss
    <2>2. emb # Emb(color, 1) /\ emb # Emb(color, 2) /\ emb # Emb(color, 3)
      BY <1>6, <2>1
    <2>3. Embedded(p) = embedded
      BY <1>3, <2>2
    <2>. QED
      BY <1>10, <2>3 DEF p
  <1>. QED
    BY <1>7, <1>8, <1>9, <1>10

-----------------------------------------------------------------------------

LEMMA EmbeddedLcHasBits == ASSUME NEW lc PROVE HasBits(EmbeddedLc(lc), 128)
  BY DEF EmbeddedLc, Bits, HasBits

\* The fragments up to one and that one, put together.
LEMMA NextFragment ==
    ASSUME NEW i \in 2 .. 4, NEW lc
    PROVE  Part(EmbeddedLc(lc), 0, 32 * (i - 1)) \o Fragment(i, lc)
             = Part(EmbeddedLc(lc), 0, 32 * i)
  <1>. DEFINE all == EmbeddedLc(lc)
              n == 32 * (i - 1)
              m == 32 * i
  <1>1. Fragment(i, lc) = Part(all, n, 32)
    BY DEF Fragment
  <1>2. n \in Nat /\ m \in Nat /\ m = n + 32 /\ n = 0 + n
    OBVIOUS
  <1>. HIDE DEF all, n, m
  <1>3. Join(Part(all, 0, n), Part(all, n, 32)) = Part(all, 0, m)
    BY <1>2, PartsJoined
  <1>. QED
    BY <1>1, <1>3 DEF Join, all, n, m

LEMMA FragmentsHaveLength ==
    ASSUME NEW n \in Nat, NEW lc PROVE Len(Part(EmbeddedLc(lc), 0, n)) = n
  BY Parted, BitsHaveLength

\* Chunks with the words they are the voice channels of.
AreOf(c, w, n) ==
    /\ HasBits(c, n) /\ HasBits(w, n)
    /\ \A i \in 1 .. n : w[i] \in 1 .. 3 /\ c[i] = Vch("station", w[i])

Held(c, w, n) ==
    w \in Seq(1 .. 3) /\ Len(w) = n /\ c = [i \in 1 .. n |-> Vch("station", w[i])]

LEMMA HeldAre ==
    ASSUME NEW n \in Nat, NEW c, NEW w
    PROVE  AreOf(c, w, n) <=> Held(c, w, n)
  <1>1. ASSUME AreOf(c, w, n) PROVE Held(c, w, n)
    BY <1>1 DEF AreOf, HasBits, Held
  <1>2. ASSUME Held(c, w, n) PROVE AreOf(c, w, n)
    <2>1. w \in [1 .. n -> 1 .. 3] /\ c = [i \in 1 .. n |-> Vch("station", w[i])]
      BY <1>2 DEF Held
    <2>. QED
      BY <2>1 DEF AreOf, HasBits
  <1>. QED
    BY <1>1, <1>2

\* What is put behind such chunks, and what is taken off them, are such chunks.
LEMMA MoreAre ==
    ASSUME NEW n \in Nat, NEW c, NEW w, AreOf(c, w, n)
    PROVE  AreOf(c \o dmr_voice_frame_to_ysf_vch(StationFrame), w \o <<1, 2, 3>>, n + 3)
  <1>. DEFINE vch == [k \in 1 .. 3 |-> Vch("station", k)]
              new == <<1, 2, 3>>
              d == Join(c, vch)
              x == Join(w, new)
  <1>1. dmr_voice_frame_to_ysf_vch(StationFrame) = vch
    BY StationVoice DEF Vch
  <1>2. HasBits(vch, 3) /\ \A k \in 1 .. 3 : vch[k] = Vch("station", k)
    BY DEF HasBits
  <1>3. HasBits(new, 3) /\ \A k \in 1 .. 3 : new[k] = k
    BY DEF HasBits
  <1>4. HasBits(c, n) /\ HasBits(w, n)
    BY DEF AreOf
  <1>. HIDE DEF vch, new
  <1>5. /\ HasBits(d, n + 3)
        /\ \A i \in 1 .. n : d[i] = c[i]
        /\ \A i \in 1 .. 3 : d[n + i] = vch[i]
    BY <1>2, <1>4, Joined
  <1>6. /\ HasBits(x, n + 3)
        /\ \A i \in 1 .. n : x[i] = w[i]
        /\ \A i \in 1 .. 3 : x[n + i] = new[i]
    BY <1>3, <1>4, Joined
  <1>. HIDE DEF d, x
  <1>7. ASSUME NEW i \in 1 .. n + 3 PROVE x[i] \in 1 .. 3 /\ d[i] = Vch("station", x[i])
    <2>1. CASE i <= n
      BY <1>5, <1>6, <2>1 DEF AreOf
    <2>2. CASE i > n
      <3>1. i - n \in 1 .. 3 /\ n + (i - n) = i
        BY <2>2
      <3>. QED
        BY <1>2, <1>3, <1>5, <1>6, <3>1
    <2>. QED
      BY <2>1, <2>2
  <1>8. AreOf(d, x, n + 3)
    BY <1>5, <1>6, <1>7 DEF AreOf
  <1>. QED
    BY <1>1, <1>8 DEF Join, d, x, new

LEMMA PartsAre ==
    \A n, i, k \in Nat : \A c, w :
        AreOf(c, w, n) /\ i + k <= n => AreOf(Part(c, i, k), Part(w, i, k), k)
  <1>. TAKE n, i, k \in Nat
  <1>. TAKE c, w
  <1>. HAVE AreOf(c, w, n) /\ i + k <= n
  <1>. DEFINE d == Part(c, i, k)
              x == Part(w, i, k)
  <1>1. HasBits(d, k) /\ \A j \in 1 .. k : d[j] = c[i + j]
    BY Parted
  <1>2. HasBits(x, k) /\ \A j \in 1 .. k : x[j] = w[i + j]
    BY Parted
  <1>. HIDE DEF d, x
  <1>3. \A j \in 1 .. k : x[j] \in 1 .. 3 /\ d[j] = Vch("station", x[j])
    <2>. TAKE j \in 1 .. k
    <2>1. i + j \in 1 .. n
      OBVIOUS
    <2>2. w[i + j] \in 1 .. 3 /\ c[i + j] = Vch("station", w[i + j])
      BY <2>1 DEF AreOf
    <2>. QED
      BY <1>1, <1>2, <2>2
  <1>4. AreOf(d, x, k)
    BY <1>1, <1>2, <1>3 DEF AreOf
  <1>. QED
    BY <1>4 DEF d, x

-----------------------------------------------------------------------------

LEMMA InitIInv == Init => IInv
  BY DEF Init, IInv, TypeOK, LastPayload, Collected, HeldChunks, BuiltPacket

\* _send_dmrd_control keeps the invariant, whatever type it sends.
LEMMA ControlKeeps ==
    ASSUME IInv,
           \/ SendControl("header", 1)
           \/ SendControl("term", 2)
    PROVE  IInv'
  <1>1. Len(payload') = 264
    <2>1. HasBits(payload', 264)
      BY ControlPayload DEF SendControl
    <2>. QED
      BY <2>1 DEF HasBits
  <1>2. TypeOK'
    <2>1. /\ kind' \in {"header", "term"} /\ index' = 0 /\ voice' = 0 /\ Len(embedded') = 0
          /\ UNCHANGED <<color, talkgroup, chunks, ysfd, words, ysfdWords>>
      BY DEF SendControl, call, heard
    <2>. QED
      BY <1>1, <2>1 DEF IInv, TypeOK
  <1>3. LastPayload'
    <2>1. color' = color /\ Lc' = Lc
      BY DEF SendControl, call, Lc
    <2>2. \/ kind' = "header" /\ payload' = make_dmr_lc_control_payload(color, 1, Lc)
          \/ kind' = "term" /\ payload' = make_dmr_lc_control_payload(color, 2, Lc)
      BY DEF SendControl
    <2>. QED
      BY <2>1, <2>2 DEF LastPayload
  <1>4. Collected'
    BY DEF Collected, SendControl
  <1>5. HeldChunks' /\ BuiltPacket'
    BY DEF IInv, HeldChunks, BuiltPacket, SendControl, heard
  <1>. QED
    BY <1>2, <1>3, <1>4, <1>5 DEF IInv

\* _send_dmrd_voice keeps it at every place of the superframe.
LEMMA VoiceKeeps ==
    ASSUME IInv, SendVoice
    PROVE  IInv'
  <1>1. PICK v \in 1 .. 3 :
            voice' = v /\ payload' = make_dmr_voice_payload(VoiceFrames[v], color, index, Lc)
    BY VoiceFramesAre DEF SendVoice
  <1>2. index \in 0 .. 5 /\ index' = (index + 1) % 6 /\ kind' = "voice"
    BY DEF IInv, TypeOK, SendVoice, NextIndex
  <1>3. color' = color /\ Lc' = Lc
    BY DEF SendVoice, call, Lc
  <1>4. embedded' =
          IF index = 1 THEN Fragment(index, Lc)
          ELSE IF index \in 2 .. 4 /\ Len(embedded) \in 32 .. 96
               THEN embedded \o Fragment(index, Lc)
               ELSE embedded
    BY <1>1, <1>2, EmbeddedOf DEF SendVoice
  <1>. DEFINE all == EmbeddedLc(Lc)
  <1>5. index \in 2 .. 4 => embedded' = Part(all, 0, 32 * index)
    <2>. SUFFICES ASSUME index \in 2 .. 4 PROVE embedded' = Part(all, 0, 32 * index)
      OBVIOUS
    <2>1. embedded = Part(all, 0, 32 * (index - 1))
      BY DEF IInv, Collected
    <2>2. Len(embedded) = 32 * (index - 1)
      <3>1. 32 * (index - 1) \in Nat
        OBVIOUS
      <3>. QED
        BY <2>1, <3>1, FragmentsHaveLength
    <2>3. embedded' = embedded \o Fragment(index, Lc)
      BY <1>4, <2>2
    <2>. QED
      BY <2>1, <2>3, NextFragment
  <1>6. index = 1 => embedded' = Part(all, 0, 32)
    BY <1>4 DEF Fragment
  <1>7. index = 5 => embedded' = all
    <2>1. index = 5 => embedded' = Part(all, 0, 128)
      BY <1>4 DEF IInv, Collected
    <2>2. Part(all, 0, 128) = all
      BY EmbeddedLcHasBits, PartIsWhole
    <2>. QED
      BY <2>1, <2>2
  <1>8. index = 0 => embedded' = embedded
    BY <1>4
  <1>9. Len(embedded') \in {0, 32, 64, 96, 128}
    <2>1. Len(Part(all, 0, 32)) = 32 /\ Len(all) = 128
      BY EmbeddedLcHasBits, BitsHaveLength, FragmentsHaveLength, ZenonT(40)
    <2>2. index \in 2 .. 4 => Len(embedded') = 32 * index
      <3>1. index \in 2 .. 4 => 32 * index \in Nat
        OBVIOUS
      <3>. QED
        BY <1>5, <3>1, FragmentsHaveLength
    <2>3. index = 0 \/ index = 1 \/ index \in 2 .. 4 \/ index = 5
      BY <1>2
    <2>4. Len(embedded) \in {0, 32, 64, 96, 128}
      BY DEF IInv, TypeOK
    <2>5. index \in 2 .. 4 => 32 * index \in {64, 96, 128}
      OBVIOUS
    <2>. HIDE DEF all
    <2>6. CASE index = 0
      BY <1>8, <2>4, <2>6
    <2>7. CASE index = 1
      BY <1>6, <2>1, <2>7
    <2>8. CASE index \in 2 .. 4
      BY <2>2, <2>5, <2>8
    <2>9. CASE index = 5
      BY <1>7, <2>1, <2>9
    <2>. QED
      BY <2>3, <2>6, <2>7, <2>8, <2>9
  <1>. HIDE DEF all
  <1>10. TypeOK'
    <2>1. Len(payload') = 264
      <3>1. HasBits(payload', 264)
        BY <1>1, VoicePayload
      <3>. QED
        BY <3>1 DEF HasBits
    <2>. QED
      BY <1>1, <1>2, <1>9, <2>1 DEF IInv, TypeOK, SendVoice, call, heard
  <1>11. LastPayload'
    <2>1. (index' + 5) % 6 = index
      BY <1>2
    <2>2. payload' = make_dmr_voice_payload(VoiceFrames[voice'], color', (index' + 5) % 6, Lc')
      BY <1>1, <1>3, <2>1
    <2>. QED
      BY <1>1, <1>2, <2>2 DEF LastPayload
  <1>12. Collected'
    <2>1. all' = all
      BY <1>3 DEF all
    <2>2. index' \in 2 .. 5 => embedded' = Part(all, 0, 32 * (index' - 1))
      <3>. SUFFICES ASSUME index' \in 2 .. 5
                    PROVE  embedded' = Part(all, 0, 32 * (index' - 1))
        OBVIOUS
      <3>1. index \in 1 .. 4 /\ index' - 1 = index
        BY <1>2
      <3>2. CASE index = 1
        <4>1. 32 * (index' - 1) = 32
          BY <3>1, <3>2
        <4>. QED
          BY <1>6, <3>2, <4>1
      <3>3. CASE index \in 2 .. 4
        BY <1>5, <3>1, <3>3
      <3>. QED
        BY <3>1, <3>2, <3>3
    <2>3. index' = 0 => embedded' = all
      <3>1. index' = 0 => index = 5
        BY <1>2
      <3>. QED
        BY <1>7, <3>1
    <2>. QED
      BY <1>2, <1>3, <2>2, <2>3 DEF Collected, all
  <1>13. HeldChunks' /\ BuiltPacket'
    BY DEF IInv, HeldChunks, BuiltPacket, SendVoice, heard
  <1>. QED
    BY <1>10, <1>11, <1>12, <1>13 DEF IInv

\* _process_dmr_frame keeps it, with a packet and without.
LEMMA ReceiveKeeps ==
    ASSUME IInv, ReceiveVoice
    PROVE  IInv'
  <1>. DEFINE c == chunks \o dmr_voice_frame_to_ysf_vch(StationFrame)
              w == words \o <<1, 2, 3>>
              n == Len(words)
  <1>1. n \in 0 .. 4 /\ Len(chunks) = n
    BY DEF IInv, TypeOK
  <1>2. AreOf(chunks, words, n)
    BY <1>1, HeldAre DEF IInv, HeldChunks, Held, Vch
  <1>3. AreOf(c, w, n + 3)
    BY <1>1, <1>2, MoreAre
  <1>4. IF Len(c) >= 5
        THEN /\ ysfd' = YsfdPacket(SubSeq(c, 1, 5))
             /\ ysfdWords' = SubSeq(w, 1, 5)
             /\ chunks' = SubSeq(c, 6, Len(c))
             /\ words' = SubSeq(w, 6, Len(w))
        ELSE /\ chunks' = c
             /\ words' = w
             /\ UNCHANGED <<ysfd, ysfdWords>>
    BY DEF ReceiveVoice
  <1>. HIDE DEF c, w, n
  <1>5. Len(c) = n + 3 /\ Len(w) = n + 3
    BY <1>1, <1>3 DEF AreOf, HasBits
  <1>6. UNCHANGED <<color, talkgroup, index, kind, payload, voice, embedded>>
    BY DEF ReceiveVoice, call, sent
  <1>7. LastPayload' /\ Collected'
    <2>1. Lc' = Lc
      BY <1>6 DEF Lc
    <2>. QED
      BY <1>6, <2>1 DEF IInv, LastPayload, Collected
  <1>8. HeldChunks' /\ Len(words') \in 0 .. 4 /\ Len(chunks') = Len(words')
    <2>1. PICK m \in 0 .. 4 : AreOf(chunks', words', m)
      <3>1. CASE n + 3 >= 5
        <4>1. n + 3 = 5 + (n - 2) /\ n - 2 \in 0 .. 4
          BY <1>1, <3>1
        <4>2. Part(c, 5, n - 2) = SubSeq(c, 6, n + 3) /\ Part(w, 5, n - 2) = SubSeq(w, 6, n + 3)
          BY <4>1 DEF Part
        <4>3. AreOf(Part(c, 5, n - 2), Part(w, 5, n - 2), n - 2)
          BY <1>1, <1>3, <4>1, PartsAre
        <4>. QED
          BY <1>4, <1>5, <3>1, <4>1, <4>2, <4>3
      <3>2. CASE ~(n + 3 >= 5)
        <4>1. n + 3 \in 0 .. 4
          BY <1>1, <3>2
        <4>. QED
          BY <1>3, <1>4, <1>5, <3>2, <4>1
      <3>. QED
        BY <3>1, <3>2
    <2>2. Held(chunks', words', m)
      BY <2>1, HeldAre
    <2>3. Len(chunks') = m
      BY <2>1 DEF AreOf, HasBits
    <2>. QED
      BY <2>2, <2>3 DEF Held, HeldChunks, Vch
  <1>9. BuiltPacket' /\ Len(ysfd') \in {0, 1240}
    <2>1. CASE n + 3 >= 5
      <3>. DEFINE d == Part(c, 0, 5)
                  x == Part(w, 0, 5)
      <3>1. d = SubSeq(c, 1, 5) /\ x = SubSeq(w, 1, 5)
        BY DEF Part
      <3>2. AreOf(d, x, 5)
        BY <1>1, <1>3, <2>1, PartsAre
      <3>3. ysfd' = YsfdPacket(d) /\ ysfdWords' = x
        BY <1>4, <1>5, <2>1, <3>1
      <3>. HIDE DEF d, x
      <3>4. x \in [1 .. 5 -> 1 .. 3] /\ d = [k \in 1 .. 5 |-> Vch("station", x[k])]
        BY <3>2 DEF AreOf, HasBits
      <3>5. Len(ysfd') = 1240
        <4>1. \A k \in 1 .. 5 : HasBits(d[k], 104)
          BY <3>4, SpokenChannel
        <4>2. HasBits(ysfd', 1240)
          BY <3>3, <4>1, PacketHasChannels
        <4>. QED
          <5>. DEFINE size == 1240
          <5>1. size \in Nat /\ HasBits(ysfd', size)
            BY <4>2
          <5>. HIDE DEF size
          <5>2. Len(ysfd') = size
            BY <5>1, BitsHaveLength
          <5>. QED
            BY <5>2 DEF size
      <3>. QED
        BY <3>3, <3>4, <3>5 DEF BuiltPacket, Vch
    <2>2. CASE ~(n + 3 >= 5)
      BY <1>4, <1>5, <2>2 DEF IInv, BuiltPacket, TypeOK
    <2>. QED
      BY <2>1, <2>2
  <1>10. TypeOK'
    BY <1>6, <1>8, <1>9 DEF IInv, TypeOK
  <1>. QED
    BY <1>7, <1>8, <1>9, <1>10 DEF IInv

\* Every step keeps the invariant.
LEMMA NextIInv == IInv /\ [Next]_vars => IInv'
  <1>. SUFFICES ASSUME IInv, [Next]_vars PROVE IInv'
    OBVIOUS
  <1>1. CASE SendControl("header", 1) \/ SendControl("term", 2)
    BY <1>1, ControlKeeps
  <1>2. CASE SendVoice
    BY <1>2, VoiceKeeps
  <1>3. CASE ReceiveVoice
    BY <1>3, ReceiveKeeps
  <1>4. CASE UNCHANGED vars
    <2>1. Lc' = Lc
      BY <1>4 DEF vars, call, Lc
    <2>. QED
      BY <1>4, <2>1
         DEF IInv, TypeOK, LastPayload, Collected, HeldChunks, BuiltPacket, vars, call, sent, heard
  <1>. QED
    BY <1>1, <1>2, <1>3, <1>4 DEF Next

-----------------------------------------------------------------------------

LEMMA LcHasBits == HasBits(Lc, 72)
  <1>. DEFINE x == Zeros(24)
              y == Unknowns("lc", talkgroup, 48)
  <1>1. HasBits(x, 24) /\ HasBits(y, 48)
    BY UnknownsHaveBits, ZerosHaveBits
  <1>2. Lc = Join(x, y)
    BY DEF Lc, LinkControl, Join
  <1>. HIDE DEF x, y
  <1>3. HasBits(Join(x, y), 72)
    BY <1>1, JoinedBits
  <1>. QED
    BY <1>2, <1>3

LEMMA CheckedIsWord ==
    ASSUME NEW n \in Nat, NEW m \in Nat, NEW masks, AreMasks(masks, n, m),
           NEW word, Checked(word, masks, n, m)
    PROVE  IsWord(word, masks)
  <1>1. Len(word) = n + m /\ Len(masks) = m
    <2>1. HasBits(word, n + m)
      BY DEF Checked
    <2>. QED
      BY <2>1 DEF HasBits, AreMasks
  <1>2. SubSeq(word, 1, Len(word) - Len(masks)) = Part(word, 0, n)
    BY <1>1 DEF Part
  <1>. QED
    BY <1>2, CheckedIsEncoded DEF IsWord

\* A receiver that has the embedded link control has the link control of the
\* call.
LEMMA Recovered == ASSUME IInv PROVE LcRecovered
  <1>. SUFFICES ASSUME kind = "voice", index \in {5, 0}
                PROVE  LET row == [r \in 0 .. 7 |-> Bits(16, LAMBDA c : embedded[8 * c + r + 1])]
                           long == Part(row[0], 0, 11) \o Part(row[1], 0, 11)
                           short == FlattenSeq([r \in 1 .. 5 |-> Part(row[r + 1], 0, 10)])
                       IN  /\ Len(embedded) = 128
                           /\ \A r \in 0 .. 7 : IsWord(row[r], Hamming16114)
                           /\ \A c \in 0 .. 15 : Sum(embedded, {8 * c + r : r \in 0 .. 7}) = Zero
                           /\ long \o short = Lc
                           /\ Bits(5, LAMBDA i : row[6 - i][11]) = FiveBitSum(Lc)
    BY DEF LcRecovered
  <1>. DEFINE row == [r \in 0 .. 7 |-> Bits(16, LAMBDA c : embedded[8 * c + r + 1])]
              x == Part(row[0], 0, 11)
              y == Part(row[1], 0, 11)
              shorts == [r \in 1 .. 5 |-> Part(row[r + 1], 0, 10)]
              sum == FiveBitSum(Lc)
              lc == Lc
  <1>1. embedded = EmbeddedLc(lc)
    <2>1. index = 5 => embedded = Part(EmbeddedLc(lc), 0, 128)
      BY DEF IInv, Collected
    <2>2. Part(EmbeddedLc(lc), 0, 128) = EmbeddedLc(lc)
      BY EmbeddedLcHasBits, PartIsWhole
    <2>. QED
      BY <2>1, <2>2 DEF IInv, Collected
  <1>2. Len(embedded) = 128
    BY <1>1, EmbeddedLcHasBits DEF HasBits
  <1>3. \A r \in 0 .. 7 : row[r] = EmbeddedRow(embedded, r)
    BY DEF EmbeddedRow
  <1>. HIDE DEF row, lc
  <1>4. /\ \A r \in 0 .. 7 : Checked(row[r], Hamming16114, 11, 5)
        /\ \A r \in 0 .. 6 : Part(row[r], 0, 11) = RowData(lc, r)
        /\ \A c \in 0 .. 15 : Sum(embedded, {8 * c + r : r \in 0 .. 7}) = Zero
    BY <1>1, <1>3, EmbeddedReadsBack
  <1>5. \A r \in 0 .. 7 : IsWord(row[r], Hamming16114)
    BY <1>4, HammingMasks, CheckedIsWord
  <1>6. x = Part(lc, 0, 11) /\ y = Part(lc, 11, 11)
    BY <1>4 DEF RowData
  <1>7. \A r \in 2 .. 6 : /\ Part(row[r], 0, 10) = Part(lc, 22 + 10 * (r - 2), 10)
                          /\ row[r][11] = sum[7 - r]
    <2>. TAKE r \in 2 .. 6
    <2>. DEFINE word == row[r]
                data == RowData(lc, r)
    <2>1. Part(word, 0, 11) = data
      BY <1>4
    <2>2. /\ Part(data, 0, 10) = Part(lc, 22 + 10 * (r - 2), 10)
          /\ data[11] = sum[7 - r]
      BY RowDataHasBits DEF lc
    <2>. HIDE DEF word, data
    <2>3. Part(Part(word, 0, 11), 0, 10) = Part(word, 0, 10)
      BY PartOfPart
    <2>4. \A c \in 1 .. 11 : Part(word, 0, 11)[c] = word[0 + c]
      BY Parted
    <2>5. data[11] = word[11]
      BY <2>1, <2>4
    <2>. QED
      BY <2>1, <2>2, <2>3, <2>5 DEF word
  <1>8. FlattenSeq(shorts) = Part(lc, 22, 50)
    <2>1. AreParts(shorts, 5, 10, lc, 22)
      <3>1. \A r \in 1 .. 5 : shorts[r] = Part(lc, 22 + 10 * (r - 1), 10)
        <4>. TAKE r \in 1 .. 5
        <4>1. r + 1 \in 2 .. 6 /\ (r + 1) - 2 = r - 1
          OBVIOUS
        <4>2. Part(row[r + 1], 0, 10) = Part(lc, 22 + 10 * ((r + 1) - 2), 10)
          BY <1>7, <4>1
        <4>. QED
          BY <4>1, <4>2
      <3>2. HasBits(shorts, 5)
        BY DEF HasBits
      <3>. HIDE DEF shorts
      <3>. QED
        BY <3>1, <3>2 DEF AreParts
    <2>2. Tiled(10, 5)
      <3>1. \A i \in 1 .. 50 : i = 10 * ((((i - 1) \div 10) + 1) - 1) + (((i - 1) % 10) + 1)
        OBVIOUS
      <3>2. \A i \in 1 .. 50 : ((i - 1) \div 10) + 1 \in 1 .. 5 /\ ((i - 1) % 10) + 1 \in 1 .. 10
        OBVIOUS
      <3>. QED
        BY <3>1, <3>2 DEF Tiled
    <2>. HIDE DEF shorts
    <2>3. FlattenSeq(shorts) = Part(lc, 22, 10 * 5)
      BY <2>1, <2>2, PartsFlattened
    <2>. QED
      BY <2>3
  <1>9. (x \o y) \o FlattenSeq(shorts) = lc
    <2>1. Join(Part(lc, 0, 11), Part(lc, 11, 11)) = Part(lc, 0, 22)
      BY PartsJoined
    <2>2. Join(Part(lc, 0, 22), Part(lc, 22, 50)) = Part(lc, 0, 72)
      BY PartsJoined
    <2>3. Part(lc, 0, 72) = lc
      BY LcHasBits, PartIsWhole DEF lc
    <2>. QED
      BY <1>6, <1>8, <2>1, <2>2, <2>3 DEF Join
  <1>10. Bits(5, LAMBDA i : row[6 - i][11]) = sum
    <2>1. \A i \in 1 .. 5 : row[6 - (i - 1)][11] = sum[i]
      <3>. TAKE i \in 1 .. 5
      <3>1. 6 - (i - 1) \in 2 .. 6 /\ 7 - (6 - (i - 1)) = i
        OBVIOUS
      <3>2. row[6 - (i - 1)][11] = sum[7 - (6 - (i - 1))]
        BY <1>7, <3>1
      <3>. QED
        BY <3>1, <3>2
    <2>2. HasBits(sum, 5)
      BY UnknownsHaveBits DEF FiveBitSum
    <2>. HIDE DEF sum
    <2>. QED
      BY <2>1, <2>2 DEF Bits, HasBits
  <1>. QED
    BY <1>2, <1>4, <1>5, <1>9, <1>10 DEF row, lc, x, y, shorts, sum

LEMMA RsHasBits == ASSUME NEW lc PROVE HasBits(Rs129(lc), 24)
  <1>1. 9 \in 0 .. 9
    OBVIOUS
  <1>. QED
    BY <1>1, RegistersAre

LEMMA SyndromeIs ==
    ASSUME NEW root \in 1 .. 3, NEW lc, NEW word, HasLinkControl(word, lc)
    PROVE  Syndrome(word, root) = Zeros(8)
  <1>. DEFINE terms == [i \in 1 .. 12 |->
                           GfMul(Power[root * (12 - i)], Part(word, 8 * (i - 1), 8))]
  <1>1. terms = Terms(word, root)
    <2>1. Power = Alpha
      BY DEF Power, Alpha, Doubled
    <2>. QED
      BY <2>1 DEF Terms, Times
  <1>2. \A j \in 0 .. 7 : {8 * i + j : i \in 0 .. 11} = Stripe(12, j)
    <2>1. 12 - 1 = 11
      OBVIOUS
    <2>. QED
      BY <2>1 DEF Stripe
  <1>3. Syndrome(word, root) = [b \in 1 .. 8 |->
            Sum(FlattenSeq(terms), {8 * i + (b - 1) : i \in 0 .. 11})]
    BY DEF Syndrome, Bits
  <1>. HIDE DEF terms
  <1>4. ASSUME NEW b \in 1 .. 8
        PROVE  Sum(FlattenSeq(terms), {8 * i + (b - 1) : i \in 0 .. 11}) = Zero
    <2>1. b - 1 \in 0 .. 7
      OBVIOUS
    <2>. DEFINE j == b - 1
    <2>. HIDE DEF j
    <2>2. {8 * i + j : i \in 0 .. 11} = Stripe(12, j)
      BY <1>2, <2>1 DEF j
    <2>3. Sum(FlattenSeq(Terms(word, root)), Stripe(12, j)) = Zero
      BY <2>1, ParityReadsBack DEF j
    <2>4. Sum(FlattenSeq(terms), {8 * i + j : i \in 0 .. 11}) = Zero
      BY <1>1, <2>2, <2>3
    <2>. QED
      BY <2>4 DEF j
  <1>5. Zeros(8) = [b \in 1 .. 8 |-> Zero]
    BY DEF Zeros, Bits
  <1>. QED
    BY <1>3, <1>4, <1>5

\* The parts of a full link control, and its word with the mask off.
LEMMA FullLcIs ==
    ASSUME NEW lc, HasBits(lc, 72), NEW type
    PROVE  LET full == FullLc(lc, type)
           IN  /\ HasBits(full, 96)
               /\ Part(full, 0, 72) = lc
               /\ Added(Part(full, 72, 24), CrcMask(type)) = Rs129(lc)
  <1>. DEFINE full == FullLc(lc, type)
              mask == CrcMask(type)
              rs == Rs129(lc)
              masked == Added(rs, mask)
              back == Added(masked, mask)
  <1>1. full = Join(lc, masked)
    BY DEF FullLc, Join
  <1>. HIDE DEF full
  <1>2. HasBits(rs, 24)
    BY RsHasBits
  <1>. HIDE DEF rs, mask
  <1>3. HasBits(masked, 24) /\ \A i \in 1 .. 24 : masked[i] = Xor(rs[i], mask[i])
    BY <1>2, AddedHasBits
  <1>. HIDE DEF masked
  <1>4. HasBits(back, 24) /\ \A i \in 1 .. 24 : back[i] = Xor(masked[i], mask[i])
    BY <1>3, AddedHasBits
  <1>. HIDE DEF back
  <1>5. \A i \in 1 .. 24 : back[i] = rs[i]
    BY <1>3, <1>4, XorTwice
  <1>6. back = rs
    BY <1>2, <1>4, <1>5, SameWords
  <1>. HasBits(masked, 24)
    BY <1>3
  <1>7. HasBits(full, 96)
    <2>1. HasBits(Join(lc, masked), 72 + 24)
      BY <1>3, JoinedBits
    <2>. QED
      BY <1>1, <2>1
  <1>8. Part(full, 0, 72) = lc
    <2>1. Part(Join(lc, masked), 0, 72) = Part(lc, 0, 72)
      BY PartOfFirst, 0 + 72 <= 72
    <2>2. Part(lc, 0, 72) = lc
      BY PartIsWhole
    <2>. QED
      BY <1>1, <2>1, <2>2
  <1>9. Part(full, 72, 24) = masked
    <2>1. Part(Join(lc, masked), 72, 24) = Part(masked, 0, 24)
      BY PartOfLast, 0 + 24 <= 24, 72 = 72 + 0
    <2>2. Part(masked, 0, 24) = masked
      BY <1>3, PartIsWhole
    <2>. QED
      BY <1>1, <2>1, <2>2
  <1>. QED
    BY <1>6, <1>7, <1>8, <1>9 DEF full, rs, back, mask

LEMMA WordHasLinkControl ==
    ASSUME NEW lc, HasBits(lc, 72)
    PROVE  HasLinkControl(Join(lc, Rs129(lc)), lc)
  <1>. DEFINE rs == Rs129(lc)
              word == Join(lc, rs)
  <1>1. HasBits(rs, 24)
    BY RsHasBits
  <1>. HIDE DEF rs
  <1>2. \A n \in 0 .. 8 : Part(word, 8 * n, 8) = Part(lc, 8 * n, 8)
    <2>. TAKE n \in 0 .. 8
    <2>. DEFINE at == 8 * n
    <2>1. at \in Nat /\ at + 8 <= 72
      OBVIOUS
    <2>. HIDE DEF at
    <2>2. Part(word, at, 8) = Part(lc, at, 8)
      BY <1>1, <2>1, PartOfFirst
    <2>. QED
      BY <2>2 DEF at
  <1>3. Part(word, 72, 24) = rs
    <2>1. Part(word, 72, 24) = Part(rs, 0, 24)
      BY <1>1, PartOfLast
    <2>. QED
      BY <1>1, <2>1, PartIsWhole
  <1>. QED
    BY <1>2, <1>3 DEF HasLinkControl, rs

\* A receiver of the 196 bits has what was encoded.
LEMMA RowsHaveData ==
    ASSUME NEW full, HasBits(full, 96), NEW row,
           \A r \in 0 .. 8 : Part(row[r], 0, 11) = BptcData(full, r)
    PROVE  Part(row[0], 3, 8) \o FlattenSeq([r \in 1 .. 8 |-> Part(row[r], 0, 11)]) = full
  <1>. DEFINE rows == [r \in 1 .. 8 |-> Part(row[r], 0, 11)]
              first == Part(row[0], 3, 8)
  <1>1. first = Part(full, 0, 8)
    <2>1. Part(Part(row[0], 0, 11), 3, 8) = first
      BY PartOfPart
    <2>2. Part(row[0], 0, 11) = BptcData(full, 0)
      OBVIOUS
    <2>3. Part(BptcData(full, 0), 3, 8) = Part(full, 0, 8)
      BY 0 \in 0 .. 8, BptcDataHasBits
    <2>. QED
      BY <2>1, <2>2, <2>3
  <1>. HIDE DEF first
  <1>2. AreParts(rows, 8, 11, full, 8)
    <2>1. ASSUME NEW r \in 1 .. 8 PROVE rows[r] = Part(full, 8 + 11 * (r - 1), 11)
      <3>1. r \in 0 .. 8 /\ r # 0
        OBVIOUS
      <3>2. Part(row[r], 0, 11) = BptcData(full, r)
        BY <3>1
      <3>. QED
        BY <3>1, <3>2 DEF BptcData
    <2>2. HasBits(rows, 8)
      BY DEF HasBits
    <2>. HIDE DEF rows
    <2>. QED
      BY <2>1, <2>2 DEF AreParts
  <1>3. Tiled(11, 8)
    <2>1. \A i \in 1 .. 88 : i = 11 * ((((i - 1) \div 11) + 1) - 1) + (((i - 1) % 11) + 1)
      OBVIOUS
    <2>2. \A i \in 1 .. 88 : ((i - 1) \div 11) + 1 \in 1 .. 8 /\ ((i - 1) % 11) + 1 \in 1 .. 11
      OBVIOUS
    <2>. QED
      BY <2>1, <2>2 DEF Tiled
  <1>. HIDE DEF rows
  <1>4. FlattenSeq(rows) = Part(full, 8, 88)
    <2>1. FlattenSeq(rows) = Part(full, 8, 11 * 8)
      BY <1>2, <1>3, PartsFlattened
    <2>. QED
      BY <2>1
  <1>5. Join(Part(full, 0, 8), Part(full, 8, 88)) = Part(full, 0, 96)
    BY PartsJoined
  <1>6. Part(full, 0, 96) = full
    BY PartIsWhole
  <1>7. first \o FlattenSeq(rows) = full
    BY <1>1, <1>4, <1>5, <1>6 DEF Join
  <1>. QED
    BY <1>7 DEF first, rows

LEMMA Readable == ASSUME IInv PROVE LcReadable
  <1>. DEFINE raw == Part(payload, 0, 98) \o Part(payload, 166, 98)
              cell(r, c) == raw[(((15 * r + c + 1) * 181) % 196) + 1]
              row == [r \in 0 .. 12 |-> Bits(15, LAMBDA c : cell(r, c))]
              column(c) == Bits(13, LAMBDA r : row[r][c + 1])
              data == Part(row[0], 3, 8)
                        \o FlattenSeq([r \in 1 .. 8 |-> Part(row[r], 0, 11)])
              type == IF kind = "header" THEN 1 ELSE 2
              mask == CrcMask(type)
              word == Part(data, 0, 72) \o Added(Part(data, 72, 24), mask)
  <1>. SUFFICES ASSUME kind \in {"header", "term"}
                PROVE  /\ \A r \in 0 .. 12 : IsWord(row[r], Hamming15113)
                       /\ \A c \in 0 .. 14 : IsWord(column(c), Hamming1393)
                       /\ Part(data, 0, 72) = Lc
                       /\ \A root \in 1 .. 3 : Syndrome(word, root) = Zeros(8)
                       /\ Part(payload, 108, 48) = DataSync
    BY DEF LcReadable
  <1>. DEFINE lc == Lc
              full == FullLc(lc, type)
  <1>1. payload = make_dmr_lc_control_payload(color, type, lc)
    BY DEF IInv, LastPayload
  <1>. HIDE DEF type, lc
  <1>. DEFINE first == Part(payload, 0, 98)
              last == Part(payload, 166, 98)
              joined == Join(first, last)
  <1>2. joined = Bptc(full) /\ Part(payload, 108, 48) = DataSync
    BY <1>1, ControlPayload
  <1>. HIDE DEF full
  <1>. raw = Bptc(full)
    <2>1. raw = joined
      BY DEF Join
    <2>. QED
      BY <1>2, <2>1
  <1>. HIDE DEF raw
  <1>3. \A r \in 0 .. 12 : row[r] = BptcRow(raw, r)
    BY DEF BptcRow, BptcCell
  <1>4. \A c \in 0 .. 14 : column(c) = BptcColumn(raw, c)
    <2>. TAKE c \in 0 .. 14
    <2>1. \A r \in 0 .. 12 : row[r][c + 1] = BptcCell(raw, r, c)
      <3>. TAKE r \in 0 .. 12
      <3>1. c + 1 \in 1 .. 15 /\ (c + 1) - 1 = c
        OBVIOUS
      <3>2. row[r][c + 1] = BptcCell(raw, r, (c + 1) - 1)
        BY <3>1 DEF Bits, BptcCell
      <3>. QED
        BY <3>1, <3>2
    <2>. HIDE DEF row
    <2>2. \A i \in 1 .. 13 : row[i - 1][c + 1] = BptcCell(raw, i - 1, c)
      BY <2>1
    <2>. QED
      BY <2>2 DEF BptcColumn, Bits
  <1>. HIDE DEF row, column
  <1>5. /\ \A r \in 0 .. 12 : Checked(row[r], Hamming15113, 11, 4)
        /\ \A c \in 0 .. 14 : Checked(column(c), Hamming1393, 9, 4)
        /\ \A r \in 0 .. 8 : Part(row[r], 0, 11) = BptcData(full, r)
    BY <1>3, <1>4, BptcReadsBack
  <1>6. HasBits(lc, 72)
    BY LcHasBits DEF lc
  <1>7. /\ HasBits(full, 96)
        /\ Part(full, 0, 72) = lc
        /\ Added(Part(full, 72, 24), mask) = Rs129(lc)
    BY <1>6, FullLcIs DEF full
  <1>. HIDE DEF mask
  <1>8. data = full
    BY <1>5, <1>7, RowsHaveData
  <1>. HIDE DEF data
  <1>9. word = Join(lc, Rs129(lc))
    BY <1>7, <1>8 DEF Join
  <1>. HIDE DEF word
  <1>10. \A root \in 1 .. 3 : Syndrome(word, root) = Zeros(8)
    BY <1>6, <1>9, WordHasLinkControl, SyndromeIs
  <1>11. \A r \in 0 .. 12 : IsWord(row[r], Hamming15113)
    BY <1>5, HammingMasks, CheckedIsWord
  <1>12. \A c \in 0 .. 14 : IsWord(column(c), Hamming1393)
    BY <1>5, HammingMasks, CheckedIsWord
  <1>. QED
    BY <1>2, <1>7, <1>8, <1>10, <1>11, <1>12 DEF lc

-----------------------------------------------------------------------------

\* Invariance: in every state the last payload and the last packet carry what was
\* put into them, and a receiver of a superframe has its link control up to where
\* it stands (_send_dmrd_voice, _send_dmrd_control, _flush_vch_chunks).
THEOREM Invariance == Spec => []IInv
  BY InitIInv, NextIInv, PTL DEF Spec

\* TypeCorrect: the variables have their types, the words their lengths.
THEOREM TypeCorrect == Spec => []TypeOK
  <1>1. IInv => TypeOK
    BY DEF IInv
  <1>. QED
    BY <1>1, Invariance, PTL

\* VoiceIsUnharmed: whatever the colour code, the talkgroup and the place in the
\* superframe, a voice payload has three chunks of what was read from the radio's
\* packet, or silence (make_dmr_voice_payload, PackDmrVoiceChunks).
THEOREM VoiceIsUnharmed == Spec => []VoiceUnharmed
  <1>1. IInv => VoiceUnharmed
    BY Unharmed DEF IInv
  <1>. QED
    BY <1>1, Invariance, PTL

\* VoiceIsReturned: however frames of stations and packets of the radio take
\* turns, a packet built for the radio has the words of five chunks, in the order
\* they came (dmr_voice_frame_to_ysf_vch, make_ysfd_vd2_data_frame).
THEOREM VoiceIsReturned == Spec => []VoiceReturned
  <1>1. IInv => VoiceReturned
    BY Returned DEF IInv
  <1>. QED
    BY <1>1, Invariance, PTL

\* LcIsRecovered: behind its fourth fragment a superframe has given a receiver the
\* link control of the call, for every talkgroup and colour code
\* (_add_dmr_embedded_lc, _dmr_embedded_lc_raw).
THEOREM LcIsRecovered == Spec => []LcRecovered
  <1>1. IInv => LcRecovered
    BY Recovered
  <1>. QED
    BY <1>1, Invariance, PTL

\* LcIsReadable: headers and terminators are words of the product code, and the
\* full link control in them is a word of Reed-Solomon (12, 9)
\* (make_dmr_lc_control_payload, _bptc19696_encode, _rs129_encode).
THEOREM LcIsReadable == Spec => []LcReadable
  <1>1. IInv => LcReadable
    BY Readable
  <1>. QED
    BY <1>1, Invariance, PTL

=============================================================================
