-------------------------------- MODULE Bridge --------------------------------
(***************************************************************************)
(* Voice on its way through the DMR master transport, bit by bit.  A YSF   *)
(* packet of the radio becomes two voice frames (forward_ysf_payload),     *)
(* which leave with sync or embedded signalling in their middle, between   *)
(* link control headers and terminators (_send_dmrd_voice,                 *)
(* _send_dmrd_control).  What DMR stations send becomes YSF packets        *)
(* (_process_dmr_frame, _flush_vch_chunks).                                *)
(*                                                                         *)
(* Which packet leaves when is DmrTransmit's and which comes when is       *)
(* DmrReceive's; here only the bits matter, and a call is in order: begun  *)
(* on an empty queue and short enough that its sequence number, one byte,  *)
(* does not wrap.  What happens to the positions in the superframe when it *)
(* is not, DmrTransmit's InStep says.                                      *)
(***************************************************************************)
EXTENDS ModeConv

CONSTANTS
    Color,       \* what config.color_code may be
    Talkgroup

VARIABLES
    color,       \* config.color_code
    talkgroup,   \* of the call
    index,       \* voice index of the next voice packet
    kind,        \* of the last packet that left
    payload,     \* its 264 bits
    chunks,      \* _vch_chunks
    ysfd         \* the last YSFD packet built from them

\* History: the voice in the last packet, as an index of VoiceFrames, the words
\* of chunks and ysfd, and the embedded link control as a DMR receiver has put
\* it together.
VARIABLES
    voice, words, ysfdWords, embedded

call  == <<color, talkgroup>>
sent  == <<index, kind, payload, voice, embedded>>
heard == <<chunks, ysfd, words, ysfdWords>>
vars  == <<call, sent, heard>>

Lc == LinkControl(talkgroup)

\* make_ysfd_vd2_data_frame: behind 35 bytes of header and 30 of sync and FICH
\* five times 18 bytes, of which the last 13 are a voice channel.
YsfdPacket(vch) ==
    Unknowns("ysfd", "head", 520)
        \o FlattenSeq([k \in 1 .. 5 |-> Unknowns("ysfd", k, 40) \o vch[k]])

\* A frame of an AMBE vocoder: number k of the speaker.
Spoken(who, k) ==
    [a |-> Unknowns(who, <<"a", k>>, 12), b |-> Unknowns(who, <<"b", k>>, 12),
     c |-> Unknowns(who, <<"c", k>>, 25)]

RadioPacket == YsfdPacket([k \in 1 .. 5 |-> YsfVch(Spoken("radio", k))])

\* The voice of packets that may leave: the halves of a packet of the radio, and
\* the silence that fills a superframe.
VoiceFrames ==
    Append(ysf_vd2_frame_to_dmr_voice_frames(RadioPacket),
           PackDmrVoiceChunks(<<Silence, Silence, Silence>>))

\* A frame of another station: 216 bits of voice, in their middle 48 more.
StationFrame ==
    LET all == FlattenSeq([k \in 1 .. 3 |-> DmrChunk(Spoken("station", k))])
    IN  Part(all, 0, 108) \o Unknowns("station", "middle", 48) \o Part(all, 108, 108)

TypeOK ==
    /\ color \in Color
    /\ talkgroup \in Talkgroup
    /\ index \in 0 .. 5
    /\ kind \in {"none", "header", "voice", "term"}
    /\ Len(payload) \in {0, 264}
    /\ voice \in 0 .. 3
    /\ Len(embedded) \in {0, 32, 64, 96, 128}
    /\ Len(chunks) \in 0 .. 4
    /\ Len(words) = Len(chunks)
    /\ Len(ysfd) \in {0, 1240}

Init ==
    /\ color \in Color
    /\ talkgroup \in Talkgroup
    /\ index = 0
    /\ kind = "none"
    /\ payload = <<>>
    /\ voice = 0
    /\ embedded = <<>>
    /\ chunks = <<>>
    /\ ysfd = <<>>
    /\ words = <<>>
    /\ ysfdWords = <<>>

\* _send_dmrd_control: a call begins and ends with its link control.
SendControl(newKind, type) ==
    /\ kind' = newKind
    /\ payload' = make_dmr_lc_control_payload(color, type, Lc)
    /\ index' = 0
    /\ voice' = 0
    /\ embedded' = <<>>
    /\ UNCHANGED <<call, heard>>

\* What a DMR receiver makes of a voice frame: the first fragment begins a link
\* control, others continue it.
Embedded(frame) ==
    LET emb == Part(frame, 108, 8) \o Part(frame, 148, 8)
        fragment == Part(frame, 116, 32)
    IN  CASE emb = Emb(color, 1) -> fragment
          [] emb \in {Emb(color, 2), Emb(color, 3)} /\ Len(embedded) \in 32 .. 96 ->
                embedded \o fragment
          [] OTHER -> embedded

\* A wrong NextIndex: superframes do not end.
NextIndexUnwrapped(i) == i + 1

\* The sequence number less the three headers, modulo six.  The code takes it
\* from a number of one byte, which a header sets back to 0: where that wraps,
\* or where it is set back while packets of the call before still wait, the
\* positions jump.  A call in order has neither, see DmrTransmit's tidy.
NextIndex(i) == (i + 1) % 6

\* _send_dmrd_voice, of a queued frame.
SendVoice ==
    /\ kind # "none"
    /\ \E v \in DOMAIN VoiceFrames :
        /\ voice' = v
        /\ payload' = make_dmr_voice_payload(VoiceFrames[v], color, index, Lc)
    /\ kind' = "voice"
    /\ index' = NextIndex(index)
    /\ embedded' = Embedded(payload')
    /\ UNCHANGED <<call, heard>>

\* A frame of another station: _process_dmr_frame, and _flush_vch_chunks as
\* soon as there are five chunks.
ReceiveVoice ==
    /\ LET allChunks == chunks \o dmr_voice_frame_to_ysf_vch(StationFrame)
           allWords  == words \o <<1, 2, 3>>
       IN  IF Len(allChunks) >= 5
           THEN /\ ysfd' = YsfdPacket(SubSeq(allChunks, 1, 5))
                /\ ysfdWords' = SubSeq(allWords, 1, 5)
                /\ chunks' = SubSeq(allChunks, 6, Len(allChunks))
                /\ words' = SubSeq(allWords, 6, Len(allWords))
           ELSE /\ chunks' = allChunks
                /\ words' = allWords
                /\ UNCHANGED <<ysfd, ysfdWords>>
    /\ UNCHANGED <<call, sent>>

Next ==
    \/ SendControl("header", 1)
    \/ SendControl("term", 2)
    \/ SendVoice
    \/ ReceiveVoice

Spec == Init /\ [][Next]_vars

-----------------------------------------------------------------------------

(***************************************************************************)
(* Properties                                                              *)
(***************************************************************************)

\* VoiceUnharmed: whatever is put around and into a voice frame, a receiver that
\* skips its middle finds three chunks, code words of what was read from the
\* radio's packet, and silence where it had no more
\* (ysf_vd2_frame_to_dmr_voice_frames, make_dmr_voice_payload).
ReceivedChunk(k) ==
    Part(Part(payload, 0, 108) \o Part(payload, 156, 108), 72 * (k - 1), 72)

\* Number of the radio's voice channel in chunk k of the last packet.
Channel(k) == 3 * (voice - 1) + k

VoiceUnharmed ==
    kind = "voice" =>
        \A k \in 1 .. 3 :
            IF Channel(k) <= 5
            THEN LET ambe == AmbeOf(ReceivedChunk(k))
                 IN  /\ ambe = VchAmbe(RadioPacket, VchOffset(Channel(k)))
                     /\ ReceivedChunk(k) = DmrChunk(ambe)
            ELSE ReceivedChunk(k) = Silence

\* VoiceArrives: the words the radio spoke are those that leave for the master.
\* Does not hold: the voice channels are looked for twenty bytes before the
\* place make_ysfd_vd2_data_frame, and the radio, have them in.
VoiceArrives ==
    kind = "voice" =>
        \A k \in 1 .. 3 :
            Channel(k) <= 5 => AmbeOf(ReceivedChunk(k)) = Spoken("radio", Channel(k))

\* VoiceReturned: a packet built for the radio has the words of five chunks, in
\* the order they came and in their native places, and all three copies of the
\* important bits agree (dmr_voice_frame_to_ysf_vch, make_ysfd_vd2_data_frame).
VoiceReturned ==
    ysfd # <<>> =>
        \A k \in 1 .. 5 :
            LET native == 560 + 144 * (k - 1)
                vch == Bits(104, LAMBDA i : Xor(ysfd[native + VchTable(i) + 1], White(i)))
            IN  /\ VchAmbe(ysfd, native) = Spoken("station", ysfdWords[k])
                /\ \A i \in 1 .. 27 : vch[3 * i - 2] = vch[3 * i] /\ vch[3 * i - 1] = vch[3 * i]

\* A word of a code: its last bits are the check bits of the first.
IsWord(word, masks) ==
    word = Encoded(SubSeq(word, 1, Len(word) - Len(masks)), masks)

\* LcRecovered: behind the fourth fragment of a superframe a receiver has eight
\* rows, all of them words of the Hamming code, columns of even parity, and in
\* them the link control of the call and its check sum (_add_dmr_embedded_lc).
\* For a call in order: in the superframe in which the code's number wraps, or
\* is set back by a header, fragments are skipped and the word is not complete.
LcRecovered ==
    kind = "voice" /\ index \in {5, 0} =>
        LET row == [r \in 0 .. 7 |-> Bits(16, LAMBDA c : embedded[8 * c + r + 1])]
            long == Part(row[0], 0, 11) \o Part(row[1], 0, 11)
            short == FlattenSeq([r \in 1 .. 5 |-> Part(row[r + 1], 0, 10)])
        IN  /\ Len(embedded) = 128
            /\ \A r \in 0 .. 7 : IsWord(row[r], Hamming16114)
            /\ \A c \in 0 .. 15 : Sum(embedded, {8 * c + r : r \in 0 .. 7}) = Zero
            /\ long \o short = Lc
            /\ Bits(5, LAMBDA i : row[6 - i][11]) = FiveBitSum(Lc)

\* The sum of all twelve bytes, each times its power of a root of the generator:
\* the powers of x fall from byte to byte.
Power[n \in 0 .. 33] == IF n = 0 THEN {0} ELSE Double(Power[n - 1])

Syndrome(word, root) ==
    LET terms == FlattenSeq([i \in 1 .. 12 |->
                     GfMul(Power[root * (12 - i)], Part(word, 8 * (i - 1), 8))])
    IN  Bits(8, LAMBDA j : Sum(terms, {8 * i + j : i \in 0 .. 11}))

\* LcReadable: a header or a terminator is a word of a product code, in rows and
\* in columns, the rows of check bits included.  It has the link control of the
\* call, without an error for a decoder of Reed-Solomon (12, 9) once the mask of
\* its type is off, and data sync (make_dmr_lc_control_payload).
LcReadable ==
    kind \in {"header", "term"} =>
        LET raw == Part(payload, 0, 98) \o Part(payload, 166, 98)
            cell(r, c) == raw[(((15 * r + c + 1) * 181) % 196) + 1]
            row == [r \in 0 .. 12 |-> Bits(15, LAMBDA c : cell(r, c))]
            column(c) == Bits(13, LAMBDA r : row[r][c + 1])
            data == Part(row[0], 3, 8) \o FlattenSeq([r \in 1 .. 8 |-> Part(row[r], 0, 11)])
            mask == CrcMask(IF kind = "header" THEN 1 ELSE 2)
            word == Part(data, 0, 72) \o Added(Part(data, 72, 24), mask)
        IN  /\ \A r \in 0 .. 12 : IsWord(row[r], Hamming15113)
            /\ \A c \in 0 .. 14 : IsWord(column(c), Hamming1393)
            /\ Part(data, 0, 72) = Lc
            /\ \A root \in 1 .. 3 : Syndrome(word, root) = Zeros(8)
            /\ Part(payload, 108, 48) = DataSync

-----------------------------------------------------------------------------

(***************************************************************************)
(* The inductive invariant                                                 *)
(***************************************************************************)

\* The last payload is the one made for the packet's kind, with the voice and
\* the index of then.
LastPayload ==
    /\ kind = "header" => payload = make_dmr_lc_control_payload(color, 1, Lc)
    /\ kind = "term" => payload = make_dmr_lc_control_payload(color, 2, Lc)
    /\ kind = "voice" =>
          /\ voice \in 1 .. 3
          /\ payload = make_dmr_voice_payload(VoiceFrames[voice], color, (index + 5) % 6, Lc)

\* A receiver has the fragments of the superframe up to the last packet.  True of
\* a call in order only: past the wrap of the number, or behind a header that
\* found packets waiting, index is not the count of the packets since the sync.
Collected ==
    /\ kind # "voice" => index = 0
    /\ index \in 2 .. 5 => embedded = Part(EmbeddedLc(Lc), 0, 32 * (index - 1))
    /\ kind = "voice" /\ index = 0 => embedded = EmbeddedLc(Lc)

\* The chunks waiting are voice channels of the words noted beside them.
HeldChunks ==
    /\ words \in Seq(1 .. 3)
    /\ chunks = [i \in 1 .. Len(words) |-> YsfVch(Spoken("station", words[i]))]

\* So are the five in the last packet.
BuiltPacket ==
    ysfd # <<>> =>
        /\ ysfdWords \in [1 .. 5 -> 1 .. 3]
        /\ ysfd = YsfdPacket([k \in 1 .. 5 |-> YsfVch(Spoken("station", ysfdWords[k]))])

\* IInv: what the payloads and the packets carry is what was put into them, and
\* a receiver of a superframe has its link control up to where it stands.
IInv == TypeOK /\ LastPayload /\ Collected /\ HeldChunks /\ BuiltPacket

=============================================================================
