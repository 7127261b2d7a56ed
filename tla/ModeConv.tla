------------------------------- MODULE ModeConv -------------------------------
(***************************************************************************)
(* bridge/modeconv.py, the conversion of voice between YSF and DMR frames, *)
(* and the DMR payloads around the voice.                                  *)
(*                                                                         *)
(* Words are sequences of bits, the bit sent first at the front, and the   *)
(* tables count from 0 as in the code.  All that is done to words is       *)
(* linear over GF(2), or looks a table up, so a bit is not 0 or 1 but the  *)
(* set of unknowns it is the sum of: one word of unknowns stands for every *)
(* value it can have.  What a table gives for a word is an unknown of its  *)
(* own, named for the table and the word.                                  *)
(***************************************************************************)
EXTENDS Integers, SequencesExt

Zero == {}
Unknown(name, of, i) == {<<name, of, i>>}

Xor(x, y) == (x \ y) \cup (y \ x)

Bits(n, Bit(_)) == [i \in 1 .. n |-> Bit(i - 1)]
Zeros(n) == Bits(n, LAMBDA i : Zero)
Unknowns(name, of, n) == Bits(n, LAMBDA i : Unknown(name, of, i))

\* n bits of a word, from place i.
Part(word, i, n) == SubSeq(word, i + 1, i + n)

\* The sum of the bits of a word at some places.
Sum(word, places) ==
    {u \in UNION {word[i + 1] : i \in places} :
        Cardinality({i \in places : u \in word[i + 1]}) % 2 = 1}

-----------------------------------------------------------------------------

\* Voice.  Of the three words of an AMBE frame the first is sent with Golay
\* parity, the second with Golay parity and scrambled by the first, the third
\* as it is: 24, 23 and 25 bits of a chunk of 72.

\* encode24128: its first twelve bits are the word.
Golay(word) == word \o Unknowns("golay", word, 12)
Prng(word) == Unknowns("prng", word, 23)

Scrambled(word, key) == Bits(Len(word), LAMBDA i : Xor(word[i + 1], Prng(key)[i + 1]))

\* DMR_A_TABLE, DMR_B_TABLE and DMR_C_TABLE, one behind the other, tell where
\* the bits of the three words go; and what bit is where.
DmrTable(t) == 4 * (t % 18) + t \div 18
DmrSource(p) == 18 * (p % 4) + p \div 4

\* _ambe_to_dmr_chunk.
DmrChunk(ambe) ==
    LET coded == Golay(ambe.a) \o Scrambled(Part(Golay(ambe.b), 0, 23), ambe.a) \o ambe.c
    IN  Bits(72, LAMBDA p : coded[DmrSource(p) + 1])

\* The words a chunk has; its parity is not looked at.
AmbeOf(chunk) ==
    LET coded == Bits(72, LAMBDA t : chunk[DmrTable(t) + 1])
        a == Part(coded, 0, 12)
    IN  [a |-> a, b |-> Scrambled(Part(coded, 24, 12), a), c |-> Part(coded, 47, 25)]

\* A YSF voice channel is whitened and interleaved.
White(i) == Unknown("white", "ysf", i)

\* INTERLEAVE_TABLE_26_4, and its inverse.
VchTable(i) == 4 * (i % 26) + i \div 26
VchSource(p) == 26 * (p % 4) + p \div 4

\* A wrong YsfVch: the bit that is left over comes before the last 22.
YsfVchPadded(ambe) ==
    LET important == ambe.a \o ambe.b \o Part(ambe.c, 0, 3)
        vch == Bits(81, LAMBDA i : important[i \div 3 + 1]) \o <<Zero>> \o Part(ambe.c, 3, 22)
    IN  Bits(104, LAMBDA p : Xor(vch[VchSource(p) + 1], White(VchSource(p))))

\* _ambe_to_ysf_vch: the most important 27 bits three times each, then the rest.
YsfVch(ambe) ==
    LET important == ambe.a \o ambe.b \o Part(ambe.c, 0, 3)
        vch == Bits(81, LAMBDA i : important[i \div 3 + 1]) \o Part(ambe.c, 3, 22) \o <<Zero>>
    IN  Bits(104, LAMBDA p : Xor(vch[VchSource(p) + 1], White(VchSource(p))))

\* _ysf_vch_to_dmr_ambe: of three equal bits the one in the middle is read.
VchAmbe(data, offset) ==
    LET vch == Bits(104, LAMBDA i : Xor(data[offset + VchTable(i) + 1], White(i)))
        important == Bits(27, LAMBDA i : vch[3 * i + 2])
    IN  [a |-> Part(important, 0, 12), b |-> Part(important, 12, 12),
         c |-> Part(important, 24, 3) \o Part(vch, 81, 22)]

\* The chunks of a DMR frame: the second lies on both sides of the 48 bits for
\* sync or signalling.
DmrChunks(frame) ==
    <<Part(frame, 0, 72), Part(frame, 72, 36) \o Part(frame, 156, 36), Part(frame, 192, 72)>>

dmr_voice_frame_to_ysf_vch(frame) ==
    [k \in 1 .. 3 |-> YsfVch(AmbeOf(DmrChunks(frame)[k]))]

\* A wrong PackDmrVoiceChunks: the second chunk is not parted.
PackDmrVoiceChunksUnparted(chunks) == chunks[1] \o chunks[2] \o Zeros(48) \o chunks[3]

PackDmrVoiceChunks(chunks) ==
    chunks[1] \o Part(chunks[2], 0, 36) \o Zeros(48) \o Part(chunks[2], 36, 36) \o chunks[3]

\* DMR_SILENCE_DATA is three of these.
Silence == Unknowns("silence", "dmr", 72)

\* Where the voice channels of a YSFD packet are looked for.
VchOffset(k) == 400 + 144 * (k - 1)

\* The two DMR frames of a YSFD packet.
ysf_vd2_frame_to_dmr_voice_frames(ysfd) ==
    LET chunk == [k \in 1 .. 5 |-> DmrChunk(VchAmbe(ysfd, VchOffset(k)))]
    IN  <<PackDmrVoiceChunks(SubSeq(chunk, 1, 3)),
          PackDmrVoiceChunks(SubSeq(chunk, 4, 5) \o <<Silence>>)>>

-----------------------------------------------------------------------------

\* Codes.  The masks of a code: of what places each check bit is the sum.
Hamming15113 ==
    <<{0, 1, 2, 3, 5, 7, 8}, {1, 2, 3, 4, 6, 8, 9}, {2, 3, 4, 5, 7, 9, 10},
      {0, 1, 2, 4, 6, 7, 10}>>
Hamming1393 ==
    <<{0, 1, 3, 5, 6}, {0, 1, 2, 4, 6, 7}, {0, 1, 2, 3, 5, 7, 8}, {0, 2, 4, 5, 8}>>
Hamming16114 == Append(Hamming15113, {0, 2, 5, 6, 8, 9, 10})

Encoded(word, masks) == word \o [k \in DOMAIN masks |-> Sum(word, masks[k])]

\* The link control: nine bytes, the first three 0, then talkgroup and source.
LinkControl(talkgroup) == Zeros(24) \o Unknowns("lc", talkgroup, 48)

\* The bytes of the link control added up modulo 31, the lowest bit first.
FiveBitSum(lc) == Unknowns("sum", lc, 5)

\* Seven rows of a Hamming code and one of their sums; the check sum gives the
\* last bit of five rows.
EmbeddedRows(lc) ==
    LET data(r) == IF r <= 2 THEN Part(lc, 11 * (r - 1), 11)
                   ELSE Append(Part(lc, 22 + 10 * (r - 3), 10), FiveBitSum(lc)[8 - r])
        rows == FlattenSeq([r \in 1 .. 7 |-> Encoded(data(r), Hamming16114)])
    IN  rows \o Bits(16, LAMBDA c : Sum(rows, {c + 16 * k : k \in 0 .. 6}))

\* _dmr_embedded_lc_raw: the rows, sent by columns.
EmbeddedLc(lc) ==
    LET rows == EmbeddedRows(lc)
    IN  Bits(128, LAMBDA q : rows[16 * (q % 8) + q \div 8 + 1])

\* Elements of GF(256) are the sets of the powers in them; x^8 is the rest of
\* 0x11D.  A byte has the bit of x^7 first.
Double(a) ==
    LET up == {k + 1 : k \in a}
    IN  IF 8 \in up THEN Xor(up \ {8}, {0, 2, 3, 4}) ELSE up

\* A constant times a byte.
GfMul(a, byte) ==
    LET shifted[k \in 0 .. 7] == IF k = 0 THEN a ELSE Double(shifted[k - 1])
    IN  Bits(8, LAMBDA i : Sum(byte, {7 - k : k \in {n \in 0 .. 7 : 7 - i \in shifted[n]} }))

Added(x, y) == Bits(Len(x), LAMBDA i : Xor(x[i + 1], y[i + 1]))

\* A wrong RsStep: the middle byte of the register is not shifted.
RsStepUnshifted(register, byte) ==
    LET d == Added(byte, Part(register, 0, 8))
    IN  Added(Part(register, 8, 8), GfMul({1, 2, 3}, d)) \o GfMul({3, 4, 5}, d)
            \o GfMul({6}, d)

\* One byte into _rs129_encode, whose register is taken from parity[2] down to
\* parity[0]; RS129_POLY is 64, 56, 14.
RsStep(register, byte) ==
    LET d == Added(byte, Part(register, 0, 8))
    IN  Added(Part(register, 8, 8), GfMul({1, 2, 3}, d))
            \o Added(Part(register, 16, 8), GfMul({3, 4, 5}, d)) \o GfMul({6}, d)

Rs129(lc) ==
    LET register[n \in 0 .. 9] ==
            IF n = 0 THEN Zeros(24) ELSE RsStep(register[n - 1], Part(lc, 8 * (n - 1), 8))
    IN  register[9]

\* The parity of a full link control is masked by the type of the packet.
CrcMask(type) == Bits(24, LAMBDA i : Unknown("mask", type, i % 8))
FullLc(lc, type) == lc \o Added(Rs129(lc), CrcMask(type))

\* _bptc19696_encode: nine rows of a Hamming code, then fifteen columns of
\* another; the first three places are reserved.
BptcColumns(data) ==
    LET word(r) == IF r = 1 THEN Zeros(3) \o Part(data, 0, 8)
                   ELSE Part(data, 8 + 11 * (r - 2), 11)
        rows == FlattenSeq([r \in 1 .. 9 |-> Encoded(word(r), Hamming15113)])
        column(c) == [r \in 1 .. 9 |-> rows[15 * (r - 1) + c]]
    IN  FlattenSeq([c \in 1 .. 15 |-> Encoded(column(c), Hamming1393)])

\* Bit n by rows, from 1, is sent in place n * 181 % 196; 13 * 181 % 196 = 1.
BptcSource(q) == (q * 13) % 196

Bptc(data) ==
    LET columns == BptcColumns(data)
        cell(n) == columns[13 * ((n - 1) % 15) + (n - 1) \div 15 + 1]
    IN  Bits(196, LAMBDA q : IF q = 0 THEN Zero ELSE cell(BptcSource(q)))

-----------------------------------------------------------------------------

\* Payloads: 108 bits of voice or link control, 48 in the middle, 108 more.

AudioSync == Unknowns("sync", "audio", 48)
DataSync  == Unknowns("sync", "data", 48)

\* _add_dmr_emb: 16 bits of a table, eight on each side of the embedded part.
Emb(color, lcss) == Unknowns("emb", <<color, lcss>>, 16)

\* A wrong Lcss: the first fragment is not marked.
LcssUnbegun(index) ==
    CASE index = 4 -> 2
      [] index \in 1 .. 3 -> 3
      [] OTHER -> 0

\* Whether a fragment is the first, the last or between them, or there is none.
Lcss(index) ==
    CASE index = 1 -> 1
      [] index = 4 -> 2
      [] index \in 2 .. 3 -> 3
      [] OTHER -> 0

\* _add_dmr_embedded_lc.
Fragment(index, lc) ==
    IF index \in 1 .. 4 THEN Part(EmbeddedLc(lc), 32 * (index - 1), 32) ELSE Zeros(32)

make_dmr_voice_payload(frame, color, index, lc) ==
    LET emb == Emb(color, Lcss(index))
        middle == IF index = 0 THEN AudioSync
                  ELSE Part(emb, 0, 8) \o Fragment(index, lc) \o Part(emb, 8, 8)
    IN  Part(frame, 0, 108) \o middle \o Part(frame, 156, 108)

\* _add_dmr_slot_type knows the words of colour code 1 only; others have none.
SlotType(color, type) == IF color = 1 THEN Unknowns("slot", type, 20) ELSE Zeros(20)

make_dmr_lc_control_payload(color, type, lc) ==
    LET slot == SlotType(color, type)
        raw == Bptc(FullLc(lc, type))
    IN  Part(raw, 0, 98) \o Part(slot, 0, 10) \o DataSync \o Part(slot, 10, 10)
            \o Part(raw, 98, 98)

=============================================================================
