------------------------------- MODULE Sha256 -------------------------------
(***************************************************************************)
(* The SHA256 object: bytes are collected in a buffer and every full one   *)
(* is compressed into the state. The object of the model remembers the     *)
(* blocks it compressed, and the state is computed from them when it is    *)
(* asked for. A 32-bit word is a pair of 16-bit halves, the higher first.  *)
(* What is needed more than once is the argument of a function, not of an  *)
(* operator, so that TLC computes it once.                                 *)
(***************************************************************************)
EXTENDS Integers, Sequences, SequencesExt, Bitwise

Byte == 0 .. 255
Half == 0 .. 65535
Word == Half \X Half

initial_state == <<
    <<27145, 58983>>, <<47975, 44677>>, <<15470, 62322>>, <<42319, 62778>>,
    <<20750, 21119>>, <<39685, 26764>>, << 8067, 55723>>, <<23520, 52505>>>>

K == <<
    <<17034, 12184>>, <<28983, 17553>>, <<46528, 64463>>, <<59829, 56229>>, <<14678, 49755>>,
    <<23025,  4593>>, <<37439, 33444>>, <<43804, 24277>>, <<55303, 43672>>, << 4739, 23297>>,
    << 9265, 34238>>, <<21772, 32195>>, <<29374, 23924>>, <<32990, 45566>>, <<39900,  1703>>,
    <<49563, 61812>>, <<58523, 27073>>, <<61374, 18310>>, << 4033, 40390>>, << 9228, 41420>>,
    <<11753, 11375>>, <<19060, 33962>>, <<23728, 43484>>, <<30457, 35034>>, <<38974, 20818>>,
    <<43057, 50797>>, <<45059, 10184>>, <<48985, 32711>>, <<50912,  3059>>, <<54695, 37191>>,
    << 1738, 25425>>, << 5161, 10599>>, <<10167,  2693>>, <<11803,  8504>>, <<19756, 28156>>,
    <<21304,  3347>>, <<25866, 29524>>, <<30314,  2747>>, <<33218, 51502>>, <<37490, 11397>>,
    <<41663, 59553>>, <<43034, 26187>>, <<49739, 35696>>, <<51052, 20899>>, <<53650, 59417>>,
    <<54937,  1572>>, <<62478, 13701>>, << 4202, 41072>>, << 6564, 49430>>, << 7735, 27656>>,
    <<10056, 30540>>, <<13488, 48309>>, <<14620,  3251>>, <<20184, 43594>>, <<23452, 51791>>,
    <<26670, 28659>>, <<29839, 33518>>, <<30885, 25455>>, <<33992, 30740>>, <<36039,   520>>,
    <<37054, 65530>>, <<42064, 27883>>, <<48889, 41975>>, <<50801, 30962>>>>

-----------------------------------------------------------------------------
(* Words.                                                                  *)

Xor3[x \in Word, y \in Word, z \in Word] ==
    <<(x[1] ^^ y[1]) ^^ z[1], (x[2] ^^ y[2]) ^^ z[2]>>

\* The sum modulo 2^32.
Sum32[ws \in Seq(Word)] ==
    LET low  == FoldLeft(LAMBDA s, w : s + w[2], 0, ws)
        high == FoldLeft(LAMBDA s, w : s + w[1], low \div 65536, ws)
    IN  <<high % 65536, low % 65536>>

\* The right shift by bits < 16 of the word whose higher half is h.
ShiftIn(h, l, bits) == (l \div 2^bits) + ((h % 2^bits) * 2^(16 - bits))
shr[w \in Word, bits \in 0 .. 15] == <<w[1] \div 2^bits, ShiftIn(w[1], w[2], bits)>>
rotr[w \in Word, bits \in 0 .. 31] ==
    IF bits < 16 THEN <<ShiftIn(w[2], w[1], bits), ShiftIn(w[1], w[2], bits)>>
    ELSE rotr[<<w[2], w[1]>>, bits - 16]

ch[x \in Word, y \in Word, z \in Word] ==
    LET half(i) == (x[i] & y[i]) ^^ ((65535 - x[i]) & z[i]) IN <<half(1), half(2)>>
maj[x \in Word, y \in Word, z \in Word] ==
    LET half(i) == ((x[i] & y[i]) ^^ (x[i] & z[i])) ^^ (y[i] & z[i])
    IN  <<half(1), half(2)>>

ep0[x \in Word] == Xor3[rotr[x, 2], rotr[x, 13], rotr[x, 22]]
ep1[x \in Word] == Xor3[rotr[x, 6], rotr[x, 11], rotr[x, 25]]
sig0[x \in Word] == Xor3[rotr[x, 7], rotr[x, 18], shr[x, 3]]
sig1[x \in Word] == Xor3[rotr[x, 17], rotr[x, 19], shr[x, 10]]

-----------------------------------------------------------------------------
(* The compression of a block of 64 bytes.                                 *)

\* The message schedule: 16 words of the block, then 48 computed from earlier ones.
Schedule(data) ==
    LET half(i) == (256 * data[i]) + data[i + 1]
        extend[w \in Seq(Word)] ==
            LET n == Len(w) + 1 IN
            IF n > 64 THEN w
            ELSE extend[Append(w, Sum32[<<sig1[w[n - 2]], w[n - 7],
                                          sig0[w[n - 15]], w[n - 16]>>])]
    IN  extend[[i \in 1 .. 16 |-> <<half((4 * i) - 3), half((4 * i) - 1)>>]]

\* The working variables a to h after round i, which uses w[i].
Round[v \in Seq(Word), kw \in Word] ==
    LET temp1 == Sum32[<<v[8], ep1[v[5]], ch[v[5], v[6], v[7]], kw>>]
        temp2 == Sum32[<<ep0[v[1]], maj[v[1], v[2], v[3]]>>]
    IN  <<Sum32[<<temp1, temp2>>], v[1], v[2], v[3], Sum32[<<v[4], temp1>>],
          v[5], v[6], v[7]>>

transform(state, data) ==
    LET rounds[i \in 1 .. 65, v \in Seq(Word), w \in Seq(Word)] ==
            IF i = 65 THEN [j \in 1 .. 8 |-> Sum32[<<state[j], v[j]>>]]
            ELSE rounds[i + 1, Round[v, Sum32[<<K[i], w[i]>>]], w]
    IN  rounds[1, state, Schedule(data)]

-----------------------------------------------------------------------------
(* The object.                                                             *)

Object == [blocks : Seq(Seq(Byte)), buffer : Seq(Byte), total_length : Nat]
SHA256 == [blocks |-> <<>>, buffer |-> <<>>, total_length |-> 0]

\* The state after the blocks.
State(blocks) ==
    LET after[i \in 1 .. Len(blocks) + 1, s \in Seq(Word)] ==
            IF i > Len(blocks) THEN s ELSE after[i + 1, transform(s, blocks[i])]
    IN  after[1, initial_state]

PushByte[o \in Object, b \in Byte] ==
    IF Len(o.buffer) = 63
    THEN [o EXCEPT !.blocks = Append(@, Append(o.buffer, b)), !.buffer = <<>>]
    ELSE [o EXCEPT !.buffer = Append(@, b)]

update(object, data) ==
    LET push[o \in Object, i \in Nat] ==
            IF i > Len(data) THEN o ELSE push[PushByte[o, data[i]], i + 1]
    IN  push[[object EXCEPT !.total_length = @ + (8 * Len(data))], 1]

\* total_length as 8 bytes; the model's integers fill no more than the last four.
LengthBytes(n) ==
    [i \in 1 .. 8 |-> IF i <= 4 THEN 0 ELSE (n \div 256^(8 - i)) % 256]

\* Faulty: the zeros stop one byte early.
padShort(o) ==
    Append(o.blocks,
           SubSeq((o.buffer \o <<128>>) \o [i \in 1 .. 54 - Len(o.buffer) |-> 0]
                    \o LengthBytes(o.total_length) \o <<0>>, 1, 64))

\* The last block: the first 64 bytes of what the buffer has become, which may have
\* no room for the length.
pad(o) ==
    Append(o.blocks,
           SubSeq(((o.buffer \o <<128>>) \o [i \in 1 .. 55 - Len(o.buffer) |-> 0])
                    \o LengthBytes(o.total_length), 1, 64))

\* The eight words that are printed. The object is a new one afterwards.
digest(o) == State(pad(o))

-----------------------------------------------------------------------------
\* The blocks FIPS 180-4 pads a message to.
StandardBlocks(data) ==
    LET zeros  == (119 - (Len(data) % 64)) % 64
        padded == ((data \o <<128>>) \o [i \in 1 .. zeros |-> 0])
                    \o LengthBytes(8 * Len(data))
    IN  [n \in 1 .. Len(padded) \div 64 |-> SubSeq(padded, (64 * n) - 63, 64 * n)]

\* It makes no difference to the digest in how many calls of update the text arrives,
\* nor where a call leaves the buffer.
SplitIndependent(data, cut) ==
    update(update(SHA256, SubSeq(data, 1, cut)), SubSeq(data, cut + 1, Len(data)))
        = update(SHA256, data)

\* The padding is that of the standard exactly as long as the length fits behind the
\* buffered bytes: from 56 on the standard takes a further block, and the code does
\* not.
PaddedAsStandard(data) ==
    pad(update(SHA256, data)) = StandardBlocks(data) <=> Len(data) % 64 < 56
=============================================================================
