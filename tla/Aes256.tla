------------------------------- MODULE Aes256 -------------------------------
(***************************************************************************)
(* The block cipher of aes256.cpp and the encryption of strings by it: one *)
(* block after another, after padding (Pkcs7). A byte is a number, a state *)
(* and a word are sequences of bytes, so positions count from 1 where the  *)
(* code's count from 0. Bytes are written in decimal.                      *)
(***************************************************************************)
EXTENDS Pkcs7, SequencesExt, Bitwise

Bytes == 0 .. 255
Nk == 8
Nb == 4
Nr == 14
state_size == 4 * Nb

sbox == <<
     99, 124, 119, 123, 242, 107, 111, 197,  48,   1, 103,  43, 254, 215, 171, 118,
    202, 130, 201, 125, 250,  89,  71, 240, 173, 212, 162, 175, 156, 164, 114, 192,
    183, 253, 147,  38,  54,  63, 247, 204,  52, 165, 229, 241, 113, 216,  49,  21,
      4, 199,  35, 195,  24, 150,   5, 154,   7,  18, 128, 226, 235,  39, 178, 117,
      9, 131,  44,  26,  27, 110,  90, 160,  82,  59, 214, 179,  41, 227,  47, 132,
     83, 209,   0, 237,  32, 252, 177,  91, 106, 203, 190,  57,  74,  76,  88, 207,
    208, 239, 170, 251,  67,  77,  51, 133,  69, 249,   2, 127,  80,  60, 159, 168,
     81, 163,  64, 143, 146, 157,  56, 245, 188, 182, 218,  33,  16, 255, 243, 210,
    205,  12,  19, 236,  95, 151,  68,  23, 196, 167, 126,  61, 100,  93,  25, 115,
     96, 129,  79, 220,  34,  42, 144, 136,  70, 238, 184,  20, 222,  94,  11, 219,
    224,  50,  58,  10,  73,   6,  36,  92, 194, 211, 172,  98, 145, 149, 228, 121,
    231, 200,  55, 109, 141, 213,  78, 169, 108,  86, 244, 234, 101, 122, 174,   8,
    186, 120,  37,  46,  28, 166, 180, 198, 232, 221, 116,  31,  75, 189, 139, 138,
    112,  62, 181, 102,  72,   3, 246,  14,  97,  53,  87, 185, 134, 193,  29, 158,
    225, 248, 152,  17, 105, 217, 142, 148, 155,  30, 135, 233, 206,  85,  40, 223,
    140, 161, 137,  13, 191, 230,  66, 104,  65, 153,  45,  15, 176,  84, 187,  22>>

inv_sbox == <<
     82,   9, 106, 213,  48,  54, 165,  56, 191,  64, 163, 158, 129, 243, 215, 251,
    124, 227,  57, 130, 155,  47, 255, 135,  52, 142,  67,  68, 196, 222, 233, 203,
     84, 123, 148,  50, 166, 194,  35,  61, 238,  76, 149,  11,  66, 250, 195,  78,
      8,  46, 161, 102,  40, 217,  36, 178, 118,  91, 162,  73, 109, 139, 209,  37,
    114, 248, 246, 100, 134, 104, 152,  22, 212, 164,  92, 204,  93, 101, 182, 146,
    108, 112,  72,  80, 253, 237, 185, 218,  94,  21,  70,  87, 167, 141, 157, 132,
    144, 216, 171,   0, 140, 188, 211,  10, 247, 228,  88,   5, 184, 179,  69,   6,
    208,  44,  30, 143, 202,  63,  15,   2, 193, 175, 189,   3,   1,  19, 138, 107,
     58, 145,  17,  65,  79, 103, 220, 234, 151, 242, 207, 206, 240, 180, 230, 115,
    150, 172, 116,  34, 231, 173,  53, 133, 226, 249,  55, 232,  28, 117, 223, 110,
     71, 241,  26, 113,  29,  41, 197, 137, 111, 183,  98,  14, 170,  24, 190,  27,
    252,  86,  62,  75, 198, 210, 121,  32, 154, 219, 192, 254, 120, 205,  90, 244,
     31, 221, 168,  51, 136,   7, 199,  49, 177,  18,  16,  89,  39, 128, 236,  95,
     96,  81, 127, 169,  25, 181,  74,  13,  45, 229, 122, 159, 147, 201, 156, 239,
    160, 224,  59,  77, 174,  42, 245, 176, 200, 235, 187,  60, 131,  83, 153,  97,
     23,  43,   4, 126, 186, 119, 214,  38, 225, 105,  20,  99,  85,  33,  12, 125>>

\* The high bytes of round_const; the others are 0.
round_const == <<1, 2, 4, 8, 16, 32, 64, 128, 27, 54>>

\* Exclusive or, tabulated: of half bytes, and of bytes from that.
HalfXor == [x \in 0 .. 15 |-> [y \in 0 .. 15 |-> x ^^ y]]
ByteXor == [x \in Bytes |-> [y \in Bytes |->
                (16 * HalfXor[x \div 16][y \div 16]) + HalfXor[x % 16][y % 16]]]
x %% y == ByteXor[x][y]

-----------------------------------------------------------------------------
(* Galois field and words.                                                 *)

\* The doubling of a field element: a shift, reduced when a bit leaves the byte.
Double(a) == IF a >= 128 THEN ((2 * a) % 256) %% 27 ELSE 2 * a

gmul(a, b) ==
    LET loop[x \in Bytes, y \in Bytes, p \in Bytes, i \in 0 .. 8] ==
            IF i = 8 THEN p
            ELSE loop[Double(x), y \div 2, IF y % 2 = 1 THEN p %% x ELSE p, i + 1]
    IN  loop[a, b, 0, 0]

\* The products the round steps need.
Product == [a \in {1, 2, 3, 9, 11, 13, 14} |-> [b \in Bytes |-> gmul(a, b)]]

rot_word(w) == <<w[2], w[3], w[4], w[1]>>
sub_word(w) == [i \in 1 .. 4 |-> sbox[w[i] + 1]]
XorWord(v, w) == <<v[1] %% w[1], v[2] %% w[2], v[3] %% w[3], v[4] %% w[4]>>

\* Faulty: the round constant is not mixed in.
MixedWithoutConstant(t, i) ==
    IF i % Nk = 0 THEN sub_word(rot_word(t))
    ELSE IF i % Nk = 4 THEN sub_word(t) ELSE t

\* What is added to word i - Nk to make word i, out of word i - 1.
Mixed(t, i) ==
    IF i % Nk = 0
    THEN XorWord(sub_word(rot_word(t)), <<round_const[i \div Nk], 0, 0, 0>>)
    ELSE IF i % Nk = 4 THEN sub_word(t) ELSE t

\* The round keys as a sequence of Nb * (Nr + 1) words.
key_expansion(key) ==
    LET expand[w \in Seq(Seq(Bytes))] ==
            IF Len(w) = Nb * (Nr + 1) THEN w
            ELSE expand[Append(w, XorWord(w[Len(w) + 1 - Nk], Mixed(w[Len(w)], Len(w))))]
    IN  expand[[i \in 1 .. Nk |-> SubSeq(key, (4 * i) - 3, 4 * i)]]

-----------------------------------------------------------------------------
(* The steps of a round and their inverses. Columns are consecutive, so    *)
(* byte r + 4c is in row r of column c.                                    *)

sub_bytes(s) == [i \in 1 .. state_size |-> sbox[s[i] + 1]]
inv_sub_bytes(s) == [i \in 1 .. state_size |-> inv_sbox[s[i] + 1]]

\* Row r moves r columns to the left, and back to the right.
shift_rows(s) ==
    [i \in 1 .. state_size |-> s[((i - 1 + 4 * ((i - 1) % 4)) % state_size) + 1]]
inv_shift_rows(s) ==
    [i \in 1 .. state_size |-> s[((i - 1 - 4 * ((i - 1) % 4)) % state_size) + 1]]

\* Every column times the circulant matrix whose first row is m.
MixColumnsBy(m, s) ==
    LET entry(c, r) ==
            LET term(k) == Product[m[((k - r) % 4) + 1]][s[(4 * c) + k + 1]]
            IN  (term(0) %% term(1)) %% (term(2) %% term(3))
        column(c) == <<entry(c, 0), entry(c, 1), entry(c, 2), entry(c, 3)>>
    IN  column(0) \o column(1) \o column(2) \o column(3)
mix_columns(s) == MixColumnsBy(<<2, 3, 1, 1>>, s)
inv_mix_columns(s) == MixColumnsBy(<<14, 11, 13, 9>>, s)

add_round_key(s, w, round) ==
    [i \in 1 .. state_size |->
        s[i] %% w[(4 * round) + ((i - 1) \div 4) + 1][((i - 1) % 4) + 1]]

-----------------------------------------------------------------------------
(* The cipher.                                                             *)

\* From the state after the mix_columns of the round; the last round has none.
encrypt(key, input) ==
    LET rounds[round \in 0 .. Nr - 1, s \in Seq(Bytes), w \in Seq(Seq(Bytes))] ==
            LET shifted == shift_rows(sub_bytes(add_round_key(s, w, round)))
            IN  IF round = Nr - 1 THEN add_round_key(shifted, w, Nr)
                ELSE rounds[round + 1, mix_columns(shifted), w]
    IN  rounds[0, input, key_expansion(key)]

decrypt(key, input) ==
    LET rounds[round \in 0 .. Nr - 1, s \in Seq(Bytes), w \in Seq(Seq(Bytes))] ==
            LET sub == inv_sub_bytes(inv_shift_rows(s))
            IN  IF round = 0 THEN add_round_key(sub, w, 0)
                ELSE rounds[round - 1, inv_mix_columns(add_round_key(sub, w, round)), w]
        w == key_expansion(key)
    IN  rounds[Nr - 1, add_round_key(input, w, Nr), w]

\* Each block of input through op, and the results one after another.
Blockwise(op(_), input) ==
    FlattenSeq([n \in 1 .. Len(input) \div state_size |->
        op(SubSeq(input, ((n - 1) * state_size) + 1, n * state_size))])

\* An exception is Invalid.
aes256_encrypt(key, input) ==
    IF input = <<>> THEN Invalid
    ELSE Blockwise(LAMBDA block : encrypt(key, block), pkcs7_pad(input))

aes256_decrypt(key, input) ==
    IF input = <<>> \/ Len(input) % state_size # 0 THEN Invalid
    ELSE pkcs7_unpad(Blockwise(LAMBDA block : decrypt(key, block), input))

-----------------------------------------------------------------------------
\* Decryption undoes encryption, so every step of a round has its inverse and the
\* round keys come in the opposite order.
BlockDecrypted(key, block) == decrypt(key, encrypt(key, block)) = block

\* A text of any length is decrypted as it was, whether or not it ends in what looks
\* like padding.
TextDecrypted(key, text) == aes256_decrypt(key, aes256_encrypt(key, text)) = text
=============================================================================
