---------------------------- MODULE CryptoProofs ----------------------------
(***************************************************************************)
(* The padding of Pkcs7, for texts of every length, and the random draws   *)
(* of NumberTheory, for bounds of every size.                              *)
(***************************************************************************)
EXTENDS Pkcs7, NumberTheory, SequenceTheorems, TLAPS

\* Between one byte and a whole block is added, and fills the last block.
LEMMA PaddingLenBounds ==
    ASSUME NEW n \in Nat
    PROVE  /\ PaddingLen(n) \in 1 .. block_size
           /\ (n + PaddingLen(n)) % block_size = 0
<1>1. n % 128 \in 0 .. 127 /\ n = (128 * (n \div 128)) + (n % 128)
  BY SMT
<1>2. n + (128 - (n % 128)) = 128 * ((n \div 128) + 1)
  BY <1>1, SMT
<1>3. (128 * ((n \div 128) + 1)) % 128 = 0
  BY SMT
<1>4. QED
  BY <1>1, <1>2, <1>3 DEF PaddingLen, block_size

\* What pkcs7_pad makes of a text: a longer one, which begins with it, and goes on
\* with the number of the bytes added.
LEMMA Padded ==
    ASSUME NEW S, NEW input \in Seq(S)
    PROVE  LET n == Len(input)
               k == PaddingLen(n)
           IN  /\ Len(pkcs7_pad(input)) = n + k
               /\ \A i \in 1 .. n : pkcs7_pad(input)[i] = input[i]
               /\ \A i \in n + 1 .. n + k : pkcs7_pad(input)[i] = k
<1> DEFINE n == Len(input)
           k == PaddingLen(n)
           padded == pkcs7_pad(input)
<1>1. n \in Nat /\ k \in 1 .. block_size
  BY LenProperties, PaddingLenBounds
<1>2. padded = [i \in 1 .. n + k |-> IF i <= n THEN input[i] ELSE k]
  BY DEF pkcs7_pad
<1> HIDE DEF n, k, padded
<1>3. n + k \in Nat /\ DOMAIN padded = 1 .. n + k
  BY <1>1, <1>2 DEF block_size
<1>4. Len(padded) = n + k
  BY <1>2, <1>3
<1>5. \A i \in 1 .. n : padded[i] = input[i]
  BY <1>1, <1>2 DEF block_size
<1>6. \A i \in n + 1 .. n + k : padded[i] = k
  BY <1>1, <1>2 DEF block_size
<1>7. QED
  BY <1>4, <1>5, <1>6 DEF n, k, padded

\* AES256::pkcs7_unpad finds every text again that pkcs7_pad padded, whatever its
\* length and its last bytes, and what is encrypted fills whole blocks.
THEOREM PaddingAlwaysUndone ==
    ASSUME NEW S, NEW input \in Seq(S)
    PROVE  PaddingUndone(input)
<1> DEFINE n == Len(input)
           k == PaddingLen(n)
           padded == pkcs7_pad(input)
<1>1. n \in Nat /\ k \in 1 .. block_size /\ (n + k) % block_size = 0
  BY LenProperties, PaddingLenBounds
<1>2. /\ Len(padded) = n + k
      /\ \A i \in 1 .. n : padded[i] = input[i]
      /\ \A i \in n + 1 .. n + k : padded[i] = k
  BY Padded
<1> HIDE DEF padded, k
<1>3. padded # <<>>
  BY <1>1, <1>2, EmptySeq DEF block_size
<1>4. padded[Len(padded)] = k
  BY <1>1, <1>2 DEF block_size
<1>5. SubSeq(padded, 1, n) = input
  <2>1. /\ SubSeq(padded, 1, n) = [i \in 1 .. n |-> padded[i]]
    BY <1>1
  <2>2. input = [i \in 1 .. n |-> input[i]]
    BY LenProperties
  <2>3. QED
    BY <1>2, <2>1, <2>2
<1>6. (n + k) - k = n /\ (n + k) - k + 1 = n + 1 /\ n + k > n /\ ~(k > n + k) /\ k # 0
  BY <1>1 DEF block_size
<1>7. pkcs7_unpad(padded) = input
  BY <1>2, <1>3, <1>4, <1>5, <1>6 DEF pkcs7_unpad
<1>8. QED
  BY <1>1, <1>2, <1>6, <1>7 DEF PaddingUndone, padded, k

-----------------------------------------------------------------------------
\* The numbers generate_random can return: the upper part of the range, from twice the
\* minimum on.
LEMMA DrawsAreUpperPart ==
    ASSUME NEW min \in Int, NEW max \in Nat, min > 0
    PROVE  generate_random(min, max) = 2 * min .. max
<1>1. ASSUME NEW r \in generate_random(min, max)
      PROVE  r \in 2 * min .. max
  <2>1. PICK s \in 0 .. max - min : s >= min /\ r = s + min
    BY <1>1 DEF generate_random
  <2>2. QED
    BY <2>1
<1>2. ASSUME NEW r \in 2 * min .. max
      PROVE  r \in generate_random(min, max)
  <2>1. r - min \in {s \in 0 .. max - min : s >= min} /\ (r - min) + min = r
    OBVIOUS
  <2>2. QED
    BY <2>1 DEF generate_random
<1>3. QED
  BY <1>1, <1>2

\* What is drawn lies between the bounds, and a call returns exactly when the maximum is
\* at least twice the minimum. A minimum of 0 or less is returned as it is.
THEOREM DrawsAlwaysInRange ==
    ASSUME NEW min \in Int, NEW max \in Nat
    PROVE  DrawnInRange(min, max)
<1>1. CASE min > 0
  <2>1. generate_random(min, max) = 2 * min .. max
    BY <1>1, DrawsAreUpperPart
  <2>2. \A r \in 2 * min .. max : min <= r /\ r <= max
    BY <1>1
  <2>3. 2 * min .. max # {} <=> 2 * min <= max
    <3>1. ASSUME 2 * min <= max
          PROVE  2 * min \in 2 * min .. max
      BY <3>1
    <3>2. ASSUME NEW r \in 2 * min .. max
          PROVE  2 * min <= max
      OBVIOUS
    <3>3. QED
      BY <3>1, <3>2
  <2>4. QED
    BY <2>1, <2>2, <2>3 DEF DrawnInRange
<1>2. CASE min <= 0
  <2>1. generate_random(min, max) = {min} /\ min <= max /\ ~(min > 0)
    BY <1>2 DEF generate_random
  <2>2. QED
    BY <2>1 DEF DrawnInRange
<1>3. QED
  BY <1>1, <1>2

\* The keys and nonces of DSA and ElGamal are never 0 and stay below the order, so that
\* the constructors and the encryption find one only if the order leaves room for it.
THEOREM KeysInRange ==
    ASSUME NEW p \in Nat, NEW q \in Nat, p > 1, q > 0
    PROVE  /\ DsaPrivateKeys(q) = 2 .. q - 1
           /\ ElGamalPrivateKeys(p) = 4 .. p - 2
<1>1. generate_random(1, q - 1) = 2 * 1 .. q - 1
  BY DrawsAreUpperPart
<1>2. generate_random(2, p - 2) = 2 * 2 .. p - 2
  BY DrawsAreUpperPart
<1>3. 2 * 1 = 2 /\ 2 * 2 = 4
  OBVIOUS
<1>4. QED
  BY <1>1, <1>2, <1>3 DEF DsaPrivateKeys, ElGamalPrivateKeys
=============================================================================
