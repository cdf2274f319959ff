------------------------------- MODULE Pkcs7 --------------------------------
(***************************************************************************)
(* The padding of AES256: a text of any length becomes one whose length is *)
(* a multiple of block_size. The constant is the block size in bits, and   *)
(* the code takes it as a number of bytes: up to 128 bytes are added, where*)
(* the cipher needs 16. Every added byte holds their number.               *)
(***************************************************************************)
EXTENDS Integers, Sequences

block_size == 128

CONSTANT Invalid    \* an exception instead of a result

\* The first remainder is below block_size, so this is never 0, and the code's test
\* for that never succeeds.
PaddingLen(n) == block_size - (n % block_size)

pkcs7_pad(input) ==
    [i \in 1 .. Len(input) + PaddingLen(Len(input)) |->
        IF i <= Len(input) THEN input[i] ELSE PaddingLen(Len(input))]

pkcs7_unpad(input) ==
    IF input = <<>> THEN Invalid
    ELSE LET padding_len == input[Len(input)] IN
         IF \/ padding_len = 0 \/ padding_len > Len(input)
            \/ \E i \in Len(input) - padding_len + 1 .. Len(input) :
                  input[i] # padding_len
         THEN Invalid
         ELSE SubSeq(input, 1, Len(input) - padding_len)

-----------------------------------------------------------------------------
\* What was padded is found again, whatever bytes the text ends in, those that look
\* like padding included, and the length fits the cipher's blocks of 16.
PaddingUndone(input) ==
    /\ pkcs7_unpad(pkcs7_pad(input)) = input
    /\ Len(pkcs7_pad(input)) % block_size = 0
    /\ Len(pkcs7_pad(input)) > Len(input)
=============================================================================
