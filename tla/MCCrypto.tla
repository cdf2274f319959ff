------------------------------ MODULE MCCrypto ------------------------------
(* One step from the initial state to each sample of each algorithm.       *)
EXTENDS Aes256, Sha256, NumberTheory

VARIABLE sample

NoSample == [kind |-> "none"]

\* Bytes without a pattern that is a multiple of the block.
Text(n, by) == [i \in 1 .. n |-> (i * by + (i \div 5)) % 256]
Key(by) == Text(32, by)

\* Texts of n bytes that end in last bytes of that value, as padding does.
PaddedLike(n, last) == Text(n - last, 7) \o [i \in 1 .. last |-> last]

Init == sample = NoSample

Block == \E by \in {1, 7, 91} : sample' = [kind |-> "block", by |-> by]
TextOf == \E n \in {1, 127, 128} : sample' = [kind |-> "text", n |-> n]
Padding ==
    \E n \in {0, 1, 15, 16, 127, 128, 129, 255, 256} : \E last \in {0, 1, 2, 128} :
        last <= n /\ sample' = [kind |-> "padding", n |-> n, last |-> last]
Split ==
    \E n \in {0, 63, 64, 130} : \E cut \in {0, 1, 55, 63, 64, 65, 129} :
        cut <= n /\ sample' = [kind |-> "split", n |-> n, cut |-> cut]
Message == \E n \in 0 .. 130 : sample' = [kind |-> "message", n |-> n]
Draw ==
    \E min \in -1 .. 6 : \E max \in 0 .. 12 :
        sample' = [kind |-> "draw", min |-> min, max |-> max]
\* 1681 is 41 * 41, 1763 is 41 * 43, 1729 and 2821 are Carmichael numbers.
Number ==
    \E n \in 0 .. 60 \cup {1681, 1693, 1729, 1763, 2047, 2821} :
        sample' = [kind |-> "number", n |-> n]
Dsa ==
    \E p \in 2 .. 31 : \E q \in 2 .. 15 :
        (p - 1) % q = 0 /\ sample' = [kind |-> "dsa", p |-> p, q |-> q]
ElGamal == \E p \in 2 .. 29 : sample' = [kind |-> "el_gamal", p |-> p]

Next ==
    /\ sample = NoSample
    /\ \/ Block \/ TextOf \/ Padding \/ Split \/ Message
       \/ Draw \/ Number \/ Dsa \/ ElGamal

Spec == Init /\ [][Next]_sample

-----------------------------------------------------------------------------
\* Aes256: the block cipher is AES, by the vector of FIPS 197, C.3; blocks and texts, of
\* lengths around a multiple of a block, are decrypted as they were; and the padding is
\* undone, also behind what looks like it.
CipherIsAes ==
    CASE sample.kind = "none" ->
             encrypt([i \in 1 .. 32 |-> i - 1], [i \in 1 .. 16 |-> 17 * (i - 1)])
                 = <<142, 162, 183, 202, 81, 103, 69, 191,
                     234, 252, 73, 144, 75, 73, 96, 137>>
      [] sample.kind = "block" -> BlockDecrypted(Key(sample.by + 2), Text(16, sample.by))
      [] sample.kind = "text" -> TextDecrypted(Key(3), Text(sample.n, 7))
      [] sample.kind = "padding" -> PaddingUndone(PaddedLike(sample.n, sample.last))
      [] OTHER -> TRUE

\* Sha256: the compression is that of SHA-256, by the digests of "abc" and of a text of
\* more than a block; the padding is the standard's for the lengths that leave room for
\* it, and for no other; and a text may arrive in two calls of update, cut anywhere.
DigestIsSha256 ==
    CASE sample.kind = "none" ->
           /\ digest(update(SHA256, <<97, 98, 99>>)) =
                 << <<47736, 5823>>, <<36609, 53226>>, <<16705, 16606>>, <<23982, 8739>>,
                    <<45059, 24995>>, <<38423, 31388>>, <<46096, 65377>>, <<61952, 5549>> >>
           /\ digest(update(SHA256, [i \in 1 .. 67 |-> IF i <= 64 THEN i - 1 ELSE 32 + i])) =
                 << <<60188, 37701>>, <<49996, 35401>>, <<4560, 109>>, <<61838, 27316>>,
                    <<12747, 38737>>, <<42137, 8599>>, <<32732, 162>>, <<20170, 65463>> >>
      [] sample.kind = "split" -> SplitIndependent(Text(sample.n, 7), sample.cut)
      [] sample.kind = "message" -> PaddedAsStandard(Text(sample.n, 7))
      [] OTHER -> TRUE

\* crypto_utils: generate_random keeps to its bounds, and returns or not, as
\* DrawnInRange says.
DrawsInRange == sample.kind = "draw" => DrawnInRange(sample.min, sample.max)

\* crypto_utils: what is_prime may answer for a prime and for a composite, among them
\* those without a small factor; and what the three functions about generators accept
\* for a safe prime generates every residue.
NumbersTested ==
    sample.kind = "number" =>
        PrimalitySound(sample.n) /\ (sample.n <= 60 => GeneratorsGenerate(sample.n))

\* DSA: a signature verifies, whatever the key, the hash and the nonce.
SignaturesAccepted ==
    sample.kind = "dsa" =>
        \A g \in 2 .. sample.p - 1 : SignaturesVerify(sample.p, sample.q, g)

\* ElGamal: a message below p is recovered, whatever the key and the nonce.
MessagesRecovered ==
    sample.kind = "el_gamal" => \A g \in 2 .. sample.p - 1 : ElGamalRoundTrip(sample.p, g)
=============================================================================
