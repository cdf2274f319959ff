---------------------------- MODULE NumberTheory ----------------------------
(***************************************************************************)
(* The number theory of crypto_utils.cpp, and the two public-key schemes   *)
(* that rest on it: DSA signatures and ElGamal encryption. The loops are   *)
(* recursive functions. A function that draws random numbers is the set of *)
(* what it can return, which is empty when it never returns.               *)
(*                                                                         *)
(* The code computes with integers of any size, TLC with 32 bits: moduli   *)
(* stay below 46340, so that a product of two residues does too. The       *)
(* formatting of numbers as hexadecimal text is left out.                  *)
(***************************************************************************)
EXTENDS Integers, Sequences, FiniteSets

SmallPrimes == {2, 3, 5, 7, 11, 13, 17, 19, 23, 29, 31, 37}

\* Square and multiply.
modular_pow(base, exponent, modulus) ==
    IF modulus = 1 THEN 0
    ELSE LET loop[result \in Nat, b \in Nat, exp \in Nat] ==
                 IF exp = 0 THEN result
                 ELSE loop[IF exp % 2 = 1 THEN (result * b) % modulus ELSE result,
                           (b * b) % modulus, exp \div 2]
         IN  loop[1, base % modulus, exponent]

\* Faulty: one more number is in the range.
generate_randomInclusive(min, max) ==
    IF min <= 0 THEN {min}
    ELSE {r + min : r \in {s \in 0 .. max - min + 1 : s >= min}}

\* Draws below max - min + 1 until the number is no less than min, and adds min to
\* it. With min <= 0 the loop, which starts from 0, is not entered. The maximum is no
\* less than 0, as it is in every call for parameters that were accepted.
generate_random(min, max) ==
    IF min <= 0 THEN {min} ELSE {r + min : r \in {s \in 0 .. max - min : s >= min}}

\* n - 1 = 2^r * d with d odd.
OddPart(n) ==
    LET strip[d \in Nat, r \in Nat] ==
            IF d % 2 = 0 THEN strip[d \div 2, r + 1] ELSE <<d, r>>
    IN  strip[n - 1, 0]

\* Faulty: only the first power is compared.
miller_rabin_testOnce(n, a) ==
    modular_pow(a, OddPart(n)[1], n) \in {1, n - 1}

\* Whether base a leaves it possible that n is prime.
miller_rabin_test(n, a) ==
    LET r == OddPart(n)[2]
        square[x \in Nat, i \in Nat] ==
            IF i >= r - 1 THEN FALSE
            ELSE LET y == (x * x) % n IN
                 IF y = n - 1 THEN TRUE
                 ELSE IF y = 1 THEN FALSE ELSE square[y, i + 1]
        x0 == modular_pow(a, OddPart(n)[1], n)
    IN  x0 = 1 \/ x0 = n - 1 \/ square[x0, 0]

\* The answers is_prime can give. The bases are drawn anew for every iteration, so
\* it may miss every witness there is, unless there is nothing but witnesses.
is_prime(n) ==
    IF n <= 1 \/ n = 4 THEN {FALSE}
    ELSE IF n <= 3 \/ n \in SmallPrimes THEN {TRUE}
    ELSE IF \E s \in SmallPrimes : n % s = 0 THEN {FALSE}
    ELSE {miller_rabin_test(n, a) : a \in generate_random(2, n - 2)}

-----------------------------------------------------------------------------
(* Parameters. Where is_prime can err they are accepted if it may say so.  *)

\* g passes the test of find_valid_generator, find_generator and
\* validate_el_gamal_parameters, which name the exponents in different ways.
IsGenerator(p, g) ==
    /\ modular_pow(g, 2, p) # 1
    /\ modular_pow(g, (p - 1) \div 2, p) # 1

Least(S) == {x \in S : \A y \in S : x <= y}

\* The first prime below 100, and below p, that passes; none is an exception.
Candidates == SmallPrimes \cup {41, 43, 47, 53, 59, 61, 67, 71, 73, 79, 83, 89, 97}
find_valid_generator(p) == Least({g \in Candidates : g < p /\ IsGenerator(p, g)})

\* The first number below p that passes.
find_generator(p) == Least({g \in 2 .. p - 1 : IsGenerator(p, g)})

validate_el_gamal_parameters(p, g) ==
    /\ TRUE \in is_prime(p)
    /\ g \in 2 .. p - 1
    /\ IsGenerator(p, g)

validate_dsa_parameters(p, q, g) ==
    /\ TRUE \in is_prime(p) /\ TRUE \in is_prime(q)
    /\ (p - 1) % q = 0
    /\ g \in 2 .. p - 1
    /\ modular_pow(g, q, p) = 1

-----------------------------------------------------------------------------
(* DSA.                                                                    *)

\* The private keys the constructor may choose, and the public key of one.
DsaPrivateKeys(q) == generate_random(1, q - 1)
PublicKey(p, g, x) == modular_pow(g, x, p)

\* Faulty: the loop ends with r = 0 as well.
DsaSignWithin(p, q, g, x, hash) ==
    {[r |-> modular_pow(g, k, p) % q,
      s |-> (modular_pow(k, q - 2, q) * (hash + x * (modular_pow(g, k, p) % q))) % q] :
        k \in generate_random(1, q - 1)}

\* DSA::sign: another k as long as r or the signature is 0.
DsaSign(p, q, g, x, hash) ==
    {sig \in {[r |-> modular_pow(g, k, p) % q,
               s |-> (modular_pow(k, q - 2, q)
                        * (hash + x * (modular_pow(g, k, p) % q))) % q] :
                 k \in generate_random(1, q - 1)} : sig.r # 0 /\ sig.s # 0}

DsaVerify(p, q, g, hash, sig, key) ==
    /\ sig.r \in 1 .. q - 1 /\ sig.s \in 1 .. q - 1
    /\ LET w  == modular_pow(sig.s, q - 2, q)
           u1 == (hash * w) % q
           u2 == (sig.r * w) % q
       IN  ((modular_pow(g, u1, p) * modular_pow(key, u2, p)) % p) % q = sig.r

-----------------------------------------------------------------------------
(* ElGamal.                                                                *)

ElGamalPrivateKeys(p) == generate_random(2, p - 2)

ElGamalEncrypt(p, g, message, key) ==
    {[c1 |-> modular_pow(g, k, p), c2 |-> (message * modular_pow(key, k, p)) % p] :
        k \in generate_random(2, p - 2)}

\* Faulty: multiplies by the shared secret instead of dividing by it.
ElGamalDecryptTwice(p, x, e) == (e.c2 * modular_pow(e.c1, x, p)) % p

\* The inverse of the shared secret is its power p - 2.
ElGamalDecrypt(p, x, e) ==
    LET shared == modular_pow(e.c1, x, p)
    IN  (e.c2 * modular_pow(shared, p - 2, p)) % p

-----------------------------------------------------------------------------
(* What the code promises, against the mathematical definitions.           *)

PrimeNumber(n) == n > 1 /\ \A d \in 2 .. n - 1 : d * d > n \/ n % d # 0

Power(base, e, m) ==
    LET power[i \in Nat] == IF i = 0 THEN 1 % m ELSE (base * power[i - 1]) % m
    IN  power[e]

\* What is drawn lies between the bounds, so private keys and nonces are never 0 and
\* never a multiple of the order. The lower part of the range is never drawn, and
\* the call returns at all only when the upper part has a number.
DrawnInRange(min, max) ==
    /\ \A r \in generate_random(min, max) : min <= r /\ r <= max
    /\ min > 0 => (generate_random(min, max) # {} <=> 2 * min <= max)

\* is_prime never refuses a prime, refuses a composite unless every drawn base is
\* a liar, and at most a quarter of the bases are.
PrimalitySound(n) ==
    /\ TRUE \in is_prime(n) /\ FALSE \notin is_prime(n) => PrimeNumber(n)
    /\ PrimeNumber(n) => is_prime(n) = {TRUE}
    /\ TRUE \in is_prime(n) /\ ~PrimeNumber(n) =>
          4 * Cardinality({a \in 2 .. n - 2 : miller_rabin_test(n, a)}) <= n

Order(g, p) ==
    CHOOSE k \in 1 .. p - 1 :
        Power(g, k, p) = 1 /\ \A j \in 1 .. k - 1 : Power(g, j, p) # 1

\* For a safe prime, one more than twice a prime, whatever a caller of the three
\* functions is given generates every residue. The functions do not check that the
\* prime is a safe one.
GeneratorsGenerate(p) ==
    PrimeNumber(p) /\ PrimeNumber((p - 1) \div 2) /\ p > 5 =>
        /\ \A g \in 2 .. p - 1 :
              validate_el_gamal_parameters(p, g) => Order(g, p) = p - 1
        /\ \A g \in find_generator(p) \cup find_valid_generator(p) :
              Order(g, p) = p - 1
        /\ find_generator(p) # {}

\* With parameters its constructor accepts, whatever DSA signs verifies under the
\* signer's key, for any hash, also one that exceeds q.
SignaturesVerify(p, q, g) ==
    validate_dsa_parameters(p, q, g) =>
        \A x \in DsaPrivateKeys(q) : \A hash \in 0 .. q + 2 :
            \A sig \in DsaSign(p, q, g, x, hash) :
                DsaVerify(p, q, g, hash, sig, PublicKey(p, g, x))

\* With parameters its constructor accepts, decryption returns the message modulo
\* p: a message that is not smaller than p is not recovered.
ElGamalRoundTrip(p, g) ==
    validate_el_gamal_parameters(p, g) =>
        \A x \in ElGamalPrivateKeys(p) : \A message \in 0 .. p + 2 :
            \A e \in ElGamalEncrypt(p, g, message, PublicKey(p, g, x)) :
                ElGamalDecrypt(p, x, e) = message % p
=============================================================================
