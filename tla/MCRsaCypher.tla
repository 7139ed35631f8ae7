---------------------------- MODULE MCRsaCypher ----------------------------
\* Three-bit keys: every exponent and every admissible block, for the modulus 1, odd
\* and even ones and the largest.  The words of the software are as wide as the keys
\* of the accelerator, as uint64_t and BITSIZE 64 are: 4 is its largest modulus.
EXTENDS RsaCompare, FiniteSets, Sequences

MCRadix == 8
MCModuli == {1, 3, 4, 5, 7}

-----------------------------------------------------------------------------
\* ModMult() is right for exactly the moduli up to half of the values of a word
\* (here of four bits): for each one above, some product of reduced factors
\* overflows and is wrong.  A key with such a modulus, as CryptoTest1 may make it, need
\* not decrypt what it has encrypted.
LOCAL Narrow == INSTANCE RsaCrypto WITH SoftRadix <- 16
ASSUME SoftwareRange ==
  /\ \A m \in 1 .. 15 :
       m <= 8 <=> \A a, b \in 0 .. m - 1 : Narrow!ModMult(a, b, m) = (a * b) % m
  /\ \E text \in 0 .. 14 : \* 15 = 3 * 5, the exponent 3 inverts itself
       Narrow!ModularExp(Narrow!ModularExp(text, 3, 15), 3, 15) # text

-----------------------------------------------------------------------------
\* The functions of rsa_crypto.c that no job reaches, on words of 12 bits.
LOCAL Words == INSTANCE RsaCrypto WITH SoftRadix <- 4096
Divides(x, n) == n % x = 0
Prime(n) == n > 1 /\ \A x \in 2 .. n - 1 : ~Divides(x, n)
Odd == {n \in 5 .. 61 : n % 2 = 1}
Primes == {n \in Odd : Prime(n)}
Coprime(x, y) == \A z \in 2 .. x : ~(Divides(z, x) /\ Divides(z, y))

\* MillerRabin() rejects no prime, whatever the base; a composite passes for a
\* quarter of the bases at most, and RandomPrime() may return one.
ASSUME MillerRabinIsSound ==
  /\ \A n \in Primes : \A a \in Words!Bases(n) : Words!MillerRabin(n, a)
  /\ \A n \in Odd \ Primes :
       LET liars == {a \in Words!Bases(n) : Words!MillerRabin(n, a)}
       IN  4 * Cardinality(liars) <= n - 1
  /\ Primes \subseteq Words!RandomPrime(Odd) /\ Primes # Words!RandomPrime(Odd)

\* Keys made with ExpandedEuclid() from two different primes decrypt what they
\* have encrypted.
ASSUME KeysInvert ==
  \A p, q \in {x \in Primes : x <= 13} : p < q =>
    LET n == p * q
        fi == (p - 1) * (q - 1)
    IN  \A e \in {x \in 2 .. fi - 1 : Coprime(x, fi)} : \A m \in {2, p, q + 1, n - 2} :
          Words!ModularExp(Words!ModularExp(m, e, n), Words!ExpandedEuclid(fi, e), n) = m

-----------------------------------------------------------------------------
\* The tests that encrypt files, with bytes of one bit, of which a block of the
\* software has three and a word of the accelerator, which has three, is read two.
LOCAL Tests == INSTANCE CryptoTests
  WITH Byte <- 2, NumOfBytes <- 3, WordBytes <- 3, BlockWords <- 2, SoftRadix <- 4096
Texts == UNION {[1 .. n -> {0, 1}] : n \in 0 .. 7}

\* CryptoTest2: decrypt.txt begins with the whole file, and something follows it up
\* to a block that is always one more than the file needs.  encrypt.txt is no
\* encryption of it: it is the same for different files, for the highest bytes of
\* the blocks are not written.
ASSUME SoftwareTestDecrypts ==
  /\ \A text \in Texts :
       LET files == Tests!SoftwareTest(text, 3, 7, 33)
       IN  /\ Tests!IsPrefix(text, files.decrypt)
           /\ Len(files.decrypt) = Len(text) - (Len(text) % 3) + 3
           /\ Len(files.encrypt) = Len(files.decrypt)
  /\ \E s, t \in [1 .. 3 -> {0, 1}] :
       s # t /\ Tests!SoftwareTest(s, 3, 7, 33).encrypt = Tests!SoftwareTest(t, 3, 7, 33).encrypt

\* CryptoTest4: decrypt.txt begins with as much of the file as the buffer holds if
\* every block is below the modulus.  That is so if the heap was cleared; what it
\* held may be such that the text is not found again.
ASSUME HardwareTestDecrypts ==
  LET n == 35
      Kept(text, heap) == IF Len(text) <= 2 * Len(heap) THEN text ELSE SubSeq(text, 1, 2 * Len(heap))
      Small(text, heap) == \A k \in DOMAIN Tests!Blocks(Tests!DataBuffer(text, heap)) :
                             Tests!Blocks(Tests!DataBuffer(text, heap))[k] < n
      Decrypts(text, heap) ==
        Tests!IsPrefix(Kept(text, heap), Tests!HardwareTest(text, heap, 5, 5, n).decrypt)
  IN  /\ \A text \in Texts : \A heap \in [1 .. 2 -> 0 .. 7] \cup {<<0, 0, 0, 0>>, <<4, 3, 4, 0>>} :
           Small(text, heap) => Decrypts(text, heap)
      /\ \A text \in Texts : Small(text, <<0, 0, 0, 0>>)
      /\ \E text \in Texts, heap \in [1 .. 2 -> 0 .. 7] : ~Decrypts(text, heap)
=============================================================================
