---------------------------- MODULE RsaCompare ----------------------------
(***************************************************************************)
(* The exponentiator of rsacypher.vhd next to the software of rsa_crypto.c *)
(* on the same blocks, exponents and moduli, as the test programs of       *)
(* test.c run them (CryptoTest2 and CryptoTest3).                          *)
(***************************************************************************)
EXTENDS RsaCypherEnv

\* The values of an uint64_t, whatever the size of the key: 2^64 for all of them.
CONSTANT SoftRadix

ASSUME SoftRadixAssumption == SoftRadix \in Nat \ {0}

Soft == INSTANCE RsaCrypto

\* Jobs that the software can do: the exponent is a word, and twice the modulus, up
\* to which it adds before it reduces, does not go beyond one.  Products of two
\* primes of 31 bits (CryptoTest2 to 4) are such moduli; of the products of primes
\* of 32 bits that CryptoTest1 makes, those above 2^63 are not.  The modulus 1 is no
\* key: with the exponent 0 the software does not reduce its answer.
InSoftwareRange(r) ==
  /\ r.inMod \in 2 .. SoftRadix \div 2
  /\ r.indata < r.inMod
  /\ r.inExp < SoftRadix

\* Accelerator and software give the same text to every such job: two algorithms
\* that reduce at different places, the one by the sign of a difference, the other
\* by comparisons that let the modulus itself pass, in words that its double may
\* just fill (rsa_crypto.c:72).
HardwareMatchesSoftware ==
  done /\ job # NoJob /\ InSoftwareRange(job) =>
    cypher = Soft!ModularExp(job.indata, job.inExp, job.inMod)
=============================================================================
