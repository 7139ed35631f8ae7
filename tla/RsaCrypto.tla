----------------------------- MODULE RsaCrypto -----------------------------
(***************************************************************************)
(* The software RSA of rsa_crypto.c, which the test programs generate keys *)
(* with and compare the accelerator's times and texts to: its functions,   *)
(* with a loop written as a recursive function of the variables that the   *)
(* loop changes.  Unsigned arithmetic wraps at SoftRadix, 2^64 in the code.*)
(***************************************************************************)
EXTENDS Integers

CONSTANT SoftRadix

U(x) == x % SoftRadix

\* if (mpand > modulus) mpand -= modulus: the modulus itself is left.
Below(x, m) == IF x > m THEN x - m ELSE x

Reduced(x, m) == IF x >= m THEN x - m ELSE x

\* Shift and add, from the lowest bit of the multiplier on: one pass of the loop,
MultVars == [result : Nat, mpand : Nat, mplier : Nat]

AddAndShift(s, modulus) ==
  [result |-> IF s.mplier % 2 = 1
              THEN Reduced(Reduced(U(s.result + s.mpand), modulus), modulus)
              ELSE s.result,
   mpand  |-> Below(U(2 * s.mpand), modulus),
   mplier |-> s.mplier \div 2]

\* and all of them.
ModMult(mpand, mplier, modulus) ==
  LET loop[s \in MultVars] == IF s.mplier = 0 THEN s.result ELSE loop[AddAndShift(s, modulus)]
  IN  loop[[result |-> 0, mpand |-> mpand, mplier |-> mplier]]

\* Square and multiply, without a reduction of a: a pass,
ExpVars == [A : Nat, b : Nat, k : Nat]

SquareAndMultiply(s, n) ==
  LET square == ModMult(s.A, s.A, n)
  IN  [A |-> square,
       b |-> IF s.k % 2 = 1 THEN ModMult(square, s.b, n) ELSE s.b,
       k |-> s.k \div 2]

\* and all.
ModularExp(a, k, n) ==
  LET loop[s \in ExpVars] == IF s.k = 0 THEN s.b ELSE loop[SquareAndMultiply(s, n)]
  IN  IF k = 0 THEN 1 ELSE loop[[A |-> a, b |-> IF k % 2 = 1 THEN a ELSE 1, k |-> k \div 2]]

\* The inverse of e modulo fi, if there is one.
ExpandedEuclid(fi, e) ==
  LET loop[a \in Nat, b \in Nat, lastY \in Int, y \in Int] ==
        IF b = 0 THEN lastY ELSE loop[b, a % b, y, lastY - (a \div b) * y]
      d == loop[fi, e, 0, 1]
  IN  IF d < 0 THEN fi + d ELSE d

\* n - 1 = r * 2^s with an odd r, for an odd n above 1.
Decomposed(n) ==
  LET loop[r \in Nat, s \in Nat] == IF r % 2 = 1 THEN [r |-> r, s |-> s] ELSE loop[r \div 2, s + 1]
  IN  loop[n - 1, 0]

\* One round with the base a: SECURITY_PARAM is 1.
MillerRabin(n, a) ==
  LET d == Decomposed(n)
      loop[y \in Nat, j \in Nat] ==
        IF j <= d.s - 1 /\ y # n - 1
        THEN LET square == U(y * y) % n  IN square # 1 /\ loop[square, j + 1]
        ELSE y = n - 1
      start == ModularExp(a, d.r, n)
  IN  start \in {1, n - 1} \/ loop[start, 1]

\* The bases that the random numbers give.
Bases(n) == {2 + (x % (n - 4)) : x \in 0 .. n}

\* What RandomPrime() may return among the odd numbers of candidates, with a
\* random number for each: its trial division rejects nothing, for the continue
\* continues the loop over the divisors.
RandomPrime(candidates) == {n \in candidates : \E a \in Bases(n) : MillerRabin(n, a)}
=============================================================================
