---------------------------- MODULE ModMultProofs ----------------------------
(***************************************************************************)
(* modmult.vhd multiplies, for every width: the proofs about ModMultEnv.   *)
(* The argument is the loop invariant PartialProduct, with the quotient of *)
(* the congruence as a witness (PartialProductQ), strengthened by JobHeld: *)
(* the registers stay so small that a subtraction or two reduce them and   *)
(* that the sign bit the code looks at tells which.                        *)
(***************************************************************************)
EXTENDS ModMultEnv, TLAPS

-----------------------------------------------------------------------------
(***************************************************************************)
(* What one edge does to the registers, without regard to who strobes the  *)
(* multiplier: RsaCypherProofs uses these lemmas too, for both of its own. *)
(***************************************************************************)

\* Quotient and remainder.
LEMMA DivMod ==
  ASSUME NEW n \in Nat \ {0}, NEW x \in Int
  PROVE  /\ x % n \in 0 .. n - 1
         /\ x \div n \in Int
         /\ x = n * (x \div n) + (x % n)
  OBVIOUS

\* There is one remainder,
LEMMA UniqueRemainder ==
  ASSUME NEW n \in Nat \ {0}, NEW q1 \in Int, NEW q2 \in Int,
         NEW r1 \in 0 .. n - 1, NEW r2 \in 0 .. n - 1,
         n * q1 + r1 = n * q2 + r2
  PROVE  r1 = r2
<1>1. CASE q1 > q2
  <2>1. n * (q1 - q2) >= n
    BY <1>1
  <2>. QED BY <2>1
<1>2. CASE q1 < q2
  <2>1. n * (q2 - q1) >= n
    BY <1>2
  <2>. QED BY <2>1
<1>. QED BY <1>1, <1>2

\* and what satisfies its equation is it.
LEMMA RemainderIs ==
  ASSUME NEW n \in Nat \ {0}, NEW x \in Int, NEW q \in Int, NEW r \in 0 .. n - 1,
         x = n * q + r
  PROVE  x % n = r
  BY DivMod, UniqueRemainder

\* A multiple of the modulus leaves the remainder as it is.
LEMMA SameRemainder ==
  ASSUME NEW n \in Nat \ {0}, NEW x \in Int, NEW y \in Int, NEW q \in Int,
         x = y + q * n
  PROVE  x % n = y % n
<1>1. x = n * ((y \div n) + q) + (y % n)
  BY DivMod
<1>2. (y % n) \in 0 .. n - 1 /\ (y \div n) + q \in Int
  BY DivMod
<1>. QED BY <1>1, <1>2, RemainderIs

\* A difference that is not below -4 * Radix wraps to itself or, negative, by
\* 4 * Radix, and the two bits the entity looks at tell its sign.
LEMMA WideDifference ==
  ASSUME NEW x \in Int
  PROVE  /\ x \in 0 .. 2 * Radix - 1 => Wide(x) = x /\ ~Negative(Wide(x))
         /\ x \in -2 * Radix .. -1 => Wide(x) = x + 4 * Radix /\ Negative(Wide(x))
<1> USE RadixAssumption
<1>1. CASE x \in 0 .. 2 * Radix - 1
  <2>1. x = (4 * Radix) * 0 + x /\ 4 * Radix \in Nat \ {0}
    BY <1>1
  <2>2. Wide(x) = x
    BY <2>1, <1>1, RemainderIs DEF Wide
  <2>. QED BY <2>2, <1>1 DEF Negative
<1>2. CASE x \in -2 * Radix .. -1
  <2>1. x = (4 * Radix) * (-1) + (x + 4 * Radix) /\ 4 * Radix \in Nat \ {0}
    BY <1>2
  <2>2. x + 4 * Radix \in 0 .. 4 * Radix - 1
    BY <1>2
  <2>3. Wide(x) = x + 4 * Radix
    BY <2>1, <2>2, RemainderIs DEF Wide
  <2>. QED BY <2>3, <1>2 DEF Negative
<1>. QED BY <1>1, <1>2

\* The test of mcreg1 at bit MPWID: right for differences between -Radix and Radix.
LEMMA BitMpwidIsSign ==
  ASSUME NEW x \in Int, x \in -Radix .. Radix - 1
  PROVE  BitMpwid(Wide(x)) <=> x < 0
<1> USE RadixAssumption
<1>1. CASE x >= 0
  <2>1. Wide(x) = x
    BY <1>1, WideDifference
  <2>2. x \div Radix = 0
    BY <1>1
  <2>. QED BY <2>1, <2>2, <1>1 DEF BitMpwid
<1>2. CASE x < 0
  <2>1. Wide(x) = x + 4 * Radix
    BY <1>2, WideDifference
  <2>2. (x + 4 * Radix) \div Radix = 3
    BY <1>2
  <2>. QED BY <2>1, <2>2, <1>2 DEF BitMpwid
<1>. QED BY <1>1, <1>2

\* What the combinational part computes when its inputs are reduced: the sum
\* and the multiplicand, each less a multiple of the modulus, and remainders.
LEMMA Combinational ==
  ASSUME NEW r \in Registers, NEW m \in Word \ {0},
         r.modreg1 = m, r.modreg2 = 2 * m, r.prodreg < m, r.mcreg < 2 * m
  PROVE  /\ Prodreg4(r) \in 0 .. m - 1
         /\ \E j \in Int : Prodreg4(r) = r.prodreg + (r.mpreg % 2) * r.mcreg - j * m
         /\ Mcreg2(r) \in 0 .. m - 1
         /\ \E i \in Int : Mcreg2(r) = r.mcreg - i * m
<1> USE RadixAssumption
<1> DEFINE p == r.prodreg + (r.mpreg % 2) * r.mcreg
<1>1. /\ r.prodreg \in 0 .. m - 1
      /\ r.mcreg \in 0 .. 2 * m - 1
      /\ r.mpreg \in Nat
      /\ r.mpreg % 2 \in {0, 1}
      /\ m \in 1 .. Radix - 1
  BY DEF Registers, Word, WideWord
<1>2. p \in 0 .. 3 * m - 1
  <2>1. CASE r.mpreg % 2 = 0
    BY <2>1, <1>1
  <2>2. CASE r.mpreg % 2 = 1
    BY <2>2, <1>1
  <2>. QED BY <2>1, <2>2, <1>1
<1>3. Prodreg1(r) = p
  <2>1. CASE r.mpreg % 2 = 0
    BY <2>1, <1>1 DEF Prodreg1
  <2>2. CASE r.mpreg % 2 = 1
    <3>1. r.prodreg + r.mcreg \in 0 .. 4 * Radix - 1
      BY <1>1
    <3>2. Wide(r.prodreg + r.mcreg) = r.prodreg + r.mcreg
      <4>1. r.prodreg + r.mcreg = (4 * Radix) * 0 + (r.prodreg + r.mcreg)
        BY <1>1
      <4>2. 4 * Radix \in Nat \ {0}
        OBVIOUS
      <4>. QED BY <3>1, <4>1, <4>2, RemainderIs DEF Wide
    <3>. QED BY <2>2, <3>2, <1>1 DEF Prodreg1
  <2>. QED BY <2>1, <2>2, <1>1
<1>4. /\ Negative(Prodreg2(r)) <=> p < m
      /\ p >= m => Prodreg2(r) = p - m
  <2>2. Prodreg2(r) = Wide(p - m)
    BY <1>3 DEF Prodreg2
  <2>. HIDE DEF p
  <2>1. p - m \in Int /\ p - m \in -2 * Radix .. 2 * Radix - 1
    BY <1>1, <1>2
  <2>. QED BY <2>1, <2>2, <1>1, <1>2, WideDifference
<1>5. /\ Negative(Prodreg3(r)) <=> p < 2 * m
      /\ p >= 2 * m => Prodreg3(r) = p - 2 * m
  <2>1. p - 2 * m \in Int /\ p - 2 * m \in -2 * Radix .. 2 * Radix - 1
    BY <1>1, <1>2, SMTT(30)
  <2>2. Prodreg3(r) = Wide(p - 2 * m)
    BY <1>3 DEF Prodreg3
  <2>. HIDE DEF p
  <2>. QED BY <2>1, <2>2, <1>1, <1>2, WideDifference
<1>6. /\ Prodreg4(r) \in 0 .. m - 1
      /\ \E j \in Int : Prodreg4(r) = p - j * m
  <2>. HIDE DEF p
  <2>1. CASE p < m
    <3>1. Prodreg4(r) = p
      BY <2>1, <1>1, <1>2, <1>3, <1>4, <1>5 DEF Prodreg4
    <3>2. p = p - 0 * m
      BY <1>1, <1>2
    <3>. QED BY <3>1, <3>2, <2>1, <1>1, <1>2
  <2>2. CASE p >= m /\ p < 2 * m
    <3>1. Prodreg4(r) = p - 1 * m
      BY <2>2, <1>1, <1>2, <1>4, <1>5 DEF Prodreg4
    <3>. QED BY <3>1, <2>2, <1>1, <1>2
  <2>3. CASE p >= 2 * m
    <3>1. Prodreg4(r) = p - 2 * m
      BY <2>3, <1>1, <1>2, <1>4, <1>5 DEF Prodreg4
    <3>. QED BY <3>1, <2>3, <1>1, <1>2
  <2>. QED BY <2>1, <2>2, <2>3, <1>1, <1>2
<1>7. /\ Mcreg2(r) \in 0 .. m - 1
      /\ \E i \in Int : Mcreg2(r) = r.mcreg - i * m
  <2>1. r.mcreg - m \in Int /\ r.mcreg - m \in -Radix .. Radix - 1
    BY <1>1
  <2>2. BitMpwid(Mcreg1(r)) <=> r.mcreg < m
    BY <2>1, <1>1, BitMpwidIsSign DEF Mcreg1
  <2>3. CASE r.mcreg < m
    <3>1. Mcreg2(r) = r.mcreg
      BY <2>2, <2>3, <1>1 DEF Mcreg2
    <3>2. r.mcreg = r.mcreg - 0 * m
      BY <1>1
    <3>3. \E i \in Int : Mcreg2(r) = r.mcreg - i * m
      <4>. WITNESS 0 \in Int
      <4>. QED BY <3>1, <3>2
    <3>. QED BY <3>1, <3>3, <2>3, <1>1
  <2>4. CASE r.mcreg >= m
    <3>1. Mcreg1(r) = r.mcreg - m
      BY <2>1, <2>4, <1>1, WideDifference DEF Mcreg1
    <3>2. Mcreg2(r) = r.mcreg - 1 * m
      BY <3>1, <2>2, <2>4, <1>1 DEF Mcreg2
    <3>. QED BY <3>2, <2>4, <1>1
  <2>. QED BY <2>3, <2>4, <1>1
<1>8. PICK j \in Int : Prodreg4(r) = p - j * m
  BY <1>6
<1>9. Prodreg4(r) = r.prodreg + (r.mpreg % 2) * r.mcreg - j * m
  BY <1>1, <1>8
<1>. QED BY <1>6, <1>7, <1>9

-----------------------------------------------------------------------------
\* One edge.

\* The signals between the registers keep to their widths,
LEMMA CombinationalTypes ==
  ASSUME NEW r \in Registers
  PROVE  /\ Prodreg4(r) \in WideWord
         /\ Mcreg2(r) \in WideWord
         /\ product(r) \in Word
<1> USE RadixAssumption
<1>1. \A x \in Int : Wide(x) \in WideWord
  BY DivMod DEF Wide, WideWord
<1>2. /\ r.mcreg \in WideWord /\ r.prodreg \in WideWord
      /\ r.mcreg \in Int /\ r.prodreg \in Int /\ r.mpreg \in Int
      /\ r.modreg1 \in Int /\ r.modreg2 \in Int
      /\ WideWord \subseteq Int
  BY DEF Registers, Word, WideWord
<1>3. Prodreg1(r) \in WideWord
  BY <1>1, <1>2 DEF Prodreg1
<1>4. Prodreg2(r) \in WideWord /\ Prodreg3(r) \in WideWord
  <2>0. \A x, y \in Int : x - y \in Int
    OBVIOUS
  <2>1. Prodreg1(r) - r.modreg1 \in Int /\ Prodreg1(r) - r.modreg2 \in Int
    BY <1>2, <1>3, <2>0
  <2>. QED BY <1>1, <2>1 DEF Prodreg2, Prodreg3
<1>5. Prodreg4(r) \in WideWord
  BY <1>3, <1>4 DEF Prodreg4
<1>6. Mcreg2(r) \in WideWord
  BY <1>1, <1>2 DEF Mcreg1, Mcreg2, BitMpwid
<1>7. product(r) \in Word
  BY <1>2, <1>5, DivMod DEF product, Word
<1>. QED BY <1>5, <1>6, <1>7

\* and so do the registers in a step of the multiplication,
LEMMA ShiftTypes ==
  ASSUME NEW r \in Registers
  PROVE  Shift(r) \in Registers
<1> USE RadixAssumption
<1>1. 2 * (Mcreg2(r) % (2 * Radix)) \in WideWord
  <2>1. Mcreg2(r) \in Int
    BY CombinationalTypes DEF WideWord
  <2>2. 2 * Radix \in Nat \ {0}
    OBVIOUS
  <2>3. Mcreg2(r) % (2 * Radix) \in 0 .. 2 * Radix - 1
    BY <2>1, <2>2, DivMod
  <2>. QED BY <2>3 DEF WideWord
<1>2. r.mpreg \div 2 \in Word
  BY DEF Registers, Word
<1>. QED BY <1>1, <1>2, CombinationalTypes DEF Shift, Registers

\* in its last step,
LEMMA IdleTypes ==
  ASSUME NEW r \in Registers
  PROVE  Idle(r) \in Registers /\ ready(Idle(r))
  BY DEF Idle, Registers, ready

\* and at any clock edge.
LEMMA ClockTypes ==
  ASSUME NEW r \in Registers, NEW ds \in BOOLEAN, NEW a \in Word, NEW b \in Word,
         NEW m \in Word
  PROVE  Clock(r, ds, a, b, m) \in Registers
<1>1. Load(a, b, m) \in Registers
  BY RadixAssumption DEF Load, Registers, Word, WideWord
<1>2. Shift(r) \in Registers
  BY ShiftTypes
<1>3. Idle(r) \in Registers
  BY IdleTypes
<1>4. ready(r) \in BOOLEAN
  BY DEF ready, Registers
<1>. QED BY <1>1, <1>2, <1>3, <1>4 DEF Clock

\* The registers of a multiplication modulo m: both multiples of the modulus
\* loaded; the partial product a remainder; the multiplicand below twice the
\* modulus, so that one subtraction reduces it and two reduce the sum of both; and
\* no bit left to multiply when idle.
Held(r, m) ==
  /\ r \in Registers
  /\ r.modreg1 = m /\ r.modreg2 = 2 * m
  /\ r.prodreg < m /\ r.mcreg < 2 * m
  /\ ready(r) => r.mpreg = 0

\* Loading the registers establishes what a running multiplication keeps to,
LEMMA LoadHolds ==
  ASSUME NEW a \in Word, NEW b \in Word, NEW m \in Word \ {0}, a < 2 * m
  PROVE  Held(Load(a, b, m), m)
  BY RadixAssumption DEF Held, Load, Registers, Word, WideWord, ready

\* a step keeps it, and doubles the multiplicand,
LEMMA ShiftHolds ==
  ASSUME NEW r, NEW m \in Word \ {0}, Held(r, m), ~ready(r)
  PROVE  /\ Held(Shift(r), m)
         /\ ~ready(Shift(r))
         /\ Shift(r).mcreg = 2 * Mcreg2(r)
<1> USE RadixAssumption
<1>1. r \in Registers /\ Shift(r) \in Registers
  BY ShiftTypes DEF Held
<1>2. Prodreg4(r) \in 0 .. m - 1 /\ Mcreg2(r) \in 0 .. m - 1 /\ m \in 1 .. Radix - 1
  BY Combinational DEF Held, Word
<1>3. Mcreg2(r) % (2 * Radix) = Mcreg2(r)
  <2>1. Mcreg2(r) = (2 * Radix) * 0 + Mcreg2(r) /\ Mcreg2(r) \in 0 .. 2 * Radix - 1
    BY <1>2
  <2>. QED BY <2>1, RemainderIs
<1>4. /\ Shift(r).prodreg = Prodreg4(r) /\ Shift(r).mcreg = 2 * Mcreg2(r)
      /\ Shift(r).modreg1 = m /\ Shift(r).modreg2 = 2 * m
      /\ ~ready(Shift(r))
  BY <1>1, <1>3 DEF Held, Shift, Registers, ready
<1>. QED BY <1>1, <1>2, <1>4 DEF Held

\* and so does an edge at which the multiplier has become 0.
LEMMA IdleHolds ==
  ASSUME NEW r, NEW m, Held(r, m), r.mpreg = 0
  PROVE  Held(Idle(r), m)
  BY DEF Held, Idle, Registers, ready

\* An edge without a strobe, whatever the buses carry.
LEMMA ClockHolds ==
  ASSUME NEW r, NEW m \in Word \ {0}, Held(r, m), NEW a, NEW b, NEW c
  PROVE  Held(Clock(r, FALSE, a, b, c), m)
<1>1. ready(r) \in BOOLEAN
  BY DEF Held, ready, Registers
<1>2. CASE ready(r)
  BY <1>2 DEF Clock
<1>3. CASE ~ready(r) /\ r.mpreg # 0
  BY <1>3, ShiftHolds DEF Clock
<1>4. CASE ~ready(r) /\ r.mpreg = 0
  BY <1>4, IdleHolds DEF Clock
<1>. QED BY <1>1, <1>2, <1>3, <1>4

\* The product on the bus is a remainder.
LEMMA HeldProduct ==
  ASSUME NEW r, NEW m \in Word \ {0}, Held(r, m)
  PROVE  product(r) \in 0 .. m - 1 /\ product(r) = Prodreg4(r)
<1> USE RadixAssumption
<1>1. Prodreg4(r) \in 0 .. m - 1 /\ m \in 1 .. Radix - 1
  BY Combinational DEF Held, Word
<1>2. Prodreg4(r) = Radix * 0 + Prodreg4(r) /\ Prodreg4(r) \in 0 .. Radix - 1
  BY <1>1
<1>. QED BY <1>1, <1>2, RemainderIs DEF product

-----------------------------------------------------------------------------
(***************************************************************************)
(* The loop invariant: the partial product and what is left to add to it   *)
(* make x, up to a multiple of the modulus.                                *)
(***************************************************************************)

Sums(r, m, x) == \E q \in Int : x = r.prodreg + r.mpreg * r.mcreg + q * m

\* It holds for the product of the operands that are loaded.
LEMMA LoadSums ==
  ASSUME NEW a \in Word, NEW b \in Word, NEW m \in Word
  PROVE  Sums(Load(a, b, m), m, a * b)
<1>1. a \in Nat /\ b \in Nat /\ m \in Nat
  BY RadixAssumption DEF Word
<1>2. a * b = 0 + b * a + 0 * m
  BY <1>1
<1>3. \E q \in Int : a * b = 0 + b * a + q * m
  BY <1>2
<1>. QED BY <1>3 DEF Load, Sums

\* The two halves of what one edge does to the sum of the loop invariant.
LEMMA ShiftedSum ==
  ASSUME NEW n \in Int, NEW b \in Int, NEW c \in Int, NEW p \in Int, NEW m \in Int,
         NEW i \in Int, NEW j \in Int
  PROVE  p + (2 * n + b) * c
           = (((p + b * c) - j * m) + n * (2 * (c - i * m))) + (j + 2 * (n * i)) * m
  OBVIOUS

\* A shift changes the sum by a multiple of the modulus.
LEMMA ShiftPreserves ==
  ASSUME NEW r, NEW m \in Word \ {0}, Held(r, m), ~ready(r), NEW x \in Int, Sums(r, m, x)
  PROVE  Sums(Shift(r), m, x)
<1> USE RadixAssumption
<1> DEFINE n == r.mpreg \div 2
           b == r.mpreg % 2
           c == r.mcreg
           p == r.prodreg
<1>1. r \in Registers
  BY DEF Held
<1>2. r.modreg1 = m /\ r.modreg2 = 2 * m /\ p < m /\ c < 2 * m
  BY DEF Held
<1>3. /\ n \in Int /\ b \in Int /\ c \in Int /\ p \in Int /\ m \in 1 .. Radix - 1
      /\ r.mpreg = 2 * n + b
  BY <1>1 DEF Registers, Word, WideWord
<1>4. /\ Prodreg4(r) \in 0 .. m - 1
      /\ \E j \in Int : Prodreg4(r) = p + b * c - j * m
      /\ Mcreg2(r) \in 0 .. m - 1
      /\ \E i \in Int : Mcreg2(r) = c - i * m
  BY <1>1, <1>2, Combinational
<1>5. PICK j \in Int : Prodreg4(r) = p + b * c - j * m
  BY <1>4
<1>6. PICK i \in Int : Mcreg2(r) = c - i * m
  BY <1>4
<1>7. PICK q \in Int : x = p + r.mpreg * c + q * m
  BY DEF Sums
<1>8. /\ Shift(r).prodreg = Prodreg4(r)
      /\ Shift(r).mpreg = n
      /\ Shift(r).mcreg = 2 * Mcreg2(r)
  BY <1>1, ShiftHolds DEF Shift, Registers
<1>. HIDE DEF n, b, c, p
<1>9. p + r.mpreg * c = (Prodreg4(r) + n * (2 * Mcreg2(r))) + (j + 2 * (n * i)) * m
  <2>1. p + (2 * n + b) * c
          = (((p + b * c) - j * m) + n * (2 * (c - i * m))) + (j + 2 * (n * i)) * m
    BY <1>3, ShiftedSum
  <2>2. Prodreg4(r) = (p + b * c) - j * m
    BY <1>3, <1>5
  <2>. QED BY <2>1, <2>2, <1>3, <1>6
<1>10. x = (Prodreg4(r) + n * (2 * Mcreg2(r))) + (q + (j + 2 * (n * i))) * m
  <2> DEFINE k == j + 2 * (n * i)
             s == Prodreg4(r) + n * (2 * Mcreg2(r))
             t == p + r.mpreg * c
  <2>1. k \in Int /\ s \in Int /\ m \in Int
    BY <1>3, <1>4
  <2>2. t = s + k * m
    BY <1>9
  <2>3. x = t + q * m
    BY <1>7, <1>3
  <2>. HIDE DEF k, s, t
  <2>4. t + q * m = s + (q + k) * m
    BY <2>1, <2>2
  <2>. QED BY <2>3, <2>4 DEF s, k
<1>11. q + (j + 2 * (n * i)) \in Int
  BY <1>3
<1>. QED BY <1>8, <1>10, <1>11 DEF Sums

\* An edge without a strobe keeps the sum,
LEMMA ClockSums ==
  ASSUME NEW r, NEW m \in Word \ {0}, Held(r, m), NEW x \in Int, Sums(r, m, x),
         NEW a, NEW b, NEW c
  PROVE  Sums(Clock(r, FALSE, a, b, c), m, x)
<1>1. ready(r) \in BOOLEAN
  BY DEF Held, ready, Registers
<1>2. CASE ready(r)
  BY <1>2 DEF Clock
<1>3. CASE ~ready(r) /\ r.mpreg # 0
  BY <1>3, ShiftPreserves DEF Clock
<1>4. CASE ~ready(r) /\ r.mpreg = 0
  <2>1. Clock(r, FALSE, a, b, c) = Idle(r)
    BY <1>4 DEF Clock
  <2>2. Idle(r).prodreg = r.prodreg /\ Idle(r).mpreg = r.mpreg /\ Idle(r).mcreg = r.mcreg
    BY DEF Idle, Held, Registers
  <2>. QED BY <2>1, <2>2 DEF Sums
<1>. QED BY <1>1, <1>2, <1>3, <1>4

\* and with no bit left the product on the bus is the remainder of x.
LEMMA ProductOfSum ==
  ASSUME NEW r, NEW m \in Word \ {0}, Held(r, m), NEW x \in Int, Sums(r, m, x), r.mpreg = 0
  PROVE  product(r) = x % m
<1>1. r \in Registers /\ r.modreg1 = m /\ r.modreg2 = 2 * m /\ r.prodreg < m /\ r.mcreg < 2 * m
  BY DEF Held
<1>2. /\ r.prodreg \in Int /\ r.mcreg \in Int /\ m \in Nat \ {0}
  BY <1>1, RadixAssumption DEF Registers, Word, WideWord
<1>3. product(r) \in 0 .. m - 1
  BY HeldProduct
<1>4. PICK j \in Int : product(r) = r.prodreg + (r.mpreg % 2) * r.mcreg - j * m
  BY <1>1, Combinational, HeldProduct
<1>5. r.prodreg = m * j + product(r)
  <2>1. (r.mpreg % 2) * r.mcreg = 0
    BY <1>2
  <2>. QED BY <1>2, <1>3, <1>4, <2>1
<1>6. PICK q \in Int : x = r.prodreg + q * m
  <2>1. r.mpreg * r.mcreg = 0
    BY <1>2
  <2>. QED BY <1>2, <2>1 DEF Sums
<1>7. PICK k \in Int : x = m * k + product(r)
  <2>1. x = m * (j + q) + product(r) /\ j + q \in Int
    BY <1>2, <1>3, <1>5, <1>6
  <2>. QED BY <2>1
<1>. QED BY <1>2, <1>3, <1>7, RemainderIs

-----------------------------------------------------------------------------
(***************************************************************************)
(* The specification.                                                      *)
(***************************************************************************)


\* The registers keep to their widths in every step,
LEMMA TypeInductive == TypeOK /\ [Next]_vars => TypeOK'
<1> SUFFICES ASSUME TypeOK, [Next]_vars
             PROVE  TypeOK'
  OBVIOUS
<1> USE DEF TypeOK
<1>1. CASE Strobe
  <2>1. PICK o \in Operands : /\ Admissible(o)
                              /\ mm' = Clock(mm, TRUE, o.mpand, o.mplier, o.modulus)
                              /\ job' = o
    BY <1>1 DEF Strobe
  <2>2. o.mpand \in Word /\ o.mplier \in Word /\ o.modulus \in Word
    BY DEF Operands
  <2>. QED BY <2>1, <2>2, ClockTypes
<1>2. CASE Work
  <2>1. 0 \in Word
    BY RadixAssumption DEF Word
  <2>. QED BY <1>2, <2>1, ClockTypes DEF Work
<1>3. CASE Restart
  BY <1>3 DEF Restart, Idle, Registers
<1>4. CASE UNCHANGED vars
  BY <1>4 DEF vars
<1>. QED BY <1>1, <1>2, <1>3, <1>4 DEF Next

\* and have them to begin with.
LEMMA InitTypes == Init => TypeOK
  BY RadixAssumption DEF Init, PowerUp, TypeOK, Registers, Word, WideWord

\* Each register of modmult.vhd stays within its declared width.
THEOREM TypeCorrect == Spec => []TypeOK
  BY InitTypes, TypeInductive, PTL DEF Spec

-----------------------------------------------------------------------------
\* The registers are those of a multiplication modulo the job's modulus.
JobHeld == job # NoJob => Held(mm, job.modulus)

\* PartialProduct compares remainders; the steps preserve it with the quotient at
\* hand.
PartialProductQ == job # NoJob => Sums(mm, job.modulus, job.mpand * job.mplier)

IInv == TypeOK /\ JobHeld /\ PartialProductQ

\* Where the multiplier may start: the operands admissible.
LEMMA StrobeEstablishes ==
  ASSUME Strobe
  PROVE  JobHeld' /\ PartialProductQ'
<1> USE RadixAssumption
<1>1. PICK o \in Operands : /\ Admissible(o)
                            /\ mm' = Load(o.mpand, o.mplier, o.modulus)
                            /\ job' = o
  BY DEF Strobe, Clock
<1>2. JobHeld'
  BY <1>1, LoadHolds DEF JobHeld, Admissible, Operands
<1>3. PartialProductQ'
  BY <1>1, LoadSums DEF PartialProductQ, Operands
<1>. QED BY <1>2, <1>3

\* An edge at which the unit works keeps the invariant of the running product.
LEMMA WorkPreserves ==
  ASSUME IInv, Work, job # NoJob
  PROVE  JobHeld' /\ PartialProductQ'
<1>1. PICK m \in Word \ {0} : m = job.modulus
  BY DEF IInv, TypeOK, Admissible, Operands
<1>2. /\ Held(mm, m) /\ ~ready(mm)
      /\ mm' = Clock(mm, FALSE, 0, 0, 0) /\ job' = job
  BY <1>1 DEF IInv, JobHeld, Work
<1>3. JobHeld'
  <2>1. Held(mm', m)
    BY <1>2, ClockHolds
  <2>. QED BY <1>1, <1>2, <2>1 DEF JobHeld
<1>4. PICK x \in Int : x = job.mpand * job.mplier
  BY RadixAssumption DEF IInv, TypeOK, Admissible, Operands, Word
<1>5. Sums(mm', m, x)
  <2>1. Sums(mm, m, x)
    BY <1>1, <1>4 DEF IInv, PartialProductQ
  <2>. QED BY <1>2, <2>1, ClockSums
<1>6. PartialProductQ'
  BY <1>1, <1>2, <1>4, <1>5 DEF PartialProductQ
<1>. QED BY <1>3, <1>6

\* After power-up there is no product to speak of.
LEMMA InitEstablishes == Init => IInv
  BY InitTypes DEF Init, IInv, JobHeld, PartialProductQ

\* Every step keeps the invariant.
LEMMA Inductive == IInv /\ [Next]_vars => IInv'
<1> SUFFICES ASSUME IInv, [Next]_vars
             PROVE  IInv'
  OBVIOUS
<1>0. TypeOK'
  BY TypeInductive DEF IInv
<1>1. CASE Strobe
  BY <1>0, <1>1, StrobeEstablishes DEF IInv
<1>2. CASE Work
  <2>1. CASE job # NoJob
    BY <1>0, <1>2, <2>1, WorkPreserves DEF IInv
  <2>2. CASE job = NoJob
    BY <1>0, <1>2, <2>2 DEF Work, IInv, JobHeld, PartialProductQ
  <2>. QED BY <2>1, <2>2
<1>3. CASE Restart
  BY <1>0, <1>3 DEF Restart, IInv, JobHeld, PartialProductQ
<1>4. CASE UNCHANGED vars
  BY <1>0, <1>4 DEF vars, IInv, JobHeld, PartialProductQ
<1>. QED BY <1>1, <1>2, <1>3, <1>4 DEF Next

\* The inductive invariant: registers in range, moduli loaded, partial product and
\* multiplicand reduced and congruent to what the job asks for.
THEOREM InvariantHolds == Spec => []IInv
  BY InitEstablishes, Inductive, PTL DEF Spec

\* For every width and every admissible job, the registers always hold a number
\* congruent to the product that was asked for (process combine of modmult.vhd).
THEOREM PartialProductCorrect == Spec => []PartialProduct
<1>1. IInv => PartialProduct
  <2> SUFFICES ASSUME IInv, job # NoJob
               PROVE  /\ (mm.prodreg + mm.mpreg * mm.mcreg) % job.modulus
                            = (job.mpand * job.mplier) % job.modulus
                      /\ ready(mm) => mm.mpreg = 0
    BY DEF PartialProduct
  <2>1. PICK q \in Int : job.mpand * job.mplier
                          = mm.prodreg + mm.mpreg * mm.mcreg + q * job.modulus
    BY DEF IInv, PartialProductQ, Sums
  <2>2. /\ job.modulus \in Nat \ {0} /\ job.mpand \in Nat /\ job.mplier \in Nat
        /\ mm.prodreg \in Nat /\ mm.mpreg \in Nat /\ mm.mcreg \in Nat
    BY RadixAssumption DEF IInv, TypeOK, Registers, Admissible, Operands, Word, WideWord
  <2>3. (job.mpand * job.mplier) % job.modulus
          = (mm.prodreg + mm.mpreg * mm.mcreg) % job.modulus
    <3>1. /\ job.mpand * job.mplier \in Int
          /\ mm.prodreg + mm.mpreg * mm.mcreg \in Int
      BY <2>2
    <3>. QED BY <2>1, <2>2, <3>1, SameRemainder
  <2>. QED BY <2>3 DEF IInv, JobHeld, Held
<1>. QED BY <1>1, InvariantHolds, PTL

-----------------------------------------------------------------------------
\* The refinement of StrobedUnit.

\* With no bit left, the product on the bus is the remainder asked for.
LEMMA FinalProduct ==
  ASSUME IInv, job # NoJob, mm.mpreg = 0
  PROVE  product(mm) = (job.mpand * job.mplier) % job.modulus
<1>1. PICK m \in Word \ {0} : m = job.modulus
  BY DEF IInv, TypeOK, Admissible, Operands
<1>2. PICK x \in Int : x = job.mpand * job.mplier
  BY RadixAssumption DEF IInv, TypeOK, Admissible, Operands, Word
<1>3. Held(mm, m) /\ Sums(mm, m, x)
  BY <1>1, <1>2 DEF IInv, JobHeld, PartialProductQ
<1>. QED BY <1>1, <1>2, <1>3, ProductOfSum

\* A clock edge is a step of StrobedUnit, or not seen by it.
LEMMA StepSimulation ==
  ASSUME IInv, [Next]_vars, TypeOK'
  PROVE  [Mul!Next]_Mul!vars
<1> USE DEF Mul!vars, Mul!Next
<1>0. mm \in Registers /\ mm' \in Registers
  BY DEF IInv, TypeOK
<1>1. CASE Strobe
  <2>1. PICK o \in Operands : /\ Admissible(o) /\ ready(mm)
                              /\ mm' = Load(o.mpand, o.mplier, o.modulus)
                              /\ job' = o
    BY <1>1 DEF Strobe, Clock
  <2>2. ~ready(mm')
    BY <2>1 DEF Load, ready
  <2>3. Mul!Start(o)
    BY <2>1, <2>2 DEF Mul!Start
  <2>. QED BY <2>1, <2>3
<1>2. CASE Work
  <2>1. CASE mm.mpreg # 0
    <3>1. mm' = Shift(mm) /\ ~ready(mm) /\ job' = job
      BY <1>2, <2>1 DEF Work, Clock
    <3>2. ~ready(mm')
      BY <1>0, <3>1 DEF Shift, ready, Registers
    <3>. QED BY <3>1, <3>2
  <2>2. CASE mm.mpreg = 0
    <3>1. /\ mm' = Idle(mm) /\ ~ready(mm) /\ job' = job
      BY <1>2, <2>2 DEF Work, Clock
    <3>2. ready(mm') /\ product(mm') = product(mm)
      BY <1>0, <3>1 DEF Idle, ready, product, Prodreg4, Prodreg3, Prodreg2, Prodreg1, Registers
    <3>3. CASE job # NoJob
      <4>1. product(mm') = (job.mpand * job.mplier) % job.modulus
        BY <2>2, <3>2, <3>3, FinalProduct
      <4>2. Mul!Complete
        BY <3>1, <3>2, <3>3, <4>1 DEF Mul!Complete, IInv, TypeOK, Admissible
      <4>. QED BY <4>2
    <3>4. CASE job = NoJob
      <4>1. product(mm') \in Word
        BY <1>0, CombinationalTypes
      <4>2. Mul!GiveUp
        BY <3>1, <3>2, <3>4, <4>1 DEF Mul!GiveUp
      <4>. QED BY <4>2
    <3>. QED BY <3>3, <3>4
  <2>. QED BY <2>1, <2>2
<1>3. CASE Restart
  <2>1. ready(mm') /\ job' = NoJob
    BY <1>0, <1>3 DEF Restart, Idle, ready, Registers
  <2>2. product(mm') \in Word
    BY <1>0, CombinationalTypes
  <2>3. Mul!GiveUp
    BY <2>1, <2>2 DEF Mul!GiveUp
  <2>. QED BY <2>3
<1>4. CASE UNCHANGED vars
  BY <1>4 DEF vars
<1>. QED BY <1>1, <1>2, <1>3, <1>4 DEF Next

\* For every width modmult implements the multiplier its clients rely on: it
\* answers the job it was strobed with, with the right remainder, and changes
\* neither while it is idle.
THEOREM ImplementsMultiplier == Spec => Mul!Safety
<1>1. Init => Mul!Init
  <2>1. Init => TypeOK /\ ready(mm) /\ job = NoJob
    BY InitTypes DEF Init, PowerUp, ready
  <2>. QED BY <2>1, CombinationalTypes DEF Mul!Init, TypeOK
<1>2. IInv /\ [Next]_vars /\ TypeOK' => [Mul!Next]_Mul!vars
  BY StepSimulation
<1>. QED BY <1>1, <1>2, InvariantHolds, TypeCorrect, PTL
            DEF Spec, Mul!Safety
=============================================================================
