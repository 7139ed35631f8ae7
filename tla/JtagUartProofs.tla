--------------------------- MODULE JtagUartProofs ---------------------------
(***************************************************************************)
(* Proofs about the driver of the JTAG UART, for rings, FIFOs and buffers  *)
(* of every size: no character is lost, doubled or overtaken, and no       *)
(* wakeup is lost.                                                         *)
(*                                                                         *)
(* The argument about the order follows each character by its distance     *)
(* from the oldest one on its way: what the program or the handler copies  *)
(* into a ring goes behind what the ring holds, because the length it      *)
(* computed from pointers that may have moved on since is at most what is  *)
(* free or held now.  The other side only moves the pointer in the         *)
(* direction that leaves more room, or more to read.                       *)
(***************************************************************************)
EXTENDS JtagUart, SequenceTheorems, TLAPS

-----------------------------------------------------------------------------
\* Remainders.

\* An integer is its quotient times the divisor and a remainder.
LEMMA DivMod ==
  ASSUME NEW m \in Nat \ {0}, NEW x \in Int
  PROVE  /\ x % m \in 0 .. m - 1
         /\ x \div m \in Int
         /\ x = m * (x \div m) + (x % m)
  OBVIOUS

\* Only one number from 0 to m - 1 differs from x by a multiple of m.
LEMMA RemainderIs ==
  ASSUME NEW m \in Nat \ {0}, NEW x \in Int, NEW q \in Int, NEW r \in 0 .. m - 1,
         x = m * q + r
  PROVE  x % m = r
<1> DEFINE k == (x \div m) - q
<1>1. x % m \in 0 .. m - 1 /\ k \in Int /\ m * k = r - (x % m)
  BY DivMod
<1> HIDE DEF k
<1>2. CASE k > 0
  <2>1. m * k >= m
    BY <1>1, <1>2
  <2>. QED BY <2>1, <1>1
<1>3. CASE k < 0
  <2>1. m * k <= -m
    BY <1>1, <1>3
  <2>. QED BY <2>1, <1>1
<1>. QED BY <1>1, <1>2, <1>3

\* A sum may be reduced before the last addition or after it.
LEMMA ModMod ==
  ASSUME NEW m \in Nat \ {0}, NEW x \in Int, NEW y \in Int
  PROVE  ((x % m) + y) % m = (x + y) % m
<1> DEFINE z == (x % m) + y
<1>1. z \in Int /\ z % m \in 0 .. m - 1 /\ z \div m \in Int /\ z = m * (z \div m) + (z % m)
  <2>1. z \in Int
    BY DivMod
  <2>. QED BY <2>1, DivMod
<1>2. x \div m \in Int /\ x = m * (x \div m) + (x % m) /\ x % m \in Int
  BY DivMod
<1>3. x + y = m * (x \div m) + z
  BY <1>2
<1> HIDE DEF z
<1>4. x + y = m * ((x \div m) + (z \div m)) + (z % m)
  BY <1>1, <1>2, <1>3
<1>5. (x + y) % m = z % m
  <2> DEFINE q == (x \div m) + (z \div m)
             r == z % m
  <2>1. q \in Int /\ r \in 0 .. m - 1 /\ x + y \in Int /\ x + y = m * q + r
    BY <1>1, <1>2, <1>4
  <2> HIDE DEF q, r
  <2>2. (x + y) % m = r
    BY <2>1, RemainderIs
  <2>. QED BY <2>2 DEF r
<1>. QED BY <1>5 DEF z

\* A step of at most m wraps at most once.
LEMMA ModStep ==
  ASSUME NEW m \in Nat \ {0}, NEW x \in 0 .. m - 1, NEW n \in 0 .. m
  PROVE  (x + n) % m = IF x + n < m THEN x + n ELSE x + n - m
<1>1. CASE x + n < m
  <2>1. x + n = m * 0 + (x + n)
    OBVIOUS
  <2>. QED BY <2>1, <1>1, RemainderIs
<1>2. CASE x + n >= m
  <2>1. x + n = m * 1 + (x + n - m)
    OBVIOUS
  <2>. QED BY <2>1, <1>2, RemainderIs
<1>. QED BY <1>1, <1>2

\* The distance from one remainder up to another.
LEMMA ModDifference ==
  ASSUME NEW m \in Nat \ {0}, NEW x \in 0 .. m - 1, NEW y \in 0 .. m - 1
  PROVE  (x - y) % m = IF x >= y THEN x - y ELSE x - y + m
<1>1. CASE x >= y
  <2>1. x - y = m * 0 + (x - y)
    OBVIOUS
  <2>. QED BY <2>1, <1>1, RemainderIs
<1>2. CASE x < y
  <2>1. x - y = m * (-1) + (x - y + m)
    OBVIOUS
  <2>. QED BY <2>1, <1>2, RemainderIs
<1>. QED BY <1>1, <1>2

-----------------------------------------------------------------------------
\* The rings.

\* A character is at a distance below BufLen from the oldest one.
LEMMA AdvanceIs ==
  ASSUME NEW i \in Slots, NEW n \in 0 .. BufLen
  PROVE  /\ Advance(i, n) \in Slots
         /\ Advance(i, n) = IF i + n < BufLen THEN i + n ELSE i + n - BufLen
<1>1. BufLen \in Nat \ {0} /\ i \in 0 .. BufLen - 1 /\ n \in 0 .. BufLen
  BY UartAssumption DEF Slots
<1>2. (i + n) % BufLen = IF i + n < BufLen THEN i + n ELSE i + n - BufLen
  BY <1>1, ModStep
<1>3. Advance(i, n) = IF i + n < BufLen THEN i + n ELSE i + n - BufLen
  BY <1>1, <1>2 DEF Advance
<1>. QED BY <1>1, <1>3 DEF Slots

\* The number of characters held, by the order of the two indices.
LEMMA HeldIs ==
  ASSUME NEW r \in Ring
  PROVE  /\ r.in \in Slots /\ r.out \in Slots
         /\ Held(r) \in 0 .. BufLen - 1
         /\ Held(r) = IF r.in >= r.out THEN r.in - r.out ELSE r.in - r.out + BufLen
         /\ r.in = Advance(r.out, Held(r))
         /\ Full(r) <=> Held(r) = BufLen - 1
<1>1. r.in \in Slots /\ r.out \in Slots
  BY DEF Ring
<1>2. /\ BufLen \in Nat \ {0} /\ BufLen - 1 \in Nat
      /\ r.in \in 0 .. BufLen - 1 /\ r.out \in 0 .. BufLen - 1
  BY <1>1, UartAssumption DEF Slots
<1>3. Held(r) = IF r.in >= r.out THEN r.in - r.out ELSE r.in - r.out + BufLen
  BY <1>2, ModDifference DEF Held
<1>4. Held(r) \in 0 .. BufLen - 1 /\ Held(r) \in 0 .. BufLen /\ 1 \in 0 .. BufLen
  BY <1>2, <1>3
<1>5. r.in = Advance(r.out, Held(r))
  <2>1. Advance(r.out, Held(r)) = IF r.out + Held(r) < BufLen THEN r.out + Held(r)
                                  ELSE r.out + Held(r) - BufLen
    BY <1>1, <1>4, AdvanceIs
  <2>. QED BY <2>1, <1>2, <1>3
<1>6. Full(r) <=> Held(r) = BufLen - 1
  <2>1. Advance(r.in, 1) = IF r.in + 1 < BufLen THEN r.in + 1 ELSE r.in + 1 - BufLen
    BY <1>1, <1>4, AdvanceIs
  <2>2. Advance(r.in, 1) = r.out <=> Held(r) = BufLen - 1
    BY <2>1, <1>2, <1>3
  <2>. QED BY <2>2 DEF Full
<1>. QED BY <1>1, <1>3, <1>4, <1>5, <1>6

\* Where the slot that is j places after out is, seen from in, when h slots are held
\* and there is room for len more.
LEMMA PlaceBehind ==
  ASSUME NEW B \in Nat, NEW in \in Int, NEW out \in Int, NEW h \in Int, NEW len \in Int,
         NEW j \in Int, NEW a \in Int, NEW b \in Int,
         0 <= in, in < B, 0 <= out, out < B, h + len <= B - 1, 0 <= j, j < h + len,
         h = IF in >= out THEN in - out ELSE in - out + B,
         a = IF out + j < B THEN out + j ELSE out + j - B,
         b = IF a >= in THEN a - in ELSE a - in + B
  PROVE  b = IF j < h THEN j - h + B ELSE j - h
<1>1. CASE in >= out
  BY <1>1
<1>2. CASE in < out
  BY <1>2
<1>. QED BY <1>1, <1>2

\* Behind what a ring holds, a sequence that fits goes in as it is, and what is
\* held stays where it is.
LEMMA PutIs ==
  ASSUME NEW r \in Ring, NEW s \in Seq(Num), Len(s) <= BufLen - 1 - Held(r)
  PROVE  /\ Put(r, s) \in Ring
         /\ Put(r, s).out = r.out
         /\ Held(Put(r, s)) = Held(r) + Len(s)
         /\ \A j \in 0 .. Held(r) - 1 :
              Put(r, s).buf[Advance(r.out, j)] = r.buf[Advance(r.out, j)]
         /\ \A j \in 0 .. Len(s) - 1 :
              Put(r, s).buf[Advance(r.out, Held(r) + j)] = s[j + 1]
<1> DEFINE buf == [i \in Slots |-> IF Behind(r, i) < Len(s) THEN s[Behind(r, i) + 1] ELSE r.buf[i]]
           p == [buf |-> buf, in |-> Advance(r.in, Len(s)), out |-> r.out]
<1>1. /\ r.buf \in [Slots -> Num] /\ r.in \in Slots /\ r.out \in Slots
      /\ r.in \in 0 .. BufLen - 1 /\ r.out \in 0 .. BufLen - 1
      /\ Len(s) \in 0 .. BufLen - 1 /\ Held(r) \in 0 .. BufLen - 1
      /\ Held(r) + Len(s) \in 0 .. BufLen - 1 /\ Len(s) \in 0 .. BufLen
      /\ BufLen \in Nat \ {0}
  <2>1. Held(r) \in 0 .. BufLen - 1 /\ r.in \in Slots /\ r.out \in Slots
    BY HeldIs
  <2>2. Len(s) \in Nat
    BY LenProperties
  <2>3. r.buf \in [Slots -> Num]
    BY DEF Ring
  <2>. QED BY <2>1, <2>2, <2>3, UartAssumption DEF Slots
<1>2. Put(r, s) = p
  BY DEF Put
<1>3. ASSUME NEW i \in Slots
      PROVE  /\ Behind(r, i) \in 0 .. BufLen - 1
             /\ Behind(r, i) = IF i >= r.in THEN i - r.in ELSE i - r.in + BufLen
  <2>1. i \in 0 .. BufLen - 1
    BY DEF Slots
  <2>2. Behind(r, i) = IF i >= r.in THEN i - r.in ELSE i - r.in + BufLen
    BY <2>1, <1>1, ModDifference DEF Behind
  <2>. QED BY <2>1, <2>2, <1>1
<1>4. p \in Ring
  <2>1. Advance(r.in, Len(s)) \in Slots
    BY <1>1, AdvanceIs
  <2>2. ASSUME NEW i \in Slots, Behind(r, i) < Len(s)
        PROVE  s[Behind(r, i) + 1] \in Num
    <3>1. Behind(r, i) + 1 \in 1 .. Len(s)
      BY <1>1, <1>3, <2>2
    <3>. QED BY <3>1, ElementOfSeq
  <2>3. buf \in [Slots -> Num]
    BY <2>2, <1>1
  <2>. HIDE DEF buf
  <2>. QED BY <2>1, <2>3, <1>1 DEF Ring
<1>5. Held(p) = Held(r) + Len(s)
  <2>1. p.in = Advance(r.in, Len(s)) /\ p.out = r.out
    OBVIOUS
  <2>. HIDE DEF p, buf
  <2>2. p.in = IF r.in + Len(s) < BufLen THEN r.in + Len(s) ELSE r.in + Len(s) - BufLen
    BY <2>1, <1>1, AdvanceIs
  <2>3. Held(p) = IF p.in >= p.out THEN p.in - p.out ELSE p.in - p.out + BufLen
    BY <1>4, HeldIs
  <2>4. Held(r) = IF r.in >= r.out THEN r.in - r.out ELSE r.in - r.out + BufLen
    BY HeldIs
  <2>5. /\ BufLen \in Nat /\ r.in \in 0 .. BufLen - 1 /\ r.out \in 0 .. BufLen - 1
        /\ Len(s) \in Nat /\ Held(r) + Len(s) <= BufLen - 1
    BY <1>1
  <2>6. CASE r.in >= r.out
    BY <2>1, <2>2, <2>3, <2>4, <2>5, <2>6
  <2>7. CASE r.in < r.out
    BY <2>1, <2>2, <2>3, <2>4, <2>5, <2>7
  <2>. QED BY <2>5, <2>6, <2>7
<1>6. ASSUME NEW j \in 0 .. Held(r) + Len(s) - 1
      PROVE  /\ Advance(r.out, j) \in Slots
             /\ Behind(r, Advance(r.out, j)) = IF j < Held(r) THEN j - Held(r) + BufLen ELSE j - Held(r)
  <2>1. j \in 0 .. BufLen
    BY <1>1
  <2>2. /\ Advance(r.out, j) \in Slots
        /\ Advance(r.out, j) = IF r.out + j < BufLen THEN r.out + j ELSE r.out + j - BufLen
    BY <2>1, <1>1, AdvanceIs
  <2>3. Held(r) = IF r.in >= r.out THEN r.in - r.out ELSE r.in - r.out + BufLen
    BY HeldIs
  <2>4. Behind(r, Advance(r.out, j)) = IF Advance(r.out, j) >= r.in THEN Advance(r.out, j) - r.in
                                       ELSE Advance(r.out, j) - r.in + BufLen
    BY <2>2, <1>3
  <2>5. /\ BufLen \in Nat /\ r.in \in 0 .. BufLen - 1 /\ r.out \in 0 .. BufLen - 1
        /\ Held(r) + Len(s) <= BufLen - 1 /\ Len(s) \in Nat /\ Held(r) \in Nat
        /\ j \in Nat /\ j < Held(r) + Len(s)
    BY <1>1
  <2>6. /\ r.in \in Int /\ r.out \in Int /\ Held(r) \in Int /\ Len(s) \in Int /\ j \in Int
        /\ Advance(r.out, j) \in Int
    BY <2>2, <2>5, <1>1 DEF Slots
  <2>7. Behind(r, Advance(r.out, j)) \in Int
    BY <2>2, <1>3
  <2>8. 0 <= r.in /\ r.in < BufLen /\ 0 <= r.out /\ r.out < BufLen /\ 0 <= j
    BY <2>5
  <2>9. Behind(r, Advance(r.out, j)) = IF j < Held(r) THEN j - Held(r) + BufLen ELSE j - Held(r)
    BY <2>2, <2>3, <2>4, <2>5, <2>6, <2>7, <2>8, PlaceBehind
  <2>. QED BY <2>2, <2>9
<1>7. \A j \in 0 .. Held(r) - 1 : p.buf[Advance(r.out, j)] = r.buf[Advance(r.out, j)]
  <2>1. ASSUME NEW j \in 0 .. Held(r) - 1
        PROVE  buf[Advance(r.out, j)] = r.buf[Advance(r.out, j)]
    <3>1. j \in 0 .. Held(r) + Len(s) - 1 /\ j < Held(r) /\ j - Held(r) + BufLen >= Len(s)
      BY <1>1
    <3>2. Advance(r.out, j) \in Slots /\ Behind(r, Advance(r.out, j)) = j - Held(r) + BufLen
      BY <3>1, <1>6
    <3>3. ~(Behind(r, Advance(r.out, j)) < Len(s))
      BY <3>1, <3>2, <1>1
    <3>. QED BY <3>2, <3>3
  <2>. HIDE DEF buf
  <2>. QED BY <2>1
<1>8. \A j \in 0 .. Len(s) - 1 : p.buf[Advance(r.out, Held(r) + j)] = s[j + 1]
  <2>1. ASSUME NEW j \in 0 .. Len(s) - 1
        PROVE  buf[Advance(r.out, Held(r) + j)] = s[j + 1]
    <3>1. /\ Held(r) + j \in 0 .. Held(r) + Len(s) - 1 /\ ~(Held(r) + j < Held(r))
          /\ (Held(r) + j) - Held(r) = j /\ j < Len(s)
      BY <1>1
    <3>2. Advance(r.out, Held(r) + j) \in Slots /\ Behind(r, Advance(r.out, Held(r) + j)) = j
      BY <3>1, <1>6
    <3>. QED BY <3>1, <3>2
  <2>. HIDE DEF buf
  <2>. QED BY <2>1
<1>9. p.out = r.out
  OBVIOUS
<1>. HIDE DEF p
<1>. QED BY <1>2, <1>4, <1>5, <1>7, <1>8, <1>9

\* With n characters taken out of a ring, the others are nearer by n.
LEMMA TakeIs ==
  ASSUME NEW r \in Ring, NEW n \in 0 .. Held(r), NEW t,
         t = [r EXCEPT !.out = Advance(@, n)]
  PROVE  /\ t \in Ring
         /\ t.buf = r.buf
         /\ Held(t) = Held(r) - n
         /\ \A j \in 0 .. Held(t) - 1 : Advance(t.out, j) = Advance(r.out, n + j)
<1>1. /\ r.in \in Slots /\ r.out \in Slots /\ BufLen \in Nat \ {0}
      /\ r.in \in 0 .. BufLen - 1 /\ r.out \in 0 .. BufLen - 1
      /\ Held(r) \in 0 .. BufLen - 1 /\ n \in 0 .. BufLen - 1 /\ n \in 0 .. BufLen
      /\ Held(r) = IF r.in >= r.out THEN r.in - r.out ELSE r.in - r.out + BufLen
  BY HeldIs, UartAssumption DEF Slots
<1>2. /\ Advance(r.out, n) \in Slots
      /\ Advance(r.out, n) = IF r.out + n < BufLen THEN r.out + n ELSE r.out + n - BufLen
  BY <1>1, AdvanceIs
<1>3. t \in Ring /\ t.buf = r.buf /\ t.in = r.in /\ t.out = Advance(r.out, n)
  BY <1>2 DEF Ring
<1>4. Held(t) = Held(r) - n
  <2>1. Held(t) = IF t.in >= t.out THEN t.in - t.out ELSE t.in - t.out + BufLen
    BY <1>3, HeldIs
  <2>. QED BY <2>1, <1>1, <1>2, <1>3
<1>5. ASSUME NEW j \in 0 .. Held(t) - 1
      PROVE  Advance(t.out, j) = Advance(r.out, n + j)
  <2>1. j \in 0 .. BufLen /\ n + j \in 0 .. BufLen
    BY <1>1, <1>4
  <2>2. Advance(t.out, j) = IF t.out + j < BufLen THEN t.out + j ELSE t.out + j - BufLen
    BY <2>1, <1>2, <1>3, AdvanceIs
  <2>3. Advance(r.out, n + j) = IF r.out + (n + j) < BufLen THEN r.out + (n + j)
                                ELSE r.out + (n + j) - BufLen
    BY <2>1, <1>1, AdvanceIs
  <2>. QED BY <2>1, <2>2, <2>3, <1>1, <1>2, <1>3, <1>4
<1>. QED BY <1>3, <1>4, <1>5

\* What the driver computes from the two indices is at most what is free or held.
LEMMA LengthsFit ==
  ASSUME NEW r \in Ring
  PROVE  /\ WriteLength(r.in, r.out) \in 0 .. BufLen - 1 - Held(r)
         /\ ReadLength(r.in, r.out) \in 0 .. Held(r)
         /\ ReadLength(r.in, r.out) = 0 => Held(r) = 0
<1>1. /\ BufLen \in Nat \ {0}
      /\ r.in \in 0 .. BufLen - 1 /\ r.out \in 0 .. BufLen - 1
      /\ Held(r) = IF r.in >= r.out THEN r.in - r.out ELSE r.in - r.out + BufLen
  BY HeldIs, UartAssumption DEF Slots
<1>. QED BY <1>1 DEF WriteLength, ReadLength

-----------------------------------------------------------------------------
\* Characters on their way.

\* The characters from number a on, up to number b, are in the FIFO and then in
\* the ring.
FifoThenRing(s, r, a, b) ==
  /\ \A i \in 1 .. Len(s) : s[i] = (a + i - 1) % Vals
  /\ \A j \in 0 .. Held(r) - 1 : r.buf[Advance(r.out, j)] = (a + Len(s) + j) % Vals
  /\ b = (a + Len(s) + Held(r)) % Vals

\* They are in the ring and then in the FIFO.
RingThenFifo(r, s, a, b) ==
  /\ \A j \in 0 .. Held(r) - 1 : r.buf[Advance(r.out, j)] = (a + j) % Vals
  /\ \A i \in 1 .. Len(s) : s[i] = (a + Held(r) + i - 1) % Vals
  /\ b = (a + Held(r) + Len(s)) % Vals

\* The characters of a call: as many as asked for, numbered from the next one on.
LEMMA NumbersAre ==
  ASSUME NEW a \in Int, NEW n \in Nat
  PROVE  /\ Numbers(a, n) \in Seq(Num)
         /\ Len(Numbers(a, n)) = n
         /\ \A i \in 1 .. n : Numbers(a, n)[i] = (a + i - 1) % Vals
<1>1. ASSUME NEW i \in 1 .. n
      PROVE  (a + i - 1) % Vals \in Num
  <2>1. a + i - 1 \in Int /\ Vals \in Nat \ {0}
    BY UartAssumption
  <2>. QED BY <2>1, DivMod DEF Num
<1>2. /\ Numbers(a, n) \in [1 .. n -> Num]
      /\ \A i \in 1 .. n : Numbers(a, n)[i] = (a + i - 1) % Vals
  BY <1>1 DEF Numbers
<1>3. Numbers(a, n) \in Seq(Num)
  BY <1>2
<1>4. Len(Numbers(a, n)) = n
  BY <1>2, <1>3, LenProperties
<1>. QED BY <1>2, <1>3, <1>4

\* The ring's characters, from the oldest to the latest.
LEMMA ContentsAre ==
  ASSUME NEW r \in Ring
  PROVE  /\ Contents(r) \in Seq(Num)
         /\ Len(Contents(r)) = Held(r)
         /\ \A i \in 1 .. Held(r) : Contents(r)[i] = r.buf[Advance(r.out, i - 1)]
<1>1. Held(r) \in 0 .. BufLen - 1 /\ r.out \in Slots /\ r.buf \in [Slots -> Num]
  BY HeldIs DEF Ring
<1>2. ASSUME NEW i \in 1 .. Held(r)
      PROVE  r.buf[Advance(r.out, i - 1)] \in Num
  <2>1. i - 1 \in 0 .. BufLen
    BY <1>1, UartAssumption
  <2>. QED BY <2>1, <1>1, AdvanceIs
<1>3. Contents(r) \in [1 .. Held(r) -> Num] /\ Held(r) \in Nat
  BY <1>1, <1>2 DEF Contents
<1>. QED BY <1>3 DEF Contents

\* WriteCopy: the next n numbers go behind the ring.
LEMMA WriteKeepsOrder ==
  ASSUME NEW s \in Seq(Num), NEW r \in Ring, NEW a \in Num, NEW b \in Num,
         FifoThenRing(s, r, a, b),
         NEW n \in 0 .. BufLen - 1 - Held(r)
  PROVE  /\ Put(r, Numbers(b, n)) \in Ring
         /\ Held(Put(r, Numbers(b, n))) = Held(r) + n
         /\ FifoThenRing(s, Put(r, Numbers(b, n)), a, (b + n) % Vals)
<1> DEFINE p == Put(r, Numbers(b, n))
<1>1. a \in Int /\ b \in Int /\ n \in Nat /\ Len(s) \in Nat /\ Held(r) \in Nat /\ Vals \in Nat \ {0}
  <2>1. Held(r) \in 0 .. BufLen - 1
    BY HeldIs
  <2>. QED BY <2>1, UartAssumption, LenProperties DEF Num
<1>2. /\ Numbers(b, n) \in Seq(Num) /\ Len(Numbers(b, n)) = n
      /\ \A i \in 1 .. n : Numbers(b, n)[i] = (b + i - 1) % Vals
  BY <1>1, NumbersAre
<1>3. /\ p \in Ring /\ p.out = r.out /\ Held(p) = Held(r) + n
      /\ \A j \in 0 .. Held(r) - 1 : p.buf[Advance(r.out, j)] = r.buf[Advance(r.out, j)]
      /\ \A j \in 0 .. n - 1 : p.buf[Advance(r.out, Held(r) + j)] = Numbers(b, n)[j + 1]
  <2>1. Len(Numbers(b, n)) <= BufLen - 1 - Held(r)
    BY <1>2
  <2>. QED BY <2>1, <1>2, PutIs
<1> HIDE DEF p
<1>4. b = (a + Len(s) + Held(r)) % Vals
  BY DEF FifoThenRing
<1>5. ASSUME NEW k \in Int
      PROVE  (b + k) % Vals = (a + Len(s) + Held(r) + k) % Vals
  <2>1. a + Len(s) + Held(r) \in Int
    BY <1>1
  <2>. QED BY <2>1, <1>1, <1>4, ModMod
<1>6. ASSUME NEW j \in 0 .. Held(p) - 1
      PROVE  p.buf[Advance(p.out, j)] = (a + Len(s) + j) % Vals
  <2>1. CASE j < Held(r)
    BY <2>1, <1>1, <1>3 DEF FifoThenRing
  <2>2. CASE j >= Held(r)
    <3> DEFINE k == j - Held(r)
    <3>1. /\ k \in 0 .. n - 1 /\ j = Held(r) + k
          /\ k + 1 \in 1 .. n /\ b + (k + 1) - 1 = b + k
          /\ a + Len(s) + Held(r) + k = a + Len(s) + j
      <4>1. Held(p) = Held(r) + n /\ Held(p) \in Nat
        BY <1>1, <1>3
      <4>2. j \in Nat /\ j < Held(r) + n
        BY <4>1
      <4>3. k \in 0 .. n - 1 /\ j = Held(r) + k /\ k \in Int
        BY <4>2, <2>2, <1>1
      <4>. HIDE DEF k
      <4>. QED BY <4>3, <1>1
    <3> HIDE DEF k
    <3>2. p.buf[Advance(p.out, j)] = Numbers(b, n)[k + 1]
      BY <3>1, <1>3
    <3>3. Numbers(b, n)[k + 1] = (b + k) % Vals
      BY <3>1, <1>2
    <3>4. (b + k) % Vals = (a + Len(s) + Held(r) + k) % Vals
      BY <3>1, <1>5
    <3>. QED BY <3>1, <3>2, <3>3, <3>4
  <2>. QED BY <2>1, <2>2, <1>1, <1>3
<1>7. (b + n) % Vals = (a + Len(s) + Held(p)) % Vals
  <2>1. a + Len(s) + Held(r) + n = a + Len(s) + Held(p)
    BY <1>1, <1>3
  <2>. QED BY <2>1, <1>1, <1>5
<1>8. FifoThenRing(s, p, a, (b + n) % Vals)
  BY <1>6, <1>7 DEF FifoThenRing
<1>. QED BY <1>3, <1>8 DEF p

\* Send: the n oldest characters of the ring go behind the FIFO.
LEMMA SendKeepsOrder ==
  ASSUME NEW s \in Seq(Num), NEW r \in Ring, NEW a \in Num, NEW b \in Num,
         FifoThenRing(s, r, a, b),
         NEW n \in 0 .. Held(r), NEW t, t = [r EXCEPT !.out = Advance(@, n)]
  PROVE  /\ t \in Ring /\ Held(t) = Held(r) - n
         /\ s \o SubSeq(Contents(r), 1, n) \in Seq(Num)
         /\ Len(s \o SubSeq(Contents(r), 1, n)) = Len(s) + n
         /\ FifoThenRing(s \o SubSeq(Contents(r), 1, n), t, a, b)
<1> DEFINE u == SubSeq(Contents(r), 1, n)
           v == s \o u
<1>1. a \in Int /\ n \in Nat /\ Len(s) \in Nat /\ Held(r) \in Nat
  <2>1. Held(r) \in 0 .. BufLen - 1
    BY HeldIs
  <2>. QED BY <2>1, LenProperties DEF Num
<1>2. /\ u \in Seq(Num) /\ Len(u) = n
      /\ \A i \in 1 .. n : u[i] = r.buf[Advance(r.out, i - 1)]
  <2>1. /\ Contents(r) \in Seq(Num) /\ Len(Contents(r)) = Held(r)
        /\ \A i \in 1 .. Held(r) : Contents(r)[i] = r.buf[Advance(r.out, i - 1)]
    BY ContentsAre
  <2>2. \A i \in 1 .. n : Contents(r)[i] \in Num
    BY <2>1, <1>1, ElementOfSeq
  <2>3. /\ u \in Seq(Num)
        /\ Len(u) = IF 1 <= n THEN n - 1 + 1 ELSE 0
        /\ \A i \in 1 .. n - 1 + 1 : u[i] = Contents(r)[1 + i - 1]
    BY <2>2, <1>1, SubSeqProperties
  <2>. HIDE DEF u
  <2>4. Len(u) = n
    BY <2>3, <1>1
  <2>5. ASSUME NEW i \in 1 .. n
        PROVE  u[i] = r.buf[Advance(r.out, i - 1)]
    <3>1. i \in 1 .. n - 1 + 1 /\ 1 + i - 1 = i /\ i \in 1 .. Held(r)
      BY <1>1
    <3>. QED BY <3>1, <2>1, <2>3
  <2>. QED BY <2>3, <2>4, <2>5
<1> HIDE DEF u
<1>3. /\ v \in Seq(Num) /\ Len(v) = Len(s) + n
      /\ \A i \in 1 .. Len(s) + n : v[i] = IF i <= Len(s) THEN s[i] ELSE u[i - Len(s)]
  BY <1>2, ConcatProperties
<1> HIDE DEF v
<1>4. /\ t \in Ring /\ t.buf = r.buf /\ Held(t) = Held(r) - n
      /\ \A j \in 0 .. Held(t) - 1 : Advance(t.out, j) = Advance(r.out, n + j)
  BY TakeIs, Zenon
<1>5. ASSUME NEW i \in 1 .. Len(v)
      PROVE  v[i] = (a + i - 1) % Vals
  <2>0. i \in 1 .. Len(s) + n
    BY <1>3
  <2>1. CASE i <= Len(s)
    <3>1. i \in 1 .. Len(s) /\ v[i] = s[i]
      BY <2>0, <2>1, <1>1, <1>3
    <3>. QED BY <3>1 DEF FifoThenRing
  <2>2. CASE i > Len(s)
    <3> DEFINE k == i - Len(s)
    <3>1. /\ k \in 1 .. n /\ i = Len(s) + k /\ k - 1 \in 0 .. Held(r) - 1
          /\ a + Len(s) + (k - 1) = a + i - 1
      BY <2>0, <2>2, <1>1
    <3>2. v[i] = u[k]
      BY <2>0, <2>2, <1>1, <1>3
    <3> HIDE DEF k
    <3>3. u[k] = r.buf[Advance(r.out, k - 1)]
      BY <3>1, <1>2
    <3>4. r.buf[Advance(r.out, k - 1)] = (a + Len(s) + (k - 1)) % Vals
      BY <3>1 DEF FifoThenRing
    <3>. QED BY <3>1, <3>2, <3>3, <3>4
  <2>. QED BY <2>1, <2>2, <1>1, <1>3
<1>6. ASSUME NEW j \in 0 .. Held(t) - 1
      PROVE  t.buf[Advance(t.out, j)] = (a + Len(v) + j) % Vals
  <2>1. n + j \in 0 .. Held(r) - 1 /\ a + Len(s) + (n + j) = a + Len(v) + j
    BY <1>1, <1>3, <1>4
  <2>2. t.buf[Advance(t.out, j)] = r.buf[Advance(r.out, n + j)]
    BY <1>4
  <2>3. r.buf[Advance(r.out, n + j)] = (a + Len(s) + (n + j)) % Vals
    BY <2>1 DEF FifoThenRing
  <2>. QED BY <2>1, <2>2, <2>3
<1>7. b = (a + Len(v) + Held(t)) % Vals
  <2>1. a + Len(v) + Held(t) = a + Len(s) + Held(r)
    BY <1>1, <1>3, <1>4
  <2>. QED BY <2>1 DEF FifoThenRing
<1>8. FifoThenRing(v, t, a, b)
  BY <1>5, <1>6, <1>7 DEF FifoThenRing
<1>. QED BY <1>3, <1>4, <1>8 DEF v, u

\* HostAccess: the oldest character leaves the FIFO.
LEMMA ShowKeepsOrder ==
  ASSUME NEW s \in Seq(Num), s # <<>>, NEW r \in Ring, NEW a \in Num, NEW b \in Num,
         FifoThenRing(s, r, a, b)
  PROVE  /\ Tail(s) \in Seq(Num) /\ Len(Tail(s)) = Len(s) - 1
         /\ FifoThenRing(Tail(s), r, (a + 1) % Vals, b)
<1>1. /\ a \in Int /\ Len(s) \in Nat /\ Held(r) \in Nat /\ Vals \in Nat \ {0}
      /\ Tail(s) \in Seq(Num) /\ Len(Tail(s)) = Len(s) - 1
      /\ \A i \in 1 .. Len(Tail(s)) : Tail(s)[i] = s[i + 1]
  <2>1. Held(r) \in 0 .. BufLen - 1
    BY HeldIs
  <2>2. /\ Tail(s) \in Seq(Num) /\ Len(Tail(s)) = Len(s) - 1
        /\ \A i \in 1 .. Len(Tail(s)) : Tail(s)[i] = s[i + 1]
    BY HeadTailProperties
  <2>. QED BY <2>1, <2>2, UartAssumption, LenProperties DEF Num
<1> DEFINE c == (a + 1) % Vals
<1>2. ASSUME NEW k \in Int
      PROVE  (c + k) % Vals = (a + 1 + k) % Vals
  <2>1. a + 1 \in Int
    BY <1>1
  <2>. QED BY <2>1, <1>1, ModMod
<1>3. c \in Int
  BY <1>1, DivMod
<1> HIDE DEF c
<1>4. ASSUME NEW i \in 1 .. Len(Tail(s))
      PROVE  Tail(s)[i] = (c + i - 1) % Vals
  <2>1. /\ i + 1 \in 1 .. Len(s) /\ a + (i + 1) - 1 = a + 1 + (i - 1)
        /\ i - 1 \in Int /\ c + i - 1 = c + (i - 1)
    BY <1>1, <1>3
  <2>2. s[i + 1] = (a + (i + 1) - 1) % Vals
    BY <2>1 DEF FifoThenRing
  <2>3. (c + (i - 1)) % Vals = (a + 1 + (i - 1)) % Vals
    BY <2>1, <1>2
  <2>. QED BY <2>1, <2>2, <2>3, <1>1
<1>5. ASSUME NEW j \in 0 .. Held(r) - 1
      PROVE  r.buf[Advance(r.out, j)] = (c + Len(Tail(s)) + j) % Vals
  <2>1. /\ a + Len(s) + j = a + 1 + (Len(Tail(s)) + j)
        /\ Len(Tail(s)) + j \in Int /\ c + Len(Tail(s)) + j = c + (Len(Tail(s)) + j)
    BY <1>1, <1>3
  <2>2. (c + (Len(Tail(s)) + j)) % Vals = (a + 1 + (Len(Tail(s)) + j)) % Vals
    BY <2>1, <1>2
  <2>3. r.buf[Advance(r.out, j)] = (a + Len(s) + j) % Vals
    BY DEF FifoThenRing
  <2>. QED BY <2>1, <2>2, <2>3
<1>6. b = (c + Len(Tail(s)) + Held(r)) % Vals
  <2>1. /\ a + Len(s) + Held(r) = a + 1 + (Len(Tail(s)) + Held(r))
        /\ Len(Tail(s)) + Held(r) \in Int
        /\ c + Len(Tail(s)) + Held(r) = c + (Len(Tail(s)) + Held(r))
    BY <1>1, <1>3
  <2>2. (c + (Len(Tail(s)) + Held(r))) % Vals = (a + 1 + (Len(Tail(s)) + Held(r))) % Vals
    BY <2>1, <1>2
  <2>. QED BY <2>1, <2>2 DEF FifoThenRing
<1>7. FifoThenRing(Tail(s), r, c, b)
  BY <1>4, <1>5, <1>6 DEF FifoThenRing
<1>. QED BY <1>1, <1>7 DEF c

\* HostAccess: the next character that is typed goes behind the FIFO.
LEMMA TypeKeepsOrder ==
  ASSUME NEW s \in Seq(Num), NEW r \in Ring, NEW a \in Num, NEW b \in Num,
         RingThenFifo(r, s, a, b)
  PROVE  /\ Append(s, b) \in Seq(Num) /\ Len(Append(s, b)) = Len(s) + 1
         /\ RingThenFifo(r, Append(s, b), a, (b + 1) % Vals)
<1> DEFINE v == Append(s, b)
<1>1. /\ a \in Int /\ Len(s) \in Nat /\ Held(r) \in Nat /\ Vals \in Nat \ {0}
      /\ v \in Seq(Num) /\ Len(v) = Len(s) + 1 /\ v[Len(s) + 1] = b
      /\ \A i \in 1 .. Len(s) : v[i] = s[i]
  <2>1. Held(r) \in 0 .. BufLen - 1
    BY HeldIs
  <2>2. /\ v \in Seq(Num) /\ Len(v) = Len(s) + 1 /\ v[Len(s) + 1] = b
        /\ \A i \in 1 .. Len(s) : v[i] = s[i]
    BY AppendProperties
  <2>. QED BY <2>1, <2>2, UartAssumption, LenProperties DEF Num
<1> HIDE DEF v
<1>2. b = (a + Held(r) + Len(s)) % Vals
  BY DEF RingThenFifo
<1>3. ASSUME NEW i \in 1 .. Len(v)
      PROVE  v[i] = (a + Held(r) + i - 1) % Vals
  <2>1. CASE i = Len(s) + 1
    <3>1. a + Held(r) + i - 1 = a + Held(r) + Len(s)
      BY <2>1, <1>1
    <3>. QED BY <3>1, <2>1, <1>1, <1>2
  <2>2. CASE i # Len(s) + 1
    <3>1. i \in 1 .. Len(s)
      BY <2>2, <1>1
    <3>. QED BY <3>1, <1>1 DEF RingThenFifo
  <2>. QED BY <2>1, <2>2
<1>4. (b + 1) % Vals = (a + Held(r) + Len(v)) % Vals
  <2> DEFINE x == a + Held(r) + Len(s)
  <2>1. x \in Int /\ x + 1 = a + Held(r) + Len(v) /\ b = x % Vals
    BY <1>1, <1>2
  <2> HIDE DEF x
  <2>2. 1 \in Int /\ Vals \in Nat \ {0}
    BY <1>1
  <2>3. ((x % Vals) + 1) % Vals = (x + 1) % Vals
    BY <2>1, <2>2, ModMod
  <2>. QED BY <2>1, <2>3
<1>5. RingThenFifo(r, v, a, (b + 1) % Vals)
  BY <1>3, <1>4 DEF RingThenFifo
<1>. QED BY <1>1, <1>5 DEF v

\* Poll: the n oldest characters of the FIFO go behind the ring.
LEMMA ReceiveKeepsOrder ==
  ASSUME NEW s \in Seq(Num), NEW r \in Ring, NEW a \in Num, NEW b \in Num,
         RingThenFifo(r, s, a, b),
         NEW n \in 0 .. BufLen - 1 - Held(r), n <= Len(s)
  PROVE  /\ Put(r, SubSeq(s, 1, n)) \in Ring
         /\ Held(Put(r, SubSeq(s, 1, n))) = Held(r) + n
         /\ SubSeq(s, n + 1, Len(s)) \in Seq(Num)
         /\ Len(SubSeq(s, n + 1, Len(s))) = Len(s) - n
         /\ RingThenFifo(Put(r, SubSeq(s, 1, n)), SubSeq(s, n + 1, Len(s)), a, b)
<1> DEFINE u == SubSeq(s, 1, n)
           v == SubSeq(s, n + 1, Len(s))
           p == Put(r, u)
<1>1. a \in Int /\ n \in Nat /\ Len(s) \in Nat /\ Held(r) \in Nat
  <2>1. Held(r) \in 0 .. BufLen - 1
    BY HeldIs
  <2>. QED BY <2>1, UartAssumption, LenProperties DEF Num
<1>2. \A i \in 1 .. Len(s) : s[i] \in Num
  BY ElementOfSeq
<1>3. u \in Seq(Num) /\ Len(u) = n /\ \A i \in 1 .. n : u[i] = s[i]
  <2>1. \A i \in 1 .. n : s[i] \in Num
    BY <1>1, <1>2
  <2>2. /\ u \in Seq(Num)
        /\ Len(u) = IF 1 <= n THEN n - 1 + 1 ELSE 0
        /\ \A i \in 1 .. n - 1 + 1 : u[i] = s[1 + i - 1]
    BY <2>1, <1>1, SubSeqProperties
  <2>. HIDE DEF u
  <2>3. n - 1 + 1 = n /\ \A i \in 1 .. n : 1 + i - 1 = i
    BY <1>1
  <2>. QED BY <2>2, <2>3, <1>1
<1>4. /\ v \in Seq(Num) /\ Len(v) = Len(s) - n
      /\ \A i \in 1 .. Len(v) : v[i] = s[n + i]
  <2>1. \A i \in n + 1 .. Len(s) : s[i] \in Num
    BY <1>1, <1>2
  <2>2. /\ v \in Seq(Num)
        /\ Len(v) = IF n + 1 <= Len(s) THEN Len(s) - (n + 1) + 1 ELSE 0
        /\ \A i \in 1 .. Len(s) - (n + 1) + 1 : v[i] = s[n + 1 + i - 1]
    BY <2>1, <1>1, SubSeqProperties
  <2>. HIDE DEF v
  <2>3. Len(s) - (n + 1) + 1 = Len(s) - n /\ \A i \in Int : n + 1 + i - 1 = n + i
    BY <1>1
  <2>4. Len(v) = Len(s) - n
    BY <2>2, <1>1
  <2>5. ASSUME NEW i \in 1 .. Len(v)
        PROVE  v[i] = s[n + i]
    <3>1. i \in 1 .. Len(s) - (n + 1) + 1 /\ n + 1 + i - 1 = n + i
      BY <2>3, <2>4
    <3>2. v[i] = s[n + 1 + i - 1]
      BY <2>2, <3>1
    <3>. QED BY <3>1, <3>2
  <2>. QED BY <2>2, <2>4, <2>5
<1> HIDE DEF u, v
<1>5. /\ p \in Ring /\ p.out = r.out /\ Held(p) = Held(r) + n
      /\ \A j \in 0 .. Held(r) - 1 : p.buf[Advance(r.out, j)] = r.buf[Advance(r.out, j)]
      /\ \A j \in 0 .. n - 1 : p.buf[Advance(r.out, Held(r) + j)] = u[j + 1]
  <2>1. Len(u) <= BufLen - 1 - Held(r)
    BY <1>3
  <2>. QED BY <2>1, <1>3, PutIs
<1> HIDE DEF p
<1>6. ASSUME NEW j \in 0 .. Held(p) - 1
      PROVE  p.buf[Advance(p.out, j)] = (a + j) % Vals
  <2>0. Held(p) = Held(r) + n /\ Held(p) \in Nat
    BY <1>1, <1>5
  <2>1. CASE j < Held(r)
    <3>1. j \in 0 .. Held(r) - 1
      BY <2>0, <2>1, <1>1
    <3>. QED BY <3>1, <1>5 DEF RingThenFifo
  <2>2. CASE j >= Held(r)
    <3> DEFINE k == j - Held(r)
    <3>1. k \in 0 .. n - 1 /\ j = Held(r) + k
      BY <2>0, <2>2, <1>1
    <3> HIDE DEF k
    <3>2. k + 1 \in 1 .. n /\ k + 1 \in 1 .. Len(s) /\ a + Held(r) + (k + 1) - 1 = a + j
      BY <3>1, <1>1
    <3>3. p.buf[Advance(p.out, j)] = s[k + 1]
      BY <3>1, <3>2, <1>3, <1>5
    <3>4. s[k + 1] = (a + Held(r) + (k + 1) - 1) % Vals
      BY <3>2 DEF RingThenFifo
    <3>. QED BY <3>2, <3>3, <3>4
  <2>. QED BY <2>0, <2>1, <2>2, <1>1
<1>7. ASSUME NEW i \in 1 .. Len(v)
      PROVE  v[i] = (a + Held(p) + i - 1) % Vals
  <2>1. /\ n + i \in 1 .. Len(s)
        /\ a + Held(r) + (n + i) - 1 = a + Held(p) + i - 1
    BY <1>1, <1>4, <1>5
  <2>2. s[n + i] = (a + Held(r) + (n + i) - 1) % Vals
    BY <2>1 DEF RingThenFifo
  <2>. QED BY <2>1, <2>2, <1>4
<1>8. b = (a + Held(p) + Len(v)) % Vals
  <2>1. a + Held(p) + Len(v) = a + Held(r) + Len(s)
    BY <1>1, <1>4, <1>5
  <2>. QED BY <2>1 DEF RingThenFifo
<1>9. RingThenFifo(p, v, a, b)
  BY <1>6, <1>7, <1>8 DEF RingThenFifo
<1>. QED BY <1>4, <1>5, <1>9 DEF p, u, v

\* ReadCopy: the n oldest characters of the ring go to the program.
LEMMA ReadKeepsOrder ==
  ASSUME NEW s \in Seq(Num), NEW r \in Ring, NEW a \in Num, NEW b \in Num,
         RingThenFifo(r, s, a, b),
         NEW n \in 0 .. Held(r), NEW t, t = [r EXCEPT !.out = Advance(@, n)]
  PROVE  /\ t \in Ring /\ Held(t) = Held(r) - n
         /\ RingThenFifo(t, s, (a + n) % Vals, b)
<1>1. /\ a \in Int /\ n \in Nat /\ Len(s) \in Nat /\ Held(r) \in Nat /\ Vals \in Nat \ {0}
      /\ n <= Held(r)
  <2>1. Held(r) \in 0 .. BufLen - 1
    BY HeldIs
  <2>. QED BY <2>1, UartAssumption, LenProperties DEF Num
<1> DEFINE c == (a + n) % Vals
<1>2. ASSUME NEW k \in Int
      PROVE  (c + k) % Vals = (a + n + k) % Vals
  <2>1. a + n \in Int
    BY <1>1
  <2>. QED BY <2>1, <1>1, ModMod
<1>3. c \in Int
  BY <1>1, DivMod
<1> HIDE DEF c
<1>4. /\ t \in Ring /\ t.buf = r.buf /\ Held(t) = Held(r) - n
      /\ \A j \in 0 .. Held(t) - 1 : Advance(t.out, j) = Advance(r.out, n + j)
  BY TakeIs, Zenon
<1>5. ASSUME NEW j \in 0 .. Held(t) - 1
      PROVE  t.buf[Advance(t.out, j)] = (c + j) % Vals
  <2>1. n + j \in 0 .. Held(r) - 1 /\ a + (n + j) = a + n + j
    BY <1>1, <1>4
  <2>2. t.buf[Advance(t.out, j)] = r.buf[Advance(r.out, n + j)]
    BY <1>4
  <2>3. r.buf[Advance(r.out, n + j)] = (a + (n + j)) % Vals
    BY <2>1 DEF RingThenFifo
  <2>4. (c + j) % Vals = (a + n + j) % Vals
    BY <1>2
  <2>. QED BY <2>1, <2>2, <2>3, <2>4
<1>6. ASSUME NEW i \in 1 .. Len(s)
      PROVE  s[i] = (c + Held(t) + i - 1) % Vals
  <2>1. /\ Held(t) + i - 1 \in Int /\ c + (Held(t) + i - 1) = c + Held(t) + i - 1
        /\ a + n + (Held(t) + i - 1) = a + Held(r) + i - 1
    BY <1>1, <1>3, <1>4
  <2>2. s[i] = (a + Held(r) + i - 1) % Vals
    BY DEF RingThenFifo
  <2>3. (c + (Held(t) + i - 1)) % Vals = (a + n + (Held(t) + i - 1)) % Vals
    BY <2>1, <1>2
  <2>. QED BY <2>1, <2>2, <2>3
<1>7. b = (c + Held(t) + Len(s)) % Vals
  <2>1. /\ Held(t) + Len(s) \in Int /\ c + (Held(t) + Len(s)) = c + Held(t) + Len(s)
        /\ a + n + (Held(t) + Len(s)) = a + Held(r) + Len(s)
    BY <1>1, <1>3, <1>4
  <2>2. (c + (Held(t) + Len(s))) % Vals = (a + n + (Held(t) + Len(s))) % Vals
    BY <2>1, <1>2
  <2>. QED BY <2>1, <2>2 DEF RingThenFifo
<1>8. RingThenFifo(t, s, c, b)
  BY <1>5, <1>6, <1>7 DEF RingThenFifo
<1>. QED BY <1>4, <1>8 DEF c

\* Fewer than Vals characters are on their way, so that their number is the
\* difference of the numbers of the first and of the next one.
LEMMA DifferenceIs ==
  ASSUME NEW a \in Num, NEW k \in 0 .. Vals - 1
  PROVE  (((a + k) % Vals) - a) % Vals = k
<1>1. Vals \in Nat \ {0} /\ a \in 0 .. Vals - 1 /\ k \in 0 .. Vals /\ a \in Int
  BY UartAssumption DEF Num
<1> DEFINE b == (a + k) % Vals
<1>2. b = IF a + k < Vals THEN a + k ELSE a + k - Vals
  BY <1>1, ModStep
<1>3. b \in 0 .. Vals - 1
  BY <1>1, <1>2
<1> HIDE DEF b
<1>4. (b - a) % Vals = IF b >= a THEN b - a ELSE b - a + Vals
  BY <1>1, <1>3, ModDifference
<1>5. (b - a) % Vals = k
  BY <1>1, <1>2, <1>3, <1>4
<1>. QED BY <1>5 DEF b

\* A sequence of characters numbered from a on, by its elements.
LEMMA SequenceIs ==
  ASSUME NEW s \in Seq(Num), NEW a \in Num, NEW b,
         \A i \in 1 .. Len(s) : s[i] = (a + i - 1) % Vals,
         b = (a + Len(s)) % Vals, Len(s) < Vals
  PROVE  s = Numbers(a, (b - a) % Vals)
<1>1. Len(s) \in 0 .. Vals - 1 /\ Len(s) \in Nat /\ a \in Int
  BY LenProperties, UartAssumption DEF Num
<1>2. (b - a) % Vals = Len(s)
  BY <1>1, DifferenceIs
<1>3. /\ Numbers(a, Len(s)) \in Seq(Num) /\ Len(Numbers(a, Len(s))) = Len(s)
      /\ \A i \in 1 .. Len(s) : Numbers(a, Len(s))[i] = (a + i - 1) % Vals
  BY <1>1, NumbersAre
<1>4. s = Numbers(a, Len(s))
  BY <1>3, SeqEqual
<1>. QED BY <1>2, <1>4

\* What the order by elements says of the characters to be shown, as a sequence.
LEMMA TransmitSequence ==
  ASSUME NEW s \in Seq(Num), Len(s) <= Depth, NEW r \in Ring, NEW a \in Num, NEW b,
         FifoThenRing(s, r, a, b)
  PROVE  s \o Contents(r) = Numbers(a, (b - a) % Vals)
<1> DEFINE u == Contents(r)
           v == s \o u
<1>1. /\ u \in Seq(Num) /\ Len(u) = Held(r)
      /\ \A i \in 1 .. Held(r) : u[i] = r.buf[Advance(r.out, i - 1)]
  BY ContentsAre
<1> HIDE DEF u
<1>2. /\ v \in Seq(Num) /\ Len(v) = Len(s) + Held(r)
      /\ \A i \in 1 .. Len(s) + Held(r) : v[i] = IF i <= Len(s) THEN s[i] ELSE u[i - Len(s)]
  BY <1>1, ConcatProperties, SMTT(30)
<1> HIDE DEF v
<1>3. Len(s) \in Nat /\ Held(r) \in 0 .. BufLen - 1 /\ Held(r) \in Nat /\ a \in Int
  <2>1. Held(r) \in 0 .. BufLen - 1
    BY HeldIs
  <2>. QED BY <2>1, LenProperties DEF Num
<1>4. ASSUME NEW i \in 1 .. Len(v)
      PROVE  v[i] = (a + i - 1) % Vals
  <2>0. i \in 1 .. Len(s) + Held(r)
    BY <1>2
  <2>1. CASE i <= Len(s)
    <3>1. i \in 1 .. Len(s) /\ v[i] = s[i]
      BY <2>0, <2>1, <1>2, <1>3
    <3>. QED BY <3>1 DEF FifoThenRing
  <2>2. CASE i > Len(s)
    <3> DEFINE k == i - Len(s)
    <3>1. /\ k \in 1 .. Held(r) /\ k - 1 \in 0 .. Held(r) - 1
          /\ a + Len(s) + (k - 1) = a + i - 1
      BY <2>0, <2>2, <1>3
    <3>2. v[i] = u[k]
      BY <2>0, <2>2, <1>2, <1>3
    <3> HIDE DEF k
    <3>3. u[k] = r.buf[Advance(r.out, k - 1)]
      BY <3>1, <1>1
    <3>4. r.buf[Advance(r.out, k - 1)] = (a + Len(s) + (k - 1)) % Vals
      BY <3>1 DEF FifoThenRing
    <3>. QED BY <3>1, <3>2, <3>3, <3>4
  <2>. QED BY <2>0, <2>1, <2>2, <1>3
<1>5. b = (a + Len(v)) % Vals
  <2>1. a + Len(v) = a + Len(s) + Held(r)
    BY <1>2, <1>3
  <2>. QED BY <2>1 DEF FifoThenRing
<1>6. Len(v) < Vals
  BY <1>2, <1>3, UartAssumption
<1>7. v = Numbers(a, (b - a) % Vals)
  BY <1>2, <1>4, <1>5, <1>6, SequenceIs
<1>. QED BY <1>7 DEF v, u

\* And of the characters to be read.
LEMMA ReceiveSequence ==
  ASSUME NEW s \in Seq(Num), Len(s) <= Depth, NEW r \in Ring, NEW a \in Num, NEW b,
         RingThenFifo(r, s, a, b)
  PROVE  Contents(r) \o s = Numbers(a, (b - a) % Vals)
<1> DEFINE u == Contents(r)
           v == u \o s
<1>1. /\ u \in Seq(Num) /\ Len(u) = Held(r)
      /\ \A i \in 1 .. Held(r) : u[i] = r.buf[Advance(r.out, i - 1)]
  BY ContentsAre
<1> HIDE DEF u
<1>2. /\ v \in Seq(Num) /\ Len(v) = Held(r) + Len(s)
      /\ \A i \in 1 .. Held(r) + Len(s) : v[i] = IF i <= Held(r) THEN u[i] ELSE s[i - Held(r)]
  <2>1. /\ v \in Seq(Num) /\ Len(v) = Len(u) + Len(s)
        /\ \A i \in 1 .. Len(u) + Len(s) : v[i] = IF i <= Len(u) THEN u[i] ELSE s[i - Len(u)]
    BY <1>1, ConcatProperties
  <2>. HIDE DEF v
  <2>. QED BY <2>1, <1>1
<1> HIDE DEF v
<1>3. Len(s) \in Nat /\ Held(r) \in 0 .. BufLen - 1 /\ Held(r) \in Nat /\ a \in Int
  <2>1. Held(r) \in 0 .. BufLen - 1
    BY HeldIs
  <2>. QED BY <2>1, LenProperties DEF Num
<1>4. ASSUME NEW i \in 1 .. Len(v)
      PROVE  v[i] = (a + i - 1) % Vals
  <2>0. i \in 1 .. Held(r) + Len(s)
    BY <1>2
  <2>1. CASE i <= Held(r)
    <3>1. i \in 1 .. Held(r) /\ i - 1 \in 0 .. Held(r) - 1 /\ a + (i - 1) = a + i - 1
      BY <2>0, <2>1, <1>3
    <3>2. v[i] = u[i]
      BY <2>0, <2>1, <1>2
    <3>3. u[i] = r.buf[Advance(r.out, i - 1)]
      BY <3>1, <1>1
    <3>4. r.buf[Advance(r.out, i - 1)] = (a + (i - 1)) % Vals
      BY <3>1 DEF RingThenFifo
    <3>. QED BY <3>1, <3>2, <3>3, <3>4
  <2>2. CASE i > Held(r)
    <3> DEFINE k == i - Held(r)
    <3>1. k \in 1 .. Len(s) /\ a + Held(r) + k - 1 = a + i - 1
      BY <2>0, <2>2, <1>3
    <3>2. v[i] = s[k]
      BY <2>0, <2>2, <1>2, <1>3
    <3> HIDE DEF k
    <3>3. s[k] = (a + Held(r) + k - 1) % Vals
      BY <3>1 DEF RingThenFifo
    <3>. QED BY <3>1, <3>2, <3>3
  <2>. QED BY <2>0, <2>1, <2>2, <1>3
<1>5. b = (a + Len(v)) % Vals
  <2>1. a + Len(v) = a + Held(r) + Len(s)
    BY <1>2, <1>3
  <2>. QED BY <2>1 DEF RingThenFifo
<1>6. Len(v) < Vals
  BY <1>2, <1>3, UartAssumption
<1>7. v = Numbers(a, (b - a) % Vals)
  BY <1>2, <1>4, <1>5, <1>6, SequenceIs
<1>. QED BY <1>7 DEF v, u

-----------------------------------------------------------------------------
(***************************************************************************)
(* The inductive invariant.  A call that has computed a length still finds *)
(* as much free, or held, when it copies; the handler still finds in the   *)
(* FIFO of the device the space it read.  Only a read that has taken       *)
(* something out leaves the receiver's interrupt to be enabled by itself.  *)
(***************************************************************************)
CallFits ==
  /\ call.at = "put" => call.n <= call.count /\ call.n <= BufLen - 1 - Held(tx)
  /\ call.at = "get" => call.n <= call.count /\ call.n <= Held(rx)
  /\ call.some => call.at \in {"read", "get", "arm"}

SpaceFits == isr.at = "send" => isr.space <= Depth - Len(fifo.tx)

Enabled ==
  /\ enable = control \ {"AC"}
  /\ Held(tx) > 0 => "WE" \in enable \/ call.at \in {"write", "put", "kick"}
  /\ Held(rx) < BufLen - 1 => "RE" \in enable \/ call.some

\* What has been written and not shown is in the FIFO and, behind it, in the ring.
TransmitOrder == FifoThenRing(fifo.tx, tx, seqno["shown"], seqno["written"])

\* What has been typed and not read is in the ring and, behind it, in the FIFO.
ReceiveOrder == RingThenFifo(rx, fifo.rx, seqno["read"], seqno["typed"])

IInv == TypeOK /\ CallFits /\ SpaceFits /\ Enabled /\ TransmitOrder /\ ReceiveOrder

-----------------------------------------------------------------------------
\* The driver and the UART as they are left by the initialisation.
LEMMA InitIInv == Init => IInv
<1> SUFFICES ASSUME Init PROVE IInv
  OBVIOUS
<1>1. 0 \in Slots /\ 0 \in Num /\ EmptyRing \in Ring
  BY UartAssumption DEF Slots, Num, EmptyRing, Ring
<1>2. Held(EmptyRing) = 0
  <2>1. EmptyRing.in = 0 /\ EmptyRing.out = 0
    BY DEF EmptyRing
  <2>. QED BY <2>1, <1>1, HeldIs
<1>3. /\ fifo.rx = <<>> /\ fifo.tx = <<>> /\ Len(<<>>) = 0 /\ <<>> \in Seq(Num)
      /\ seqno["written"] = 0 /\ seqno["shown"] = 0 /\ seqno["typed"] = 0 /\ seqno["read"] = 0
  BY EmptySeq DEF Init
<1>4. TypeOK
  BY <1>1, <1>3, UartAssumption DEF Init, TypeOK, NoIsr, NoCall, Locals, Places
<1>5. CallFits /\ SpaceFits /\ Enabled
  BY <1>2, UartAssumption DEF Init, CallFits, SpaceFits, Enabled, NoIsr, NoCall
<1>6. 0 = 0 % Vals /\ 0 + 0 + 0 = 0
  BY UartAssumption
<1>7. TransmitOrder
  BY <1>2, <1>3, <1>6 DEF Init, TransmitOrder, FifoThenRing
<1>8. ReceiveOrder
  BY <1>2, <1>3, <1>6 DEF Init, ReceiveOrder, RingThenFifo
<1>. QED BY <1>4, <1>5, <1>7, <1>8 DEF IInv

\* What is on its way stays in order when nobody touches the rings, the FIFOs or
\* the numbers.
LEMMA SameOrder ==
  ASSUME IInv, UNCHANGED <<fifo, rx, tx, seqno>>
  PROVE  TransmitOrder' /\ ReceiveOrder'
  BY DEF IInv, TransmitOrder, ReceiveOrder, FifoThenRing, RingThenFifo

\* What the control register and irq_enable hold after a section that writes both.
LEMMA SetEnableIs ==
  ASSUME TypeOK, NEW e, e \subseteq {"RE", "WE"}, SetEnable(e)
  PROVE  /\ control' \subseteq {"RE", "WE", "AC"}
         /\ enable' \subseteq {"RE", "WE"}
         /\ enable' = e /\ enable' = control' \ {"AC"}
  BY DEF TypeOK, SetEnable

\* A call begins.
LEMMA CallIInv ==
  ASSUME IInv, NEW b \in BOOLEAN, NEW at \in {"write", "read", "close"},
         NEW n \in 0 .. MaxCount, Call(at, n, b)
  PROVE  IInv'
<1>1. /\ call' = [at |-> at, count |-> n, some |-> FALSE, nonblock |-> b, seen |-> 0, n |-> 0]
      /\ call.at = "idle"
  BY DEF Call, NoCall
<1>2. UNCHANGED <<fifo, control, enable, rx, tx, inactive, timeout, ticking, isr, seqno>>
  BY DEF Call
<1>3. TypeOK'
  <2>1. 0 \in Slots
    BY UartAssumption DEF Slots
  <2>. QED BY <1>1, <1>2, <2>1 DEF IInv, TypeOK, Locals, Places
<1>4. CallFits' /\ SpaceFits'
  BY <1>1, <1>2 DEF IInv, CallFits, SpaceFits
<1>5. Enabled'
  BY <1>1, <1>2 DEF IInv, Enabled, CallFits
<1>. QED BY <1>2, <1>3, <1>4, <1>5, SameOrder DEF IInv

\* A call returns: a read that has taken something has seen to its interrupt, a
\* write has started the transmitter.
LEMMA ReturnIInv ==
  ASSUME IInv, Return, isr = NoIsr,
         UNCHANGED <<fifo, rx, tx, inactive, timeout, ticking, isr, seqno>>,
         control' \subseteq {"RE", "WE", "AC"}, enable' \subseteq {"RE", "WE"},
         enable' = control' \ {"AC"}, enable \subseteq enable',
         call.some => "RE" \in enable',
         call.at \in {"write", "put", "kick"} => "WE" \in enable'
  PROVE  IInv'
<1>1. call' = [at |-> "idle", count |-> 0, some |-> FALSE, nonblock |-> FALSE, seen |-> 0, n |-> 0]
  BY DEF Return, NoCall
<1>2. TypeOK'
  <2>1. 0 \in Slots /\ 0 \in 0 .. MaxCount
    BY UartAssumption DEF Slots
  <2>. QED BY <1>1, <2>1 DEF IInv, TypeOK, Locals, Places
<1>3. CallFits' /\ SpaceFits'
  BY <1>1 DEF IInv, CallFits, SpaceFits
<1>4. Enabled'
  BY <1>1 DEF IInv, Enabled
<1>. QED BY <1>2, <1>3, <1>4, SameOrder DEF IInv

\* A call goes on from one place to another.
LEMMA MoveIInv ==
  ASSUME IInv,
         UNCHANGED <<fifo, control, enable, rx, tx, inactive, timeout, ticking, isr, seqno>>,
         call' \in Locals,
         CallFits', call.some => call'.some,
         \/ call'.at \in {"write", "put", "kick"}
         \/ call.at \notin {"write", "put", "kick"}
         \/ "WE" \in enable
  PROVE  IInv'
<1>1. TypeOK'
  BY DEF IInv, TypeOK
<1>2. SpaceFits'
  BY DEF IInv, SpaceFits
<1>3. Enabled'
  BY DEF IInv, Enabled
<1>. QED BY <1>1, <1>2, <1>3, SameOrder DEF IInv

\* The writer reads the indices and picks a run,
LEMMA WriteLoadIInv ==
  ASSUME IInv, WriteLoad
  PROVE  IInv'
<1> DEFINE w == WriteLength(tx.in, tx.out)
           n == IF call.count = 0 THEN 0 ELSE Lesser(w, call.count)
<1>1. /\ UNCHANGED <<fifo, control, enable, rx, tx, inactive, timeout, ticking, isr, seqno>>
      /\ call.at = "write"
      /\ call' = [call EXCEPT !.n = n, !.seen = IF call.count > n THEN tx.out ELSE 0,
                              !.at = IF n = 0 THEN "kick" ELSE "put"]
  BY DEF WriteLoad, At
<1>2. /\ tx \in Ring /\ tx.out \in Slots /\ 0 \in Slots
      /\ call \in Locals
      /\ Held(tx) \in 0 .. BufLen - 1 /\ w \in 0 .. BufLen - 1 - Held(tx)
  <2>1. tx \in Ring
    BY DEF IInv, TypeOK
  <2>. QED BY <2>1, HeldIs, LengthsFit, UartAssumption DEF IInv, TypeOK, Slots
<1> HIDE DEF w
<1>3. /\ n \in 0 .. BufLen - 1 - Held(tx) /\ n \in Slots
      /\ n <= call.count
  BY <1>2, UartAssumption DEF Lesser, Locals, Slots
<1> HIDE DEF n
<1>4. /\ call'.n = n /\ call'.count = call.count /\ call'.some = call.some
      /\ call'.at \in {"kick", "put"}
      /\ call' \in Locals
  BY <1>1, <1>2, <1>3 DEF Locals, Places
<1>5. CallFits'
  BY <1>1, <1>2, <1>3, <1>4 DEF IInv, CallFits
<1>. QED BY <1>1, <1>4, <1>5, MoveIInv

\* copies it and moves its index on,
LEMMA WriteCopyIInv ==
  ASSUME IInv, WriteCopy
  PROVE  IInv'
<1>1. /\ UNCHANGED <<fifo, control, enable, rx, inactive, timeout, ticking, isr>>
      /\ call.at = "put" /\ isr = NoIsr
      /\ tx' = Put(tx, Numbers(seqno["written"], call.n))
      /\ seqno' = [seqno EXCEPT !["written"] = (@ + call.n) % Vals]
      /\ call' = [call EXCEPT !.count = @ - call.n, !.n = 0, !.seen = 0, !.at = "write"]
  BY DEF WriteCopy, At
<1>2. /\ tx \in Ring /\ rx \in Ring /\ 0 \in Slots
      /\ fifo.tx \in Seq(Num)
      /\ call \in Locals
      /\ seqno \in [{"written", "shown", "typed", "read"} -> Num]
      /\ seqno["written"] \in Num /\ seqno["shown"] \in Num
      /\ call.n <= call.count /\ call.n \in 0 .. BufLen - 1 - Held(tx) /\ ~call.some
      /\ call.count \in 0 .. MaxCount /\ call.n \in Nat
  <2>1. TypeOK /\ CallFits /\ call.n <= call.count /\ call.n <= BufLen - 1 - Held(tx) /\ ~call.some
    BY <1>1 DEF IInv, CallFits
  <2>2. call.n \in 0 .. BufLen - 1 /\ call.count \in 0 .. MaxCount /\ 0 \in Slots
    BY <2>1, UartAssumption DEF TypeOK, Locals, Slots
  <2>3. Held(tx) \in 0 .. BufLen - 1
    BY <2>1, HeldIs DEF TypeOK
  <2>4. call.n \in 0 .. BufLen - 1 - Held(tx) /\ call.n \in Nat
    BY <2>1, <2>2, <2>3, UartAssumption
  <2>. QED BY <2>1, <2>2, <2>4 DEF TypeOK
<1>3. /\ tx' \in Ring /\ Held(tx') = Held(tx) + call.n
      /\ FifoThenRing(fifo.tx, tx', seqno["shown"], (seqno["written"] + call.n) % Vals)
  BY <1>1, <1>2, WriteKeepsOrder DEF IInv, TransmitOrder
<1>4. (seqno["written"] + call.n) % Vals \in Num
  <2>1. seqno["written"] + call.n \in Int /\ Vals \in Nat \ {0}
    BY <1>2, UartAssumption DEF Num
  <2>. QED BY <2>1, DivMod DEF Num
<1>5. /\ seqno' \in [{"written", "shown", "typed", "read"} -> Num]
      /\ seqno'["written"] = (seqno["written"] + call.n) % Vals
      /\ seqno'["shown"] = seqno["shown"]
      /\ seqno'["typed"] = seqno["typed"] /\ seqno'["read"] = seqno["read"]
  BY <1>1, <1>2, <1>4
<1>6. /\ call'.at = "write" /\ call'.some = call.some
      /\ call' \in Locals
  <2>1. call.count - call.n \in 0 .. MaxCount
    BY <1>2, UartAssumption
  <2>. QED BY <1>1, <1>2, <2>1 DEF Locals, Places
<1>7. TypeOK'
  BY <1>1, <1>3, <1>5, <1>6 DEF IInv, TypeOK
<1>8. CallFits' /\ SpaceFits'
  BY <1>1, <1>2, <1>6 DEF IInv, CallFits, SpaceFits
<1>9. Enabled'
  BY <1>1, <1>6 DEF IInv, Enabled
<1>10. TransmitOrder'
  BY <1>1, <1>3, <1>5 DEF TransmitOrder
<1>11. ReceiveOrder'
  BY <1>1, <1>5 DEF IInv, ReceiveOrder
<1>. QED BY <1>7, <1>8, <1>9, <1>10, <1>11 DEF IInv

\* enables the write interrupt,
LEMMA WriteKickIInv ==
  ASSUME IInv, WriteKick
  PROVE  IInv'
<1> DEFINE e == enable \cup {"WE"}
<1>1. /\ UNCHANGED <<fifo, rx, tx, inactive, timeout, ticking, isr, seqno>>
      /\ call.at = "kick" /\ isr = NoIsr /\ ~call.some
      /\ SetEnable(e) /\ e \subseteq {"RE", "WE"} /\ TypeOK
  BY DEF WriteKick, At, IInv, TypeOK, CallFits
<1>2. /\ control' \subseteq {"RE", "WE", "AC"} /\ enable' \subseteq {"RE", "WE"}
      /\ enable' = e /\ enable' = control' \ {"AC"}
  BY <1>1, SetEnableIs
<1>3. CASE Return
  BY <1>1, <1>2, <1>3, ReturnIInv
<1>4. CASE call' = [call EXCEPT !.at = "space"]
  <2>1. /\ call'.at = "space" /\ ~call'.some
        /\ call' \in Locals
    BY <1>1, <1>4 DEF TypeOK, Locals, Places
  <2>2. TypeOK'
    BY <1>1, <1>2, <2>1 DEF TypeOK
  <2>3. CallFits' /\ SpaceFits'
    BY <1>1, <2>1 DEF IInv, CallFits, SpaceFits
  <2>4. Enabled'
    BY <1>1, <1>2, <2>1 DEF IInv, Enabled
  <2>. QED BY <1>1, <2>2, <2>3, <2>4, SameOrder DEF IInv
<1>. QED BY <1>3, <1>4 DEF WriteKick

\* and waits for room.
LEMMA WriteWaitIInv ==
  ASSUME IInv, WriteWait
  PROVE  IInv'
<1>1. /\ UNCHANGED <<fifo, control, enable, rx, tx, inactive, timeout, ticking, isr, seqno>>
      /\ call.at = "space" /\ isr = NoIsr /\ ~call.some /\ TypeOK
      /\ enable = control \ {"AC"}
  BY DEF WriteWait, At, IInv, CallFits, Enabled
<1>2. CASE Return
  BY <1>1, <1>2, ReturnIInv DEF TypeOK
<1>3. CASE call' = [call EXCEPT !.seen = 0, !.at = "write"]
  <2>1. /\ call'.at = "write" /\ ~call'.some
        /\ call' \in Locals
    <3>1. 0 \in Slots
      BY UartAssumption DEF Slots
    <3>. QED BY <1>1, <1>3, <3>1 DEF TypeOK, Locals, Places
  <2>2. CallFits'
    BY <2>1 DEF CallFits
  <2>. QED BY <1>1, <2>1, <2>2, MoveIInv
<1>. QED BY <1>2, <1>3 DEF WriteWait

\* The reader reads the indices and picks a run,
LEMMA ReadLoadIInv ==
  ASSUME IInv, ReadLoad
  PROVE  IInv'
<1> DEFINE w == ReadLength(rx.in, rx.out)
           n == Lesser(w, call.count)
<1>1. /\ UNCHANGED <<fifo, control, enable, rx, tx, inactive, timeout, ticking, isr, seqno>>
      /\ call.at = "read" /\ isr = NoIsr
      /\ IF n > 0 THEN call' = [call EXCEPT !.n = n, !.at = "get"]
         ELSE IF call.some THEN call' = [call EXCEPT !.at = "arm"]
         ELSE IF call.nonblock THEN Return
         ELSE call' = [call EXCEPT !.seen = rx.in, !.at = "data"]
  BY DEF ReadLoad, At
<1>2. /\ rx \in Ring /\ rx.in \in Slots /\ TypeOK
      /\ call \in Locals /\ call.count \in 0 .. MaxCount
      /\ Held(rx) \in 0 .. BufLen - 1 /\ w \in 0 .. Held(rx)
      /\ control \subseteq {"RE", "WE", "AC"} /\ enable \subseteq {"RE", "WE"}
      /\ enable = control \ {"AC"}
  <2>1. rx \in Ring
    BY DEF IInv, TypeOK
  <2>. QED BY <2>1, HeldIs, LengthsFit DEF IInv, TypeOK, Enabled, Locals
<1> HIDE DEF w
<1>3. /\ n \in 0 .. Held(rx) /\ n \in Slots
      /\ n <= call.count
  BY <1>2, UartAssumption DEF Lesser, Slots
<1> HIDE DEF n
<1>4. CASE call' = [call EXCEPT !.n = n, !.at = "get"]
  <2>1. call' \in Locals /\ call'.at = "get" /\ call'.some = call.some /\ call'.n = n
        /\ call'.count = call.count
    BY <1>2, <1>3, <1>4 DEF Locals, Places
  <2>2. CallFits'
    BY <1>1, <1>3, <2>1 DEF CallFits
  <2>. QED BY <1>1, <2>1, <2>2, MoveIInv
<1>5. CASE call.some /\ call' = [call EXCEPT !.at = "arm"]
  <2>1. call' \in Locals /\ call'.at = "arm" /\ call'.some = call.some
    BY <1>2, <1>5 DEF Locals, Places
  <2>2. CallFits'
    BY <2>1 DEF CallFits
  <2>. QED BY <1>1, <2>1, <2>2, MoveIInv
<1>6. CASE ~call.some /\ Return
  BY <1>1, <1>2, <1>6, ReturnIInv
<1>7. CASE ~call.some /\ call' = [call EXCEPT !.seen = rx.in, !.at = "data"]
  <2>1. call' \in Locals /\ call'.at = "data" /\ ~call'.some
    BY <1>2, <1>7 DEF Locals, Places
  <2>2. CallFits'
    BY <2>1 DEF CallFits
  <2>. QED BY <1>1, <1>7, <2>1, <2>2, MoveIInv
<1>. QED BY <1>1, <1>4, <1>5, <1>6, <1>7

\* copies it and moves its index on,
LEMMA ReadCopyIInv ==
  ASSUME IInv, ReadCopy
  PROVE  IInv'
<1>1. /\ UNCHANGED <<fifo, control, enable, tx, inactive, timeout, ticking, isr>>
      /\ call.at = "get" /\ isr = NoIsr
      /\ rx' = [rx EXCEPT !.out = Advance(@, call.n)]
      /\ seqno' = [seqno EXCEPT !["read"] = (@ + call.n) % Vals]
      /\ call' = [call EXCEPT !.count = @ - call.n, !.n = 0, !.some = TRUE,
                              !.at = IF call.count = call.n THEN "arm" ELSE "read"]
  BY DEF ReadCopy, At
<1>2. /\ rx \in Ring /\ 0 \in Slots
      /\ fifo.rx \in Seq(Num)
      /\ call \in Locals
      /\ seqno \in [{"written", "shown", "typed", "read"} -> Num]
      /\ seqno["read"] \in Num /\ seqno["typed"] \in Num
      /\ call.n <= call.count /\ call.n \in 0 .. Held(rx)
      /\ call.count \in 0 .. MaxCount /\ call.n \in Nat
  <2>1. TypeOK /\ CallFits /\ call.n <= call.count /\ call.n <= Held(rx)
    BY <1>1 DEF IInv, CallFits
  <2>2. call.n \in 0 .. BufLen - 1 /\ call.count \in 0 .. MaxCount /\ 0 \in Slots
    BY <2>1, UartAssumption DEF TypeOK, Locals, Slots
  <2>3. Held(rx) \in 0 .. BufLen - 1
    BY <2>1, HeldIs DEF TypeOK
  <2>4. call.n \in 0 .. Held(rx) /\ call.n \in Nat
    BY <2>1, <2>2, <2>3, UartAssumption
  <2>. QED BY <2>1, <2>2, <2>4 DEF TypeOK
<1>3. /\ rx' \in Ring
      /\ RingThenFifo(rx', fifo.rx, (seqno["read"] + call.n) % Vals, seqno["typed"])
  BY <1>1, <1>2, ReadKeepsOrder DEF IInv, ReceiveOrder
<1>4. (seqno["read"] + call.n) % Vals \in Num
  <2>1. seqno["read"] + call.n \in Int /\ Vals \in Nat \ {0}
    BY <1>2, UartAssumption DEF Num
  <2>. QED BY <2>1, DivMod DEF Num
<1>5. /\ seqno' \in [{"written", "shown", "typed", "read"} -> Num]
      /\ seqno'["read"] = (seqno["read"] + call.n) % Vals
      /\ seqno'["typed"] = seqno["typed"]
      /\ seqno'["written"] = seqno["written"] /\ seqno'["shown"] = seqno["shown"]
  BY <1>1, <1>2, <1>4
<1>6. call' \in Locals /\ call'.at \in {"arm", "read"} /\ call'.some
  <2>1. call.count - call.n \in 0 .. MaxCount
    BY <1>2, UartAssumption
  <2>. QED BY <1>1, <1>2, <2>1 DEF Locals, Places
<1>7. TypeOK'
  BY <1>1, <1>3, <1>5, <1>6 DEF IInv, TypeOK
<1>8. CallFits' /\ SpaceFits'
  BY <1>1, <1>6 DEF IInv, CallFits, SpaceFits
<1>9. Enabled'
  BY <1>1, <1>6 DEF IInv, Enabled
<1>10. TransmitOrder'
  BY <1>1, <1>5 DEF IInv, TransmitOrder
<1>11. ReceiveOrder'
  BY <1>1, <1>3, <1>5 DEF ReceiveOrder
<1>. QED BY <1>7, <1>8, <1>9, <1>10, <1>11 DEF IInv

\* enables the read interrupt,
LEMMA ReadArmIInv ==
  ASSUME IInv, ReadArm
  PROVE  IInv'
<1> DEFINE e == enable \cup {"RE"}
<1>1. /\ UNCHANGED <<fifo, rx, tx, inactive, timeout, ticking, isr, seqno>>
      /\ call.at = "arm" /\ isr = NoIsr /\ Return
      /\ SetEnable(e) /\ e \subseteq {"RE", "WE"} /\ TypeOK
  BY DEF ReadArm, At, IInv, TypeOK
<1>2. /\ control' \subseteq {"RE", "WE", "AC"} /\ enable' \subseteq {"RE", "WE"}
      /\ enable' = e /\ enable' = control' \ {"AC"}
  BY <1>1, SetEnableIs
<1>. QED BY <1>1, <1>2, ReturnIInv

\* and waits for a character.
LEMMA ReadWaitIInv ==
  ASSUME IInv, ReadWait
  PROVE  IInv'
<1>1. /\ UNCHANGED <<fifo, control, enable, rx, tx, inactive, timeout, ticking, isr, seqno>>
      /\ call.at = "data" /\ isr = NoIsr /\ ~call.some /\ TypeOK
      /\ enable = control \ {"AC"}
  BY DEF ReadWait, At, IInv, CallFits, Enabled
<1>2. CASE Return
  BY <1>1, <1>2, ReturnIInv DEF TypeOK
<1>3. CASE call' = [call EXCEPT !.seen = 0, !.at = "read"]
  <2>1. call'.at = "read" /\ ~call'.some /\ call' \in Locals
    <3>1. 0 \in Slots
      BY UartAssumption DEF Slots
    <3>. QED BY <1>1, <1>3, <3>1 DEF TypeOK, Locals, Places
  <2>2. CallFits'
    BY <2>1 DEF CallFits
  <2>. QED BY <1>1, <2>1, <2>2, MoveIInv
<1>. QED BY <1>2, <1>3 DEF ReadWait

\* close() waits for the buffer to drain.
LEMMA CloseWaitIInv ==
  ASSUME IInv, CloseWait
  PROVE  IInv'
<1>1. /\ UNCHANGED <<fifo, control, enable, rx, tx, inactive, timeout, ticking, isr, seqno>>
      /\ call.at = "close" /\ isr = NoIsr /\ ~call.some /\ TypeOK
      /\ enable = control \ {"AC"} /\ Return
  BY DEF CloseWait, At, IInv, CallFits, Enabled
<1>. QED BY <1>1, ReturnIInv DEF TypeOK

\* The timeout is set by ioctl(),
LEMMA SetTimeoutIInv ==
  ASSUME IInv, SetTimeout
  PROVE  IInv'
<1>1. UNCHANGED <<fifo, control, enable, rx, tx, inactive, ticking, isr, call, seqno>>
  BY DEF SetTimeout
<1>2. timeout' \in 2 .. IntMax - 1
  BY UartAssumption DEF SetTimeout
<1>3. TypeOK'
  BY <1>1, <1>2 DEF IInv, TypeOK
<1>4. CallFits' /\ SpaceFits' /\ Enabled'
  BY <1>1 DEF IInv, CallFits, SpaceFits, Enabled
<1>. QED BY <1>1, <1>3, <1>4, SameOrder DEF IInv

\* and counted by the alarm.
LEMMA SecondIInv ==
  ASSUME IInv, Second
  PROVE  IInv'
<1>1. UNCHANGED <<fifo, enable, rx, tx, timeout, ticking, isr, call, seqno>>
  BY DEF Second
<1>2. /\ enable = control' \ {"AC"} /\ control' \subseteq {"RE", "WE", "AC"}
  BY DEF Second, Acknowledge, IInv, TypeOK, Enabled
<1>3. inactive' \in 0 .. IntMax - 2
  BY UartAssumption DEF Second, IInv, TypeOK
<1>4. TypeOK'
  BY <1>1, <1>2, <1>3 DEF IInv, TypeOK
<1>5. CallFits' /\ SpaceFits' /\ Enabled'
  BY <1>1, <1>2 DEF IInv, CallFits, SpaceFits, Enabled
<1>. QED BY <1>1, <1>4, <1>5, SameOrder DEF IInv

\* The handler empties the FIFO into the ring as far as there is space, and turns
\* its interrupt off only when the ring is full.
LEMMA PollIInv ==
  ASSUME IInv, Poll
  PROVE  IInv'
<1> DEFINE n == Lesser(BufLen - 1 - Held(rx), Len(fifo.rx))
           e == IF n < Len(fifo.rx) THEN enable \ {"RE"} ELSE enable
<1>1. /\ UNCHANGED <<tx, inactive, timeout, ticking, call, seqno>>
      /\ isr' = IF WI THEN [at |-> "send", space |-> Depth - Len(fifo.tx)]
                ELSE IF RI THEN Loop ELSE NoIsr
  BY DEF Poll
<1>2. /\ TypeOK /\ rx \in Ring /\ fifo.rx \in Seq(Num) /\ Len(fifo.rx) \in 0 .. Depth
      /\ fifo.tx \in Seq(Num) /\ Len(fifo.tx) \in 0 .. Depth
      /\ seqno["read"] \in Num /\ seqno["typed"] \in Num
      /\ Held(rx) \in 0 .. BufLen - 1
  <2>1. TypeOK
    BY DEF IInv
  <2>2. Held(rx) \in 0 .. BufLen - 1
    BY <2>1, HeldIs DEF TypeOK
  <2>. QED BY <2>1, <2>2, LenProperties, UartAssumption DEF TypeOK
<1>3. isr' \in [at : {"none", "poll", "send"}, space : 0 .. Depth]
  <2>1. Depth - Len(fifo.tx) \in 0 .. Depth /\ 0 \in 0 .. Depth
    BY <1>2, UartAssumption
  <2>. QED BY <2>1, <1>1 DEF Loop, NoIsr
<1>4. isr'.at = "send" => isr'.space = Depth - Len(fifo.tx)
  BY <1>1 DEF Loop, NoIsr
<1>5. CASE RI
  <2>1. /\ rx' = Put(rx, SubSeq(fifo.rx, 1, n))
        /\ fifo' = [fifo EXCEPT !.rx = SubSeq(@, n + 1, Len(@))]
        /\ SetEnable(e)
    BY <1>5 DEF Poll
  <2>2. n \in 0 .. BufLen - 1 - Held(rx) /\ n <= Len(fifo.rx)
        /\ (n < Len(fifo.rx) => n = BufLen - 1 - Held(rx)) /\ n \in Nat
    BY <1>2, UartAssumption DEF Lesser
  <2>3. e \subseteq {"RE", "WE"} /\ ("WE" \in enable => "WE" \in e)
        /\ (n = Len(fifo.rx) => e = enable)
    <3>. HIDE DEF n
    <3>. QED BY <1>2, <2>2 DEF TypeOK
  <2>. HIDE DEF n
  <2>4. /\ rx' \in Ring /\ Held(rx') = Held(rx) + n
        /\ SubSeq(fifo.rx, n + 1, Len(fifo.rx)) \in Seq(Num)
        /\ Len(SubSeq(fifo.rx, n + 1, Len(fifo.rx))) = Len(fifo.rx) - n
        /\ RingThenFifo(rx', SubSeq(fifo.rx, n + 1, Len(fifo.rx)), seqno["read"], seqno["typed"])
    BY <1>2, <2>1, <2>2, ReceiveKeepsOrder DEF IInv, ReceiveOrder
  <2>5. /\ fifo' \in [rx : Seq(Num), tx : Seq(Num)]
        /\ fifo'.rx = SubSeq(fifo.rx, n + 1, Len(fifo.rx)) /\ fifo'.tx = fifo.tx
    BY <1>2, <2>1, <2>4 DEF TypeOK
  <2>6. /\ control' \subseteq {"RE", "WE", "AC"} /\ enable' \subseteq {"RE", "WE"}
        /\ enable' = e /\ enable' = control' \ {"AC"}
    BY <1>2, <2>1, <2>3, SetEnableIs
  <2>. HIDE DEF e
  <2>7. TypeOK'
    <3>1. Len(fifo'.rx) <= Depth
      <4>1. Len(fifo.rx) - n <= Depth
        BY <1>2, <2>2, UartAssumption
      <4>2. Len(fifo'.rx) = Len(fifo.rx) - n
        BY <2>4, <2>5
      <4>. QED BY <4>1, <4>2
    <3>. QED BY <1>1, <1>2, <1>3, <2>4, <2>5, <2>6, <3>1 DEF TypeOK
  <2>8. Held(rx) <= Held(rx')
    BY <1>2, <2>2, <2>4
  <2>9. CallFits' /\ SpaceFits'
    <3>1. call.n <= Held(rx) => call.n <= Held(rx')
      <4>1. call.n \in Int /\ Held(rx') \in Int
        BY <1>2, <2>2, <2>4 DEF TypeOK, Locals, Slots
      <4>. QED BY <4>1, <2>8, <1>2
    <3>2. Depth - Len(fifo.tx) <= Depth - Len(fifo'.tx)
      BY <1>2, <2>5, UartAssumption
    <3>. QED BY <1>1, <1>4, <2>5, <3>1, <3>2 DEF IInv, CallFits, SpaceFits
  <2>10. Enabled'
    <3>1. Held(rx') < BufLen - 1 => Held(rx) < BufLen - 1 /\ e = enable
      BY <1>2, <2>2, <2>3, <2>4, UartAssumption
    <3>. QED BY <1>1, <2>3, <2>6, <3>1 DEF IInv, Enabled
  <2>11. TransmitOrder'
    BY <1>1, <2>5 DEF IInv, TransmitOrder
  <2>12. ReceiveOrder'
    BY <1>1, <2>4, <2>5 DEF ReceiveOrder
  <2>. QED BY <2>7, <2>9, <2>10, <2>11, <2>12 DEF IInv
<1>6. CASE ~RI
  <2>1. UNCHANGED <<rx, fifo, enable, control>>
    BY <1>6 DEF Poll
  <2>2. TypeOK'
    BY <1>1, <1>2, <1>3, <2>1 DEF TypeOK
  <2>3. CallFits' /\ Enabled'
    BY <1>1, <2>1 DEF IInv, CallFits, Enabled
  <2>4. SpaceFits'
    BY <1>2, <1>4, <2>1, UartAssumption DEF SpaceFits
  <2>. QED BY <1>1, <2>1, <2>2, <2>3, <2>4, SameOrder DEF IInv
<1>. QED BY <1>5, <1>6

\* The handler sends, and turns its interrupt off only when the ring is empty.
LEMMA SendIInv ==
  ASSUME IInv, Send
  PROVE  IInv'
<1> DEFINE n == Lesser(isr.space, Held(tx))
           e == IF NothingLeft(isr.space, n) THEN enable \ {"WE"} ELSE enable
           v == fifo.tx \o SubSeq(Contents(tx), 1, n)
<1>1. /\ UNCHANGED <<rx, inactive, timeout, ticking, call, seqno>>
      /\ isr' = Loop /\ isr.at = "send"
      /\ fifo' = [fifo EXCEPT !.tx = v]
      /\ tx' = [tx EXCEPT !.out = Advance(@, n)]
      /\ SetEnable(e)
  BY DEF Send
<1>2. /\ TypeOK /\ tx \in Ring /\ fifo.tx \in Seq(Num) /\ Len(fifo.tx) \in 0 .. Depth
      /\ seqno["shown"] \in Num /\ seqno["written"] \in Num
      /\ Held(tx) \in 0 .. BufLen - 1
      /\ isr.space \in 0 .. Depth /\ isr.space <= Depth - Len(fifo.tx)
  <2>1. TypeOK /\ SpaceFits
    BY DEF IInv
  <2>2. Held(tx) \in 0 .. BufLen - 1
    BY <2>1, HeldIs DEF TypeOK
  <2>3. /\ tx \in Ring /\ fifo.tx \in Seq(Num) /\ Len(fifo.tx) <= Depth
        /\ seqno["shown"] \in Num /\ seqno["written"] \in Num
        /\ isr.space \in 0 .. Depth
    BY <2>1 DEF TypeOK
  <2>4. Len(fifo.tx) \in 0 .. Depth
    BY <2>3, LenProperties, UartAssumption
  <2>5. isr.space <= Depth - Len(fifo.tx)
    BY <1>1, <2>1 DEF SpaceFits
  <2>. QED BY <2>1, <2>2, <2>3, <2>4, <2>5
<1>3. /\ n \in 0 .. Held(tx) /\ n \in Nat /\ n <= isr.space
      /\ (n < isr.space => n = Held(tx))
  BY <1>2, UartAssumption DEF Lesser
<1>4. e \subseteq {"RE", "WE"} /\ ("RE" \in enable => "RE" \in e)
      /\ (~(n < isr.space) => e = enable)
  <2>. HIDE DEF n
  <2>. QED BY <1>2 DEF TypeOK, NothingLeft
<1> HIDE DEF n
<1>5. /\ tx' \in Ring /\ Held(tx') = Held(tx) - n
      /\ v \in Seq(Num) /\ Len(v) = Len(fifo.tx) + n
      /\ FifoThenRing(v, tx', seqno["shown"], seqno["written"])
  BY <1>1, <1>2, <1>3, SendKeepsOrder DEF IInv, TransmitOrder
<1> HIDE DEF v
<1>6. /\ fifo' \in [rx : Seq(Num), tx : Seq(Num)]
      /\ fifo'.tx = v /\ fifo'.rx = fifo.rx
  BY <1>1, <1>2, <1>5 DEF TypeOK
<1>7. /\ control' \subseteq {"RE", "WE", "AC"} /\ enable' \subseteq {"RE", "WE"}
      /\ enable' = e /\ enable' = control' \ {"AC"}
  BY <1>1, <1>2, <1>4, SetEnableIs
<1> HIDE DEF e
<1>8. TypeOK'
  <2>1. Len(v) <= Depth
    BY <1>2, <1>3, <1>5, UartAssumption, SMTT(30)
  <2>2. isr' \in [at : {"none", "poll", "send"}, space : 0 .. Depth]
    BY <1>1, UartAssumption DEF Loop
  <2>. QED BY <1>1, <1>2, <1>5, <1>6, <1>7, <2>1, <2>2 DEF TypeOK
<1>9. CallFits' /\ SpaceFits'
  <2>1. call.n <= BufLen - 1 - Held(tx) => call.n <= BufLen - 1 - Held(tx')
    <3>1. call.n \in Int /\ BufLen \in Nat
      BY <1>2, UartAssumption DEF TypeOK, Locals, Slots
    <3>. QED BY <3>1, <1>2, <1>3, <1>5
  <2>2. isr'.at = "poll"
    BY <1>1 DEF Loop
  <2>. QED BY <1>1, <2>1, <2>2 DEF IInv, CallFits, SpaceFits
<1>10. Enabled'
  <2>1. Held(tx') > 0 => Held(tx) > 0 /\ e = enable
    BY <1>2, <1>3, <1>4, <1>5
  <2>. QED BY <1>1, <1>4, <1>7, <2>1 DEF IInv, Enabled
<1>11. TransmitOrder'
  BY <1>1, <1>5, <1>6 DEF TransmitOrder
<1>12. ReceiveOrder'
  BY <1>1, <1>6 DEF IInv, ReceiveOrder
<1>. QED BY <1>8, <1>9, <1>10, <1>11, <1>12 DEF IInv

\* The host takes a character out of one FIFO and may put one into the other.
LEMMA HostIInv ==
  ASSUME IInv, NEW types \in BOOLEAN, HostAccess(types)
  PROVE  IInv'
<1> DEFINE r == IF types THEN Append(fifo.rx, seqno["typed"]) ELSE fifo.rx
           t == IF fifo.tx = <<>> THEN <<>> ELSE Tail(fifo.tx)
           typed == IF types THEN (seqno["typed"] + 1) % Vals ELSE seqno["typed"]
           shown == IF fifo.tx = <<>> THEN seqno["shown"] ELSE (seqno["shown"] + 1) % Vals
<1>1. /\ UNCHANGED <<enable, rx, tx, inactive, timeout, ticking, isr, call>>
      /\ control' = control \cup {"AC"}
      /\ types => Len(fifo.rx) < Depth
      /\ fifo' = [rx |-> r, tx |-> t]
      /\ seqno' = [seqno EXCEPT !["typed"] = typed, !["shown"] = shown]
  BY DEF HostAccess, IInv, TypeOK
<1>2. /\ TypeOK /\ tx \in Ring /\ rx \in Ring
      /\ fifo.tx \in Seq(Num) /\ Len(fifo.tx) \in 0 .. Depth
      /\ fifo.rx \in Seq(Num) /\ Len(fifo.rx) \in 0 .. Depth
      /\ seqno \in [{"written", "shown", "typed", "read"} -> Num]
      /\ seqno["shown"] \in Num /\ seqno["written"] \in Num
      /\ seqno["typed"] \in Num /\ seqno["read"] \in Num
      /\ FifoThenRing(fifo.tx, tx, seqno["shown"], seqno["written"])
      /\ RingThenFifo(rx, fifo.rx, seqno["read"], seqno["typed"])
  <2>1. TypeOK /\ TransmitOrder /\ ReceiveOrder
    BY DEF IInv
  <2>. QED BY <2>1, LenProperties, UartAssumption DEF TypeOK, TransmitOrder, ReceiveOrder
<1>3. \A x \in Num : (x + 1) % Vals \in Num
  <2>1. ASSUME NEW x \in Num
        PROVE  (x + 1) % Vals \in Num
    <3>1. x + 1 \in Int /\ Vals \in Nat \ {0}
      BY UartAssumption DEF Num
    <3>. QED BY <3>1, DivMod DEF Num
  <2>. QED BY <2>1
<1>4. /\ r \in Seq(Num) /\ Len(r) <= Depth /\ typed \in Num
      /\ RingThenFifo(rx, r, seqno["read"], typed)
  <2>1. CASE types
    <3>1. /\ Append(fifo.rx, seqno["typed"]) \in Seq(Num)
          /\ Len(Append(fifo.rx, seqno["typed"])) = Len(fifo.rx) + 1
          /\ RingThenFifo(rx, Append(fifo.rx, seqno["typed"]), seqno["read"],
                          (seqno["typed"] + 1) % Vals)
      BY <1>2, TypeKeepsOrder
    <3>2. Len(fifo.rx) + 1 <= Depth
      BY <2>1, <1>1, <1>2, UartAssumption
    <3>. QED BY <2>1, <1>2, <1>3, <3>1, <3>2
  <2>2. CASE ~types
    BY <2>2, <1>2, UartAssumption
  <2>. QED BY <2>1, <2>2
<1>5. /\ t \in Seq(Num) /\ Len(t) \in 0 .. Len(fifo.tx) /\ shown \in Num
      /\ FifoThenRing(t, tx, shown, seqno["written"])
  <2>1. CASE fifo.tx = <<>>
    BY <2>1, <1>2
  <2>2. CASE fifo.tx # <<>>
    <3>1. /\ Tail(fifo.tx) \in Seq(Num) /\ Len(Tail(fifo.tx)) = Len(fifo.tx) - 1
          /\ FifoThenRing(Tail(fifo.tx), tx, (seqno["shown"] + 1) % Vals, seqno["written"])
      BY <2>2, <1>2, ShowKeepsOrder
    <3>2. Len(Tail(fifo.tx)) \in 0 .. Len(fifo.tx)
      BY <3>1, <1>2, LenProperties
    <3>. QED BY <2>2, <1>2, <1>3, <3>1, <3>2
  <2>. QED BY <2>1, <2>2
<1> HIDE DEF r, t, typed, shown
<1>6. fifo'.rx = r /\ fifo'.tx = t
  BY <1>1
<1>7. /\ seqno' \in [{"written", "shown", "typed", "read"} -> Num]
      /\ seqno'["typed"] = typed /\ seqno'["shown"] = shown
      /\ seqno'["written"] = seqno["written"] /\ seqno'["read"] = seqno["read"]
  BY <1>1, <1>2, <1>4, <1>5
<1>8. TypeOK'
  <2>1. Len(t) <= Depth
    BY <1>2, <1>5, UartAssumption
  <2>. QED BY <1>1, <1>2, <1>4, <1>5, <1>6, <1>7, <2>1 DEF TypeOK
<1>9. CallFits' /\ Enabled'
  BY <1>1, <1>2 DEF IInv, TypeOK, CallFits, Enabled
<1>10. SpaceFits'
  <2>1. isr.space \in Int
    BY <1>2 DEF TypeOK
  <2>2. isr.space <= Depth - Len(fifo.tx) => isr.space <= Depth - Len(t)
    BY <1>2, <1>5, <2>1, UartAssumption
  <2>. QED BY <1>1, <1>6, <2>2 DEF IInv, SpaceFits
<1>11. TransmitOrder'
  BY <1>1, <1>5, <1>6, <1>7 DEF TransmitOrder
<1>12. ReceiveOrder'
  BY <1>1, <1>4, <1>6, <1>7 DEF ReceiveOrder
<1>. QED BY <1>8, <1>9, <1>10, <1>11, <1>12 DEF IInv

-----------------------------------------------------------------------------
\* Every step keeps the invariant,
LEMMA NextIInv == IInv /\ [Next]_vars => IInv'
<1> SUFFICES ASSUME IInv, [Next]_vars PROVE IInv'
  OBVIOUS
<1>1. CASE Begin
  <2>1. 0 \in 0 .. MaxCount
    BY UartAssumption
  <2>2. PICK b \in BOOLEAN : \/ \E op \in {"write", "read"}, n \in 1 .. MaxCount : Call(op, n, b)
                             \/ Call("close", 0, b)
    BY <1>1 DEF Begin
  <2>. QED BY <2>1, <2>2, CallIInv
<1>2. CASE Writing
  BY <1>2, WriteLoadIInv, WriteCopyIInv, WriteKickIInv, WriteWaitIInv DEF Writing
<1>3. CASE Reading
  BY <1>3, ReadLoadIInv, ReadCopyIInv, ReadArmIInv, ReadWaitIInv DEF Reading
<1>4. CASE Handler
  BY <1>4, PollIInv, SendIInv DEF Handler
<1>5. CASE Host
  BY <1>5, HostIInv DEF Host
<1>6. CASE UNCHANGED vars
  <2>1. TypeOK'
    BY <1>6 DEF vars, IInv, TypeOK
  <2>2. CallFits' /\ SpaceFits' /\ Enabled'
    BY <1>6 DEF vars, IInv, CallFits, SpaceFits, Enabled
  <2>. QED BY <1>6, <2>1, <2>2, SameOrder DEF vars, IInv
<1>. QED BY <1>1, <1>2, <1>3, <1>4, <1>5, <1>6, CloseWaitIInv, SetTimeoutIInv, SecondIInv DEF Next

\* so that it always holds.
LEMMA Invariance == Spec => []IInv
<1>. QED BY InitIInv, NextIInv, PTL DEF Spec

\* The indices of the rings, the register contents, the timeout and the counter of
\* inactive seconds stay in their ranges, whatever the ioctl and the calls ask for.
THEOREM TypeCorrect == Spec => []TypeOK
<1>1. IInv => TypeOK
  BY DEF IInv
<1>. QED BY <1>1, Invariance, PTL

\* altera_avalon_jtag_uart_write and _read against the interrupt handler and the
\* host: every character that is written is shown, and every one that is typed
\* is read, once and in order.
THEOREM OrderKept == Spec => []InOrder
<1>1. IInv => InOrder
  <2> SUFFICES ASSUME IInv PROVE InOrder
    OBVIOUS
  <2>1. /\ tx \in Ring /\ rx \in Ring
        /\ fifo.tx \in Seq(Num) /\ Len(fifo.tx) <= Depth
        /\ fifo.rx \in Seq(Num) /\ Len(fifo.rx) <= Depth
        /\ seqno["shown"] \in Num /\ seqno["read"] \in Num
    BY DEF IInv, TypeOK
  <2>2. Transmitting = Numbers(seqno["shown"], (seqno["written"] - seqno["shown"]) % Vals)
    BY <2>1, TransmitSequence DEF IInv, TransmitOrder, Transmitting
  <2>3. Receiving = Numbers(seqno["read"], (seqno["typed"] - seqno["read"]) % Vals)
    BY <2>1, ReceiveSequence DEF IInv, ReceiveOrder, Receiving
  <2>. QED BY <2>2, <2>3 DEF InOrder
<1>. QED BY <1>1, Invariance, PTL

\* No wakeup is lost between the sections of altera_avalon_jtag_uart_write and
\* _read that turn interrupts on and the handler that turns them off.
THEOREM WakeupsKept == Spec => []Armed
<1>1. IInv => Armed
  <2> SUFFICES ASSUME IInv PROVE Armed
    OBVIOUS
  <2>1. Full(rx) <=> Held(rx) = BufLen - 1
    BY HeldIs DEF IInv, TypeOK
  <2>2. ~Full(rx) => Held(rx) < BufLen - 1
    <3>1. Held(rx) \in 0 .. BufLen - 1 /\ BufLen \in Nat
      BY HeldIs, UartAssumption DEF IInv, TypeOK
    <3>. QED BY <2>1, <3>1
  <2>. QED BY <2>2 DEF IInv, Enabled, CallFits, Armed
<1>. QED BY <1>1, Invariance, PTL

=============================================================================
