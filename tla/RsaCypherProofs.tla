--------------------------- MODULE RsaCypherProofs ---------------------------
(***************************************************************************)
(* The proofs about RsaCypherEnv and RsaCompare, for every key size.  The  *)
(* two multipliers of rsacypher.vhd stay in step and always get operands   *)
(* that modmult.vhd can reduce: that neither is strobed while it runs      *)
(* needs only the strobes; that their operands are small enough needs the  *)
(* registers of both, because the operands of a round are the products of  *)
(* the one before, sampled at an edge at which both are over.  The answer  *)
(* is the power that was asked for, which is what the software of          *)
(* rsa_crypto.c computes as well: powers and the loops of the software are *)
(* recursive functions, about which the lemmas on induction and recursion  *)
(* speak.                                                                  *)
(***************************************************************************)
EXTENDS RsaCompare, WellFoundedInduction, TLAPS

\* The facts about one edge of a multiplier are those of ModMultProofs.
Unit == INSTANCE ModMultProofs WITH mm <- mult

Held(r, m) == Unit!Held(r, m)
Sums(r, m, x) == Unit!Sums(r, m, x)

\* The operators of the instance are those of the multipliers here.
LEMMA SameUnit ==
  /\ Unit!Word = Word /\ Unit!Registers = Registers
  /\ \A r : /\ Unit!ready(r) = ready(r) /\ Unit!Idle(r) = Idle(r)
            /\ Unit!Prodreg4(r) = Prodreg4(r) /\ Unit!product(r) = product(r)
  /\ \A a, b, m : Unit!Load(a, b, m) = Load(a, b, m)
  /\ \A r, ds, a, b, m : Unit!Clock(r, ds, a, b, m) = Clock(r, ds, a, b, m)
<1>1. Unit!Word = Word /\ Unit!Registers = Registers
  BY DEF Unit!Word, Unit!WideWord, Unit!Registers, Word, WideWord, Registers
<1>2. \A r : /\ Unit!Prodreg1(r) = Prodreg1(r) /\ Unit!Prodreg2(r) = Prodreg2(r)
            /\ Unit!Prodreg3(r) = Prodreg3(r) /\ Unit!Mcreg2(r) = Mcreg2(r)
  BY DEF Unit!Wide, Unit!Prodreg1, Unit!Prodreg2, Unit!Prodreg3, Unit!BitMpwid, Unit!Mcreg1,
         Unit!Mcreg2, Wide, Prodreg1, Prodreg2, Prodreg3, BitMpwid, Mcreg1, Mcreg2
<1>3. \A r : Unit!Prodreg4(r) = Prodreg4(r)
  BY <1>2 DEF Unit!Negative, Unit!Prodreg4, Negative, Prodreg4
<1>4. \A r : /\ Unit!ready(r) = ready(r) /\ Unit!Idle(r) = Idle(r)
            /\ Unit!product(r) = product(r) /\ Unit!Shift(r) = Shift(r)
  BY <1>2, <1>3 DEF Unit!ready, Unit!Idle, Unit!product, Unit!Shift, ready, Idle, product, Shift
<1>5. \A a, b, m : Unit!Load(a, b, m) = Load(a, b, m)
  BY DEF Unit!Load, Load
<1>6. \A r, ds, a, b, m : Unit!Clock(r, ds, a, b, m) = Clock(r, ds, a, b, m)
  BY <1>4, <1>5 DEF Unit!Clock, Clock
<1>. QED BY <1>1, <1>3, <1>4, <1>5, <1>6

\* Widths: of the product,
LEMMA ProductTypes ==
  ASSUME NEW r \in Registers
  PROVE  product(r) \in Word
  BY SameUnit, RadixAssumption, Unit!CombinationalTypes

\* after a reset,
LEMMA IdleTypes ==
  ASSUME NEW r \in Registers
  PROVE  Idle(r) \in Registers /\ ready(Idle(r))
  BY SameUnit, RadixAssumption, Unit!IdleTypes

\* and after an edge.
LEMMA ClockTypes ==
  ASSUME NEW r \in Registers, NEW ds \in BOOLEAN, NEW a \in Word, NEW b \in Word,
         NEW m \in Word
  PROVE  Clock(r, ds, a, b, m) \in Registers
  BY SameUnit, RadixAssumption, Unit!ClockTypes

\* The registers of a multiplication are set up by the edge that loads them,
LEMMA LoadHolds ==
  ASSUME NEW a \in Word, NEW b \in Word, NEW m \in Word \ {0}, a < 2 * m
  PROVE  Held(Load(a, b, m), m)
  BY SameUnit, RadixAssumption, Unit!LoadHolds DEF Held

\* and kept by every other.
LEMMA ClockHolds ==
  ASSUME NEW r, NEW m \in Word \ {0}, Held(r, m), NEW a, NEW b, NEW c
  PROVE  Held(Clock(r, FALSE, a, b, c), m)
  BY SameUnit, RadixAssumption, Unit!ClockHolds DEF Held

\* The product on the bus is a remainder.
LEMMA HeldProduct ==
  ASSUME NEW r, NEW m \in Word \ {0}, Held(r, m)
  PROVE  product(r) \in 0 .. m - 1
  BY SameUnit, RadixAssumption, Unit!HeldProduct DEF Held

-----------------------------------------------------------------------------
\* While it computes, both multipliers reduce modulo the modulus of the job.  Up to
\* the edge of the first strobe they may hold what an earlier job left.
Computing ==
  ~done =>
    /\ job \in Jobs
    /\ modregmult = job.inMod /\ modregsqr = job.inMod
    /\ multgo => tempin < 2 * job.inMod /\ root < 2 * job.inMod
    /\ ~multgo => Held(mult, job.inMod) /\ Held(sqr, job.inMod)

IInv == TypeOK /\ Lockstep /\ Computing

-----------------------------------------------------------------------------
\* What a job asks for fits the buses, and its text the multiplier.
LEMMA JobTypes ==
  ASSUME NEW j \in Jobs
  PROVE  /\ j.indata \in Word /\ j.inExp \in Word
         /\ j.inMod \in Word \ {0}
         /\ j.indata < 2 * j.inMod
  BY ModuliAssumption DEF Jobs, Requests

\* The invariant holds after power-up.
LEMMA InitEstablishes == Init => IInv
<1> SUFFICES ASSUME Init PROVE IInv
  OBVIOUS
<1>1. PowerUp \in Registers /\ ready(PowerUp) /\ 0 \in Word
  BY RadixAssumption DEF PowerUp, Registers, Word, WideWord, ready
<1>. QED BY <1>1 DEF Init, CypherInit, IInv, TypeOK, CypherTypeOK, Lockstep, Computing, bothrdy

\* Widths: the products feed the operands, which are as wide.
LEMMA EdgeTypes ==
  ASSUME CypherTypeOK, NEW ds \in BOOLEAN, NEW x \in Word, NEW e \in Word, NEW m \in Word,
         Edge(ds, x, e, m)
  PROVE  CypherTypeOK'
<1> USE DEF CypherTypeOK
<1>1. /\ tempout \in Word /\ square \in Word
      /\ 1 \in Word
      /\ e \div 2 \in Word /\ count \div 2 \in Word
  BY RadixAssumption, ProductTypes DEF tempout, square, Word
<1>2. mult' \in Registers /\ sqr' \in Registers
  <2>1. mult' = Clock(mult, multgo, tempin, sqrin, modregmult)
    BY DEF Edge
  <2>2. sqr' = Clock(sqr, multgo, root, root, modregsqr)
    BY DEF Edge
  <2>3. {multgo} \subseteq BOOLEAN /\ {tempin, sqrin, modregmult, root, modregsqr} \subseteq Word
    OBVIOUS
  <2>. QED BY <2>1, <2>2, <2>3, ClockTypes
<1>3. count' \in Word /\ done' \in BOOLEAN /\ cypher' \in Word
  BY <1>1 DEF Edge, mngcount
<1>4. root' \in Word /\ modregsqr' \in Word
  BY <1>1 DEF Edge, setupsqr
<1>5. \A n, f : f \in Word => IfOdd(n, f) \in Word
  BY <1>1 DEF IfOdd
<1>6. tempin' \in Word /\ sqrin' \in Word /\ modregmult' \in Word
  BY <1>1, <1>5 DEF Edge, setupmult
<1>7. multgo' \in BOOLEAN
  BY DEF Edge, crypto
<1>. QED BY <1>2, <1>3, <1>4, <1>6, <1>7

\* The registers keep to their widths.
LEMMA TypeInductive == TypeOK /\ [Next]_vars => TypeOK'
<1> SUFFICES ASSUME TypeOK, [Next]_vars
             PROVE  TypeOK'
  OBVIOUS
<1>0. CypherTypeOK
  BY DEF TypeOK
<1>1. CASE Strobe
  <2>1. PICK r \in Jobs : Edge(TRUE, r.indata, r.inExp, r.inMod) /\ job' = r
    BY <1>1 DEF Strobe
  <2>2. CypherTypeOK'
    BY <1>0, <2>1, JobTypes, EdgeTypes
  <2>. QED BY <2>1, <2>2 DEF TypeOK
<1>2. CASE Compute
  <2>1. 0 \in Word
    BY RadixAssumption DEF Word
  <2>2. CypherTypeOK'
    BY <1>0, <1>2, <2>1, EdgeTypes DEF Compute
  <2>. QED BY <1>2, <2>2 DEF Compute, TypeOK
<1>3. CASE Restart
  <2>1. Idle(mult) \in Registers /\ Idle(sqr) \in Registers
    BY <1>0, IdleTypes DEF CypherTypeOK
  <2>2. 0 \in Word
    BY RadixAssumption DEF Word
  <2>. QED BY <1>0, <1>3, <2>1, <2>2 DEF Restart, ResetCypher, TypeOK, CypherTypeOK
<1>4. CASE UNCHANGED vars
  BY <1>4 DEF vars, coreVars, TypeOK, CypherTypeOK
<1>. QED BY <1>1, <1>2, <1>3, <1>4 DEF Next

-----------------------------------------------------------------------------
\* The edge that accepts a job: the multipliers are idle and are strobed at the next.
LEMMA StrobeEstablishes ==
  ASSUME IInv, Strobe
  PROVE  Lockstep' /\ Computing'
<1>1. PICK r \in Jobs : done /\ Edge(TRUE, r.indata, r.inExp, r.inMod) /\ job' = r
  BY DEF Strobe
<1>2. /\ ready(mult) /\ ready(sqr) /\ multgo = FALSE
  BY <1>1 DEF IInv, Lockstep, bothrdy, TypeOK, CypherTypeOK
<1>3. mult' = mult /\ sqr' = sqr
  <2>1. mult' = Clock(mult, FALSE, tempin, sqrin, modregmult)
    BY <1>1, <1>2 DEF Edge
  <2>2. sqr' = Clock(sqr, FALSE, root, root, modregsqr)
    BY <1>1, <1>2 DEF Edge
  <2>. QED BY <1>2, <2>1, <2>2 DEF Clock
<1>4. ~done' /\ multgo'
  BY <1>1, <1>2 DEF Edge, mngcount, crypto
<1>5. /\ modregmult' = r.inMod /\ modregsqr' = r.inMod
      /\ root' = r.indata
      /\ tempin' \in {r.indata, 1}
  BY <1>1 DEF Edge, setupsqr, setupmult, IfOdd
<1>6. tempin' < 2 * r.inMod /\ root' < 2 * r.inMod
  BY <1>5, JobTypes, RadixAssumption DEF Word
<1>7. Lockstep'
  BY <1>2, <1>3, <1>4 DEF Lockstep, bothrdy
<1>. QED BY <1>1, <1>4, <1>5, <1>6, <1>7 DEF Computing

\* The edge at which the multipliers sample their operands.
LEMMA RoundStarts ==
  ASSUME IInv, Compute, multgo
  PROVE  Lockstep' /\ Computing'
<1>1. PICK m \in Word \ {0} : m = job.inMod
  BY JobTypes DEF IInv, Compute, Computing
<1>2. /\ ready(mult) /\ ready(sqr)
      /\ modregmult = m /\ modregsqr = m /\ tempin < 2 * m /\ root < 2 * m
      /\ tempin \in Word /\ sqrin \in Word /\ root \in Word
      /\ multgo = TRUE
  BY <1>1 DEF IInv, Compute, Computing, Lockstep, bothrdy, TypeOK, CypherTypeOK
<1>3. mult' = Load(tempin, sqrin, m) /\ sqr' = Load(root, root, m)
  <2>1. mult' = Clock(mult, TRUE, tempin, sqrin, m)
    BY <1>2 DEF Compute, Edge
  <2>2. sqr' = Clock(sqr, TRUE, root, root, m)
    BY <1>2 DEF Compute, Edge
  <2>. QED BY <1>2, <2>1, <2>2 DEF Clock
<1>4. Held(mult', m) /\ Held(sqr', m)
  BY <1>2, <1>3, LoadHolds
<1>5. ~multgo' /\ ~done'
  BY <1>2 DEF Compute, Edge, mngcount, crypto, RoundOver
<1>6. modregmult' = m /\ modregsqr' = m /\ job' = job /\ job \in Jobs
  BY <1>2 DEF Compute, Edge, setupsqr, setupmult, IInv, Computing
<1>7. Lockstep'
  BY <1>5 DEF Lockstep
<1>. QED BY <1>1, <1>4, <1>5, <1>6, <1>7 DEF Computing

\* Any other edge while it computes.  A new strobe, or the end, comes only when both
\* products are there, which are then remainders and stay.
LEMMA RoundContinues ==
  ASSUME IInv, Compute, ~multgo
  PROVE  Lockstep' /\ Computing'
<1>1. PICK m \in Word \ {0} : m = job.inMod
  BY JobTypes DEF IInv, Compute, Computing
<1>2. /\ Held(mult, m) /\ Held(sqr, m) /\ modregmult = m /\ modregsqr = m /\ job \in Jobs
      /\ multgo = FALSE /\ ~done
  BY <1>1 DEF IInv, Compute, Computing, TypeOK, CypherTypeOK
<1>3. /\ mult' = Clock(mult, FALSE, tempin, sqrin, m)
      /\ sqr' = Clock(sqr, FALSE, root, root, m)
  BY <1>2 DEF Compute, Edge
<1>4. Held(mult', m) /\ Held(sqr', m)
  BY <1>2, <1>3, ClockHolds
<1>5. bothrdy => bothrdy'
  <2> SUFFICES ASSUME bothrdy PROVE bothrdy'
    OBVIOUS
  <2>1. mult' = mult /\ sqr' = sqr
    BY <1>3 DEF bothrdy, Clock
  <2>. QED BY <2>1 DEF bothrdy
<1>6. /\ done' => bothrdy /\ count = 0
      /\ multgo' => bothrdy /\ count # 0
  BY <1>2 DEF Compute, Edge, mngcount, RoundOver, crypto
<1>7. /\ modregmult' = m /\ modregsqr' = m /\ job' = job
      /\ tempin' = product(mult) /\ root' = product(sqr)
  BY <1>2 DEF Compute, Edge, setupsqr, setupmult, tempout, square
<1>8. tempin' < 2 * m /\ root' < 2 * m
  <2>1. product(mult) \in 0 .. m - 1 /\ product(sqr) \in 0 .. m - 1
    BY <1>2, HeldProduct
  <2>. QED BY <1>7, <2>1, RadixAssumption DEF Word
<1>9. Lockstep'
  BY <1>5, <1>6 DEF Lockstep
<1>. QED BY <1>1, <1>2, <1>4, <1>7, <1>8, <1>9 DEF Computing

\* Every step keeps the invariant.
LEMMA Inductive == IInv /\ [Next]_vars => IInv'
<1> SUFFICES ASSUME IInv, [Next]_vars
             PROVE  IInv'
  OBVIOUS
<1>0. TypeOK'
  BY TypeInductive DEF IInv
<1>1. CASE Strobe
  BY <1>0, <1>1, StrobeEstablishes DEF IInv
<1>2. CASE Compute
  BY <1>0, <1>2, RoundStarts, RoundContinues DEF IInv
<1>3. CASE Restart
  <2>1. done' /\ ~multgo' /\ mult' = Idle(mult) /\ sqr' = Idle(sqr)
    BY <1>3 DEF Restart, ResetCypher
  <2>2. bothrdy'
    BY <2>1, IdleTypes DEF bothrdy, IInv, TypeOK, CypherTypeOK
  <2>. QED BY <1>0, <2>1, <2>2 DEF IInv, Lockstep, Computing
<1>4. CASE UNCHANGED vars
  BY <1>0, <1>4 DEF vars, coreVars, IInv, Lockstep, Computing, bothrdy
<1>. QED BY <1>1, <1>2, <1>3, <1>4 DEF Next

\* The inductive invariant of the exponentiator.
THEOREM InvariantHolds == Spec => []IInv
  BY InitEstablishes, Inductive, PTL DEF Spec

\* Each register of rsacypher.vhd and of its multipliers stays within its width.
THEOREM TypeCorrect == Spec => []TypeOK
  BY InvariantHolds, PTL DEF IInv

\* For every key size no strobe of a multiplier is lost and no product is taken
\* before both are over (bothrdy, multgo and done of rsacypher.vhd).
THEOREM MultipliersInStep == Spec => []Lockstep
  BY InvariantHolds, PTL DEF IInv

\* For every key size, and any data below twice the modulus, each strobe finds operands
\* that modmult.vhd can reduce, so that by ImplementsMultiplier of ModMultProofs
\* every round's products are right.
THEOREM OperandsReducible == Spec => []OperandsAdmissible
<1>1. IInv => OperandsAdmissible
  BY DEF IInv, Lockstep, Computing, OperandsAdmissible
<1>. QED BY <1>1, InvariantHolds, PTL

-----------------------------------------------------------------------------
(***************************************************************************)
(* Induction and recursion over the natural numbers.                       *)
(***************************************************************************)

\* A set of natural numbers has a least element.
LEMMA Smallest ==
  ASSUME NEW s \in SUBSET Nat, s # {}
  PROVE  \E n \in s : \A k \in s : n <= k
<1> DEFINE R == OpToRel(<, Nat)
<1>1. IsWellFoundedOn(R, Nat)
  BY NatLessThanWellFounded
<1>2. \A x, y \in Nat : <<x, y>> \in R <=> x < y
  BY DEF OpToRel
<1>. HIDE DEF R
<1>3. PICK n \in s : \A k \in s : ~(<<k, n>> \in R)
  BY <1>1, WFMin
<1>4. \A k \in s : k \in Nat /\ n \in Nat
  OBVIOUS
<1>5. \A k \in s : n <= k
  <2> TAKE k \in s
  <2>1. ~(k < n)
    BY <1>2, <1>3, <1>4
  <2>. QED BY <1>4, <2>1
<1>. QED BY <1>5

\* Induction.
LEMMA Induction ==
  ASSUME NEW s, 0 \in s, \A n \in Nat : n \in s => n + 1 \in s
  PROVE  Nat \subseteq s
<1>1. SUFFICES ASSUME Nat \ s # {} PROVE FALSE
  OBVIOUS
<1>2. PICK n \in Nat \ s : \A k \in Nat \ s : n <= k
  BY <1>1, Smallest
<1>3. n - 1 \in Nat
  BY <1>2
<1>. QED BY <1>2, <1>3

\* Recursion.  On D, f has the values base where the size is zero, and otherwise g of
\* the argument and of the value at the argument that step makes of it.
Smaller(S, size, n) == {s \in S : size[s] < n}
Solves(f, D, size, base, step, g) ==
  \A s \in D : f[s] = IF size[s] = 0 THEN base[s] ELSE g[<<s, f[step[s]]>>]

\* There is at most one such function where step does not leave D,
LEMMA Unique ==
  ASSUME NEW S, NEW size \in [S -> Nat], NEW base, NEW step \in [S -> S], NEW g,
         \A s \in S : size[s] # 0 => size[step[s]] < size[s],
         NEW D \in SUBSET S, \A s \in D : size[s] # 0 => step[s] \in D,
         NEW f, NEW h,
         Solves(f, D, size, base, step, g), Solves(h, D, size, base, step, g)
  PROVE  \A s \in D : f[s] = h[s]
<1> DEFINE bad == {size[s] : s \in {t \in D : f[t] # h[t]}}
<1>1. SUFFICES ASSUME bad # {} PROVE FALSE
  OBVIOUS
<1>2. bad \in SUBSET Nat
  OBVIOUS
<1>3. PICK k \in bad : \A j \in bad : k <= j
  BY <1>1, <1>2, Smallest
<1>4. PICK s \in D : k = size[s] /\ f[s] # h[s]
  BY <1>3
<1>5. size[s] # 0
  BY <1>4 DEF Solves
<1>6. step[s] \in D /\ size[step[s]] < k /\ size[step[s]] \in Nat /\ k \in Nat
  BY <1>4, <1>5
<1>7. f[step[s]] = h[step[s]]
  BY <1>3, <1>6
<1>8. f[s] = g[<<s, f[step[s]]>>]
  BY <1>4, <1>5 DEF Solves
<1>9. h[s] = g[<<s, h[step[s]]>>]
  BY <1>4, <1>5 DEF Solves
<1>. QED BY <1>4, <1>7, <1>8, <1>9

\* so that those for the arguments below two sizes agree;
LEMMA Nested ==
  ASSUME NEW S, NEW size \in [S -> Nat], NEW base, NEW step \in [S -> S], NEW g,
         \A s \in S : size[s] # 0 => size[step[s]] < size[s],
         NEW m \in Nat, NEW n \in Nat, m <= n, NEW f, NEW h,
         Solves(f, Smaller(S, size, m), size, base, step, g),
         Solves(h, Smaller(S, size, n), size, base, step, g)
  PROVE  \A s \in Smaller(S, size, m) : f[s] = h[s]
<1> DEFINE D == Smaller(S, size, m)
<1>1. D \in SUBSET S /\ D \subseteq Smaller(S, size, n)
  BY DEF Smaller
<1>2. \A s \in D : size[s] # 0 => step[s] \in D
  BY DEF Smaller
<1>3. Solves(f, D, size, base, step, g) /\ Solves(h, D, size, base, step, g)
  BY <1>1 DEF Solves
<1>. HIDE DEF D
<1>4. \A s \in D : f[s] = h[s]
  BY <1>1, <1>2, <1>3, Unique
<1>. QED BY <1>4 DEF D

\* one for the arguments below a size gives one for those of that size too;
LEMMA Extension ==
  ASSUME NEW S, NEW V, NEW size \in [S -> Nat], NEW base \in [S -> V], NEW step \in [S -> S],
         NEW g \in [S \X V -> V],
         \A s \in S : size[s] # 0 => size[step[s]] < size[s],
         NEW n \in Nat,
         NEW f \in [Smaller(S, size, n) -> V],
         Solves(f, Smaller(S, size, n), size, base, step, g)
  PROVE  \E h \in [Smaller(S, size, n + 1) -> V] : Solves(h, Smaller(S, size, n + 1), size, base, step, g)
<1> DEFINE h == [s \in Smaller(S, size, n + 1) |->
                   IF size[s] = 0 THEN base[s] ELSE g[<<s, f[step[s]]>>]]
<1>1. \A s \in Smaller(S, size, n + 1) :
        /\ s \in S
        /\ size[s] # 0 => step[s] \in Smaller(S, size, n)
  BY DEF Smaller
<1>2. \A s \in Smaller(S, size, n + 1) : h[s] \in V
  <2> SUFFICES ASSUME NEW s \in Smaller(S, size, n + 1) PROVE h[s] \in V
    OBVIOUS
  <2>1. s \in S /\ (size[s] # 0 => step[s] \in Smaller(S, size, n))
    BY <1>1
  <2>2. \A t \in Smaller(S, size, n) : <<s, f[t]>> \in S \X V
    BY <2>1
  <2>3. \A x \in S \X V : g[x] \in V
    OBVIOUS
  <2>4. size[s] # 0 => g[<<s, f[step[s]]>>] \in V
    BY <2>1, <2>2, <2>3
  <2>5. base[s] \in V
    BY <2>1
  <2>. QED BY <2>4, <2>5
<1>3. h \in [Smaller(S, size, n + 1) -> V]
  BY <1>2
<1>4. \A s \in Smaller(S, size, n) : s \in Smaller(S, size, n + 1) /\ h[s] = f[s]
  BY DEF Smaller, Solves
<1>5. \A s \in Smaller(S, size, n + 1) :
        h[s] = IF size[s] = 0 THEN base[s] ELSE g[<<s, h[step[s]]>>]
  <2> SUFFICES ASSUME NEW s \in Smaller(S, size, n + 1)
               PROVE  h[s] = IF size[s] = 0 THEN base[s] ELSE g[<<s, h[step[s]]>>]
    OBVIOUS
  <2>1. h[s] = IF size[s] = 0 THEN base[s] ELSE g[<<s, f[step[s]]>>]
    OBVIOUS
  <2>2. size[s] # 0 => step[s] \in Smaller(S, size, n)
    BY <1>1
  <2>3. \A t \in Smaller(S, size, n) : h[t] = f[t]
    BY <1>4
  <2>. HIDE DEF h
  <2>. QED BY <2>1, <2>2, <2>3
<1>. HIDE DEF h
<1>. QED BY <1>3, <1>5 DEF Solves

\* and so there is one for all arguments: a function that is defined by its value at a
\* smaller argument exists.
LEMMA Recursion ==
  ASSUME NEW S, NEW V, NEW size \in [S -> Nat], NEW base \in [S -> V], NEW step \in [S -> S],
         NEW g \in [S \X V -> V],
         \A s \in S : size[s] # 0 => size[step[s]] < size[s]
  PROVE  \E f \in [S -> V] : Solves(f, S, size, base, step, g)
<1> DEFINE Fs(n) == {f \in [Smaller(S, size, n) -> V] : Solves(f, Smaller(S, size, n), size, base, step, g)}
           good == {n \in Nat : Fs(n) # {}}
<1>1. 0 \in good
  <2>1. Smaller(S, size, 0) = {}
    BY DEF Smaller
  <2> DEFINE e == [s \in {} |-> s]
  <2>2. e \in [{} -> V]
    OBVIOUS
  <2>3. e \in Fs(0)
    BY <2>1, <2>2 DEF Solves
  <2>. QED BY <2>3
<1>2. \A n \in Nat : n \in good => n + 1 \in good
  <2> SUFFICES ASSUME NEW n \in Nat, n \in good PROVE n + 1 \in good
    OBVIOUS
  <2>1. PICK f \in Fs(n) : TRUE
    OBVIOUS
  <2>2. \E h \in [Smaller(S, size, n + 1) -> V] : Solves(h, Smaller(S, size, n + 1), size, base, step, g)
    BY <2>1, Extension
  <2>. QED BY <2>2
<1>3. \A n \in Nat : Fs(n) # {}
  <2>. HIDE DEF good
  <2>1. Nat \subseteq good
    BY <1>1, <1>2, Induction
  <2>. QED BY <2>1 DEF good
<1> DEFINE F(n) == CHOOSE f \in Fs(n) : TRUE
           f == [s \in S |-> F(size[s] + 1)[s]]
<1>4. \A n \in Nat : F(n) \in Fs(n)
  BY <1>3
<1>. HIDE DEF F, good
<1>5. \A s \in S : s \in Smaller(S, size, size[s] + 1)
  BY DEF Smaller
<1>6. f \in [S -> V]
  <2> SUFFICES ASSUME NEW s \in S PROVE F(size[s] + 1)[s] \in V
    OBVIOUS
  <2>1. F(size[s] + 1) \in Fs(size[s] + 1)
    BY <1>4
  <2>. QED BY <1>5, <2>1
<1>7. \A s \in S : f[s] = IF size[s] = 0 THEN base[s] ELSE g[<<s, f[step[s]]>>]
  <2> SUFFICES ASSUME NEW s \in S
               PROVE  f[s] = IF size[s] = 0 THEN base[s] ELSE g[<<s, f[step[s]]>>]
    OBVIOUS
  <2>1. F(size[s] + 1) \in Fs(size[s] + 1) /\ s \in Smaller(S, size, size[s] + 1)
    BY <1>4, <1>5
  <2>2. F(size[s] + 1)[s] = IF size[s] = 0 THEN base[s] ELSE g[<<s, F(size[s] + 1)[step[s]]>>]
    BY <2>1 DEF Solves
  <2>3. CASE size[s] # 0
    <3> DEFINE t == step[s]
    <3>1. t \in S /\ size[t] < size[s] /\ size[t] \in Nat /\ size[s] \in Nat
      BY <2>3
    <3>2. t \in Smaller(S, size, size[s] + 1) /\ t \in Smaller(S, size, size[t] + 1)
      BY <3>1 DEF Smaller
    <3>3. F(size[t] + 1) \in Fs(size[t] + 1)
      BY <1>4, <3>1
    <3>4. F(size[t] + 1)[t] = F(size[s] + 1)[t]
      BY <2>1, <3>1, <3>2, <3>3, Nested
    <3>. QED BY <2>2, <3>1, <3>4
  <2>. QED BY <2>2, <2>3
<1>. HIDE DEF f
<1>. QED BY <1>6, <1>7 DEF Solves

\* A function that is defined so has its values where the result and g have theirs.
LEMMA RecursionType ==
  ASSUME NEW S, NEW V, NEW size \in [S -> Nat], NEW base \in [S -> V], NEW step \in [S -> S],
         NEW g \in [S \X V -> V],
         \A s \in S : size[s] # 0 => size[step[s]] < size[s],
         NEW f, f = [s \in S |-> f[s]], Solves(f, S, size, base, step, g)
  PROVE  f \in [S -> V]
<1>1. PICK h \in [S -> V] : Solves(h, S, size, base, step, g)
  BY Recursion
<1>2. \A s \in S : f[s] = h[s]
  BY <1>1, Unique
<1>. QED BY <1>2

\* Loops.  f is what a loop with this size, result and pass returns.
Loops(f, D, size, base, step) ==
  \A s \in D : f[s] = IF size[s] = 0 THEN base[s] ELSE f[step[s]]

Last(S) == [t \in S \X Nat |-> t[2]]

\* A loop whose passes make its size smaller, until it is zero, returns something.
LEMMA Loop ==
  ASSUME NEW S, NEW size \in [S -> Nat], NEW base \in [S -> Nat], NEW step \in [S -> S],
         \A s \in S : size[s] # 0 => size[step[s]] < size[s]
  PROVE  \E f \in [S -> Nat] : Loops(f, S, size, base, step)
<1> DEFINE g == Last(S)
<1>1. g \in [S \X Nat -> Nat] /\ \A t \in S \X Nat : g[t] = t[2]
  BY DEF Last
<1>. HIDE DEF g
<1>2. PICK f \in [S -> Nat] : Solves(f, S, size, base, step, g)
  BY <1>1, Recursion
<1>3. \A s \in S : g[<<s, f[step[s]]>>] = f[step[s]]
  BY <1>1
<1>4. Loops(f, S, size, base, step)
  BY <1>2, <1>3 DEF Solves, Loops
<1>. QED BY <1>4

\* It has the values of any other function with its equation, on arguments that no
\* pass leaves.
LEMMA LoopInvariant ==
  ASSUME NEW S, NEW size \in [S -> Nat], NEW base, NEW step \in [S -> S],
         \A s \in S : size[s] # 0 => size[step[s]] < size[s],
         NEW D \in SUBSET S, \A s \in D : size[s] # 0 => step[s] \in D,
         NEW f, Loops(f, D, size, base, step), NEW h, Loops(h, D, size, base, step)
  PROVE  \A s \in D : f[s] = h[s]
<1> DEFINE V == {f[s] : s \in D} \cup {h[s] : s \in D}
           g == [t \in S \X V |-> t[2]]
<1>1. \A s \in S, v \in V : g[<<s, v>>] = v
  OBVIOUS
<1>2. \A s \in D : size[s] # 0 => f[step[s]] \in V /\ h[step[s]] \in V
  OBVIOUS
<1>. HIDE DEF g, V
<1>3. Solves(f, D, size, base, step, g) /\ Solves(h, D, size, base, step, g)
  BY <1>1, <1>2 DEF Solves, Loops
<1>. QED BY <1>3, Unique

-----------------------------------------------------------------------------
(***************************************************************************)
(* Powers.                                                                 *)
(***************************************************************************)

\* The function in the definition of Power.
Powers(x) == CHOOSE p : p = [k \in Nat |-> IF k = 0 THEN 1 ELSE x * p[k - 1]]

\* There are powers,
LEMMA PowersExist ==
  ASSUME NEW x \in Nat
  PROVE  /\ \A n : Power(x, n) = Powers(x)[n]
         /\ Powers(x) \in [Nat -> Nat]
         /\ \A n \in Nat : Powers(x)[n] = IF n = 0 THEN 1 ELSE x * Powers(x)[n - 1]
<1> DEFINE size == [k \in Nat |-> k]
           base == [k \in Nat |-> 1]
           step == [k \in Nat |-> IF k = 0 THEN 0 ELSE k - 1]
           g == [t \in Nat \X Nat |-> x * t[2]]
<1>1. /\ size \in [Nat -> Nat] /\ base \in [Nat -> Nat] /\ step \in [Nat -> Nat]
      /\ \A k \in Nat : size[k] # 0 => size[step[k]] < size[k]
  OBVIOUS
<1>2. g \in [Nat \X Nat -> Nat]
  OBVIOUS
<1>3. \A p \in [Nat -> Nat] : 
         Solves(p, Nat, size, base, step, g) <=> p = [k \in Nat |-> IF k = 0 THEN 1 ELSE x * p[k - 1]]
  <2> SUFFICES ASSUME NEW p \in [Nat -> Nat]
        PROVE  Solves(p, Nat, size, base, step, g) <=> p = [k \in Nat |-> IF k = 0 THEN 1 ELSE x * p[k - 1]]
    OBVIOUS
  <2>1. \A k \in Nat : (IF size[k] = 0 THEN base[k] ELSE g[<<k, p[step[k]]>>])
                        = (IF k = 0 THEN 1 ELSE x * p[k - 1])
    OBVIOUS
  <2>. HIDE DEF size, base, step, g
  <2>. QED BY <2>1 DEF Solves
<1>4. PICK p \in [Nat -> Nat] : p = [k \in Nat |-> IF k = 0 THEN 1 ELSE x * p[k - 1]]
  <2>. HIDE DEF size, base, step, g
  <2>1. \E p \in [Nat -> Nat] : Solves(p, Nat, size, base, step, g)
    BY <1>1, <1>2, Recursion
  <2>. QED BY <1>3, <2>1
<1>5. Powers(x) = [k \in Nat |-> IF k = 0 THEN 1 ELSE x * Powers(x)[k - 1]]
  BY <1>4, Zenon DEF Powers
<1> DEFINE P == Powers(x)
<1>6. P = [k \in Nat |-> P[k]] /\ \A k \in Nat : P[k] = IF k = 0 THEN 1 ELSE x * P[k - 1]
  <2>. HIDE DEF P
  <2>1. P = [k \in Nat |-> IF k = 0 THEN 1 ELSE x * P[k - 1]]
    BY <1>5 DEF P
  <2>. QED BY <2>1
<1>7. P \in [Nat -> Nat]
  <2> DEFINE s == {k \in Nat : P[k] = p[k]}
  <2>. HIDE DEF P
  <2>1. 0 \in s /\ \A k \in Nat : k \in s => k + 1 \in s
    <3>1. \A k \in Nat : p[k] = IF k = 0 THEN 1 ELSE x * p[k - 1]
      BY <1>4
    <3>2. \A k \in Nat : k + 1 \in Nat /\ k + 1 # 0 /\ (k + 1) - 1 = k
      OBVIOUS
    <3>3. \A k \in Nat : P[k + 1] = x * P[k] /\ p[k + 1] = x * p[k]
      BY <1>6, <3>1, <3>2, Zenon
    <3>4. P[0] = 1 /\ p[0] = 1
      BY <1>6, <3>1
    <3>. QED BY <3>2, <3>3, <3>4, Zenon
  <2>2. Nat \subseteq s
    <3>. HIDE DEF s
    <3>. QED BY <2>1, Induction
  <2>. QED BY <1>6, <2>2
<1>8. \A n : Power(x, n) = Powers(x)[n]
  BY DEF Power, Powers
<1>. QED BY <1>6, <1>7, <1>8

\* with their two equations.
LEMMA PowerEquations ==
  ASSUME NEW x \in Nat
  PROVE  /\ Power(x, 0) = 1
         /\ \A n \in Nat : Power(x, n) \in Nat /\ Power(x, n + 1) = x * Power(x, n)
<1> DEFINE P == Powers(x)
<1>0. /\ \A n : Power(x, n) = P[n]
      /\ P \in [Nat -> Nat]
      /\ \A n \in Nat : P[n] = IF n = 0 THEN 1 ELSE x * P[n - 1]
  BY PowersExist, Zenon
<1>. HIDE DEF P
<1>1. Power(x, 0) = 1 /\ \A n \in Nat : Power(x, n) \in Nat
  BY <1>0
<1>2. \A n \in Nat : n + 1 \in Nat /\ n + 1 # 0 /\ (n + 1) - 1 = n
  OBVIOUS
<1>3. \A n \in Nat : Power(x, n + 1) = x * Power(x, n)
  <2> TAKE n \in Nat
  <2>1. P[n + 1] = x * P[n]
    BY <1>0, <1>2, Zenon
  <2>. QED BY <1>0, <2>1, Zenon
<1>. QED BY <1>1, <1>3

\* Squaring the base is doubling the exponent.
LEMMA PowerOfSquare ==
  ASSUME NEW x \in Nat, NEW n \in Nat
  PROVE  Power(x * x, n) = Power(x, 2 * n)
<1> DEFINE s == {k \in Nat : Power(x * x, k) = Power(x, 2 * k)}
<1>0. x * x \in Nat
  OBVIOUS
<1>1. 0 \in s
  BY <1>0, PowerEquations
<1>2. ASSUME NEW k \in Nat, k \in s PROVE k + 1 \in s
  <2>1. Power(x * x, k + 1) = (x * x) * Power(x * x, k)
    BY <1>0, PowerEquations
  <2>2. /\ Power(x, (2 * k + 1) + 1) = x * Power(x, 2 * k + 1)
        /\ Power(x, 2 * k + 1) = x * Power(x, 2 * k)
    BY PowerEquations
  <2>3. PICK p \in Nat : p = Power(x, 2 * k)
    BY PowerEquations
  <2>4. x * (x * p) = (x * x) * p
    OBVIOUS
  <2>5. (2 * k + 1) + 1 = 2 * (k + 1)
    OBVIOUS
  <2>. QED BY <1>2, <2>1, <2>2, <2>3, <2>4, <2>5
<1>. HIDE DEF s
<1>3. Nat \subseteq s
  BY <1>1, <1>2, Induction
<1>. QED BY <1>3 DEF s

\* One step of square-and-multiply, by the lowest bit of the exponent.
LEMMA PowerByBit ==
  ASSUME NEW x \in Nat, NEW e \in Nat
  PROVE  Power(x, e) = IfOdd(e, x) * Power(x * x, e \div 2)
<1>1. PICK h \in Nat : h = e \div 2
  OBVIOUS
<1>2. PICK p \in Nat : p = Power(x, 2 * h)
  <2>1. 2 * h \in Nat
    OBVIOUS
  <2>. QED BY <2>1, PowerEquations
<1>3. Power(x * x, e \div 2) = p
  BY <1>1, <1>2, PowerOfSquare
<1>4. CASE e % 2 = 1
  <2>1. e = 2 * h + 1
    BY <1>1, <1>4
  <2>2. Power(x, 2 * h + 1) = x * Power(x, 2 * h)
    <3>1. 2 * h \in Nat
      OBVIOUS
    <3>. QED BY <3>1, PowerEquations
  <2>. QED BY <1>2, <1>3, <1>4, <2>1, <2>2 DEF IfOdd
<1>5. CASE e % 2 # 1
  <2>1. e = 2 * h
    BY <1>1, <1>5
  <2>. QED BY <1>2, <1>3, <1>5, <2>1 DEF IfOdd
<1>. QED BY <1>4, <1>5

\* The provers see a congruence better than an equation of remainders.
Congruent(x, y, m) == x % m = y % m

\* Products of congruent numbers are congruent.
LEMMA ProductRemainder ==
  ASSUME NEW m \in Nat \ {0}, NEW a \in Nat, NEW b \in Nat, NEW c \in Nat, NEW d \in Nat,
         Congruent(a, c, m), Congruent(b, d, m)
  PROVE  Congruent(a * b, c * d, m)
<1>1. PICK k \in Int : a = c + k * m
  <2>1. a = m * (a \div m) + (a % m) /\ c = m * (c \div m) + (c % m)
        /\ (a \div m) \in Int /\ (c \div m) \in Int /\ c % m \in Int /\ a % m = c % m
    BY RadixAssumption, Unit!DivMod DEF Congruent
  <2> DEFINE j == (a \div m) - (c \div m)
  <2>2. a = c + j * m /\ j \in Int
    BY <2>1
  <2>. HIDE DEF j
  <2>. QED BY <2>2
<1>2. PICK l \in Int : b = d + l * m
  <2>1. b = m * (b \div m) + (b % m) /\ d = m * (d \div m) + (d % m)
        /\ (b \div m) \in Int /\ (d \div m) \in Int /\ d % m \in Int /\ b % m = d % m
    BY RadixAssumption, Unit!DivMod DEF Congruent
  <2> DEFINE j == (b \div m) - (d \div m)
  <2>2. b = d + j * m /\ j \in Int
    BY <2>1
  <2>. HIDE DEF j
  <2>. QED BY <2>2
<1>3. a * b = c * d + (c * l + k * b) * m
  <2>1. a * b = c * b + (k * b) * m
    BY <1>1
  <2>2. c * b = c * d + (c * l) * m
    BY <1>2
  <2>. QED BY <2>1, <2>2
<1> DEFINE x == a * b
           y == c * d
           q == c * l + k * b
<1>4. x \in Int /\ y \in Int /\ q \in Int /\ x = y + q * m
  BY <1>3
<1>. HIDE DEF x, y, q
<1>5. x % m = y % m
  BY <1>4, RadixAssumption, Unit!SameRemainder
<1>. QED BY <1>5 DEF x, y, Congruent

\* A remainder is its own.
LEMMA ReducedRemainder ==
  ASSUME NEW m \in Nat \ {0}, NEW x \in Nat
  PROVE  x % m \in Nat /\ (x % m) % m = x % m
<1> DEFINE r == x % m
           q == x \div m
<1>1. r \in Nat /\ q \in Int /\ x = r + q * m
  BY RadixAssumption, Unit!DivMod
<1>. HIDE DEF r, q
<1>2. x \in Int /\ r \in Int
  BY <1>1
<1>3. x % m = r % m
  BY <1>1, <1>2, RadixAssumption, Unit!SameRemainder, Zenon
<1>. QED BY <1>1, <1>3 DEF r

\* A base may be reduced before its powers are taken.
LEMMA PowerOfRemainder ==
  ASSUME NEW m \in Nat \ {0}, NEW x \in Nat, NEW n \in Nat
  PROVE  Power(x % m, n) % m = Power(x, n) % m
<1> DEFINE y == x % m
           s == {k \in Nat : Power(y, k) % m = Power(x, k) % m}
<1>0. y \in Nat /\ y % m = x % m
  BY ReducedRemainder
<1>. HIDE DEF y
<1>1. 0 \in s
  BY <1>0, PowerEquations
<1>2. ASSUME NEW k \in Nat, k \in s PROVE k + 1 \in s
  <2>1. /\ Power(x, k + 1) = x * Power(x, k) /\ Power(x, k) \in Nat
        /\ Power(y, k + 1) = y * Power(y, k) /\ Power(y, k) \in Nat
    BY <1>0, PowerEquations
  <2>2. Congruent(y, x, m) /\ Congruent(Power(y, k), Power(x, k), m)
    BY <1>0, <1>2 DEF Congruent
  <2>3. Congruent(y * Power(y, k), x * Power(x, k), m)
    BY <1>0, <2>1, <2>2, ProductRemainder
  <2>. QED BY <2>1, <2>3 DEF Congruent
<1>. HIDE DEF s
<1>3. Nat \subseteq s
  BY <1>1, <1>2, Induction
<1>. QED BY <1>3 DEF s, y

\* One round of square-and-multiply: the products are remainders, the factor goes by
\* the lowest bit of what is left of the exponent, and that bit is shifted out.
LEMMA NextRound ==
  ASSUME NEW m \in Nat \ {0}, NEW t \in Nat, NEW s \in Nat, NEW e \in Nat
  PROVE  LET u == s % m
         IN  (((t % m) * IfOdd(e, u)) * Power(u * u, e \div 2)) % m = (t * Power(s, e)) % m
<1>1. PICK r \in Nat : r = t % m /\ r % m = t % m
  BY ReducedRemainder
<1>2. PICK u \in Nat : u = s % m
  BY ReducedRemainder
<1>3. PICK f \in Nat : f = IfOdd(e, u)
  BY DEF IfOdd
<1>4. PICK p \in Nat : p = Power(u * u, e \div 2)
  <2>1. u * u \in Nat /\ e \div 2 \in Nat
    OBVIOUS
  <2>. QED BY <2>1, PowerEquations
<1>5. Power(u, e) = f * p
  BY <1>3, <1>4, PowerByBit
<1>6. PICK q \in Nat : q = Power(u, e)
  BY PowerEquations
<1>7. (r * f) * p = r * q
  BY <1>5, <1>6
<1>8. PICK w \in Nat : w = Power(s, e)
  BY PowerEquations
<1>9. q % m = w % m
  BY <1>2, <1>6, <1>8, PowerOfRemainder
<1>10. (r * q) % m = (t * w) % m
  <2>1. Congruent(r, t, m) /\ Congruent(q, w, m)
    BY <1>1, <1>9 DEF Congruent
  <2>2. Congruent(r * q, t * w, m)
    BY <2>1, ProductRemainder
  <2>. QED BY <2>2 DEF Congruent
<1>. QED BY <1>1, <1>2, <1>3, <1>4, <1>7, <1>8, <1>10

-----------------------------------------------------------------------------
(***************************************************************************)
(* The answer.                                                             *)
(***************************************************************************)

\* The products that a round computes, t by the multiplier and s by the squarer, are
\* such that t times s to the power of what is left of the exponent is the power
\* asked for.
Round(t, s) ==
  /\ (t * Power(s, count)) % job.inMod = Power(job.indata, job.inExp) % job.inMod
  /\ multgo => t = tempin * sqrin /\ s = root * root
  /\ ~multgo => Sums(mult, job.inMod, t) /\ Sums(sqr, job.inMod, s)

Rounds == ~done => \E t, s \in Nat : Round(t, s)

Answered == done /\ job # NoJob => cypher = Power(job.indata, job.inExp) % job.inMod

FullInv == IInv /\ Rounds /\ Answered

\* The multiplier's lemmas about products.
LEMMA LoadSums ==
  ASSUME NEW a \in Word, NEW b \in Word, NEW m \in Word
  PROVE  Sums(Load(a, b, m), m, a * b)
  BY SameUnit, RadixAssumption, Unit!LoadSums DEF Sums

\* An edge without a strobe keeps the sum.
LEMMA ClockSums ==
  ASSUME NEW r, NEW m \in Word \ {0}, Held(r, m), NEW x \in Int, Sums(r, m, x),
         NEW a, NEW b, NEW c
  PROVE  Sums(Clock(r, FALSE, a, b, c), m, x)
  BY SameUnit, RadixAssumption, Unit!ClockSums DEF Held, Sums

\* A multiplier that is over shows the remainder.
LEMMA ProductOfSum ==
  ASSUME NEW r, NEW m \in Word \ {0}, Held(r, m), NEW x \in Int, Sums(r, m, x), ready(r)
  PROVE  product(r) = x % m
<1>1. r.mpreg = 0
  BY SameUnit DEF Held, Unit!Held
<1>. QED BY <1>1, SameUnit, RadixAssumption, Unit!ProductOfSum DEF Held, Sums

\* What the products are when both are there.
LEMMA ProductsOfRound ==
  ASSUME IInv, ~done, ~multgo, NEW t \in Nat, NEW s \in Nat, Round(t, s), bothrdy
  PROVE  tempout = t % job.inMod /\ square = s % job.inMod
<1>1. PICK m \in Word \ {0} : m = job.inMod
  BY JobTypes DEF IInv, Computing
<1>2. /\ Held(mult, m) /\ Held(sqr, m) /\ Sums(mult, m, t) /\ Sums(sqr, m, s)
      /\ ready(mult) /\ ready(sqr)
  BY <1>1 DEF IInv, Computing, Round, bothrdy
<1>. QED BY <1>1, <1>2, ProductOfSum DEF tempout, square

\* The first round has the factors that the strobe sets up.
LEMMA StrobeRounds ==
  ASSUME IInv, Strobe
  PROVE  Rounds' /\ Answered'
<1>1. PICK r \in Jobs : done /\ Edge(TRUE, r.indata, r.inExp, r.inMod) /\ job' = r
  BY DEF Strobe
<1>2. multgo = FALSE
  BY <1>1 DEF IInv, Lockstep, TypeOK, CypherTypeOK
<1>3. /\ ~done' /\ multgo' /\ count' = r.inExp \div 2
      /\ root' = r.indata /\ tempin' = IfOdd(r.inExp, r.indata) /\ sqrin' = 1
  BY <1>1, <1>2 DEF Edge, mngcount, crypto, setupsqr, setupmult
<1>4. r.indata \in Nat /\ r.inExp \in Nat
  BY JobTypes, RadixAssumption DEF Word
<1>5. PICK t \in Nat : t = IfOdd(r.inExp, r.indata)
  BY <1>4 DEF IfOdd
<1>6. PICK s \in Nat : s = r.indata * r.indata
  BY <1>4
<1>7. t * Power(s, r.inExp \div 2) = Power(r.indata, r.inExp)
  BY <1>4, <1>5, <1>6, PowerByBit
<1>8. t = tempin' * sqrin' /\ s = root' * root'
  BY <1>3, <1>5, <1>6
<1>9. Round(t, s)'
  BY <1>1, <1>3, <1>7, <1>8 DEF Round
<1>. QED BY <1>3, <1>9 DEF Rounds, Answered

\* The edge that starts a round gives the multipliers its factors.
LEMMA RoundStartsRight ==
  ASSUME IInv, Compute, multgo, Rounds
  PROVE  Rounds' /\ Answered'
<1>1. PICK m \in Word \ {0} : m = job.inMod
  BY JobTypes DEF IInv, Compute, Computing
<1>2. /\ ready(mult) /\ ready(sqr)
      /\ modregmult = m /\ modregsqr = m
      /\ tempin \in Word /\ sqrin \in Word /\ root \in Word
      /\ multgo = TRUE /\ ~done
  BY <1>1 DEF IInv, Compute, Computing, Lockstep, bothrdy, TypeOK, CypherTypeOK
<1>3. mult' = Load(tempin, sqrin, m) /\ sqr' = Load(root, root, m)
  <2>1. mult' = Clock(mult, TRUE, tempin, sqrin, m)
    BY <1>2 DEF Compute, Edge
  <2>2. sqr' = Clock(sqr, TRUE, root, root, m)
    BY <1>2 DEF Compute, Edge
  <2>. QED BY <1>2, <2>1, <2>2 DEF Clock
<1>4. PICK t \in Nat, s \in Nat : Round(t, s)
  BY <1>2 DEF Rounds
<1>5. t = tempin * sqrin /\ s = root * root
  BY <1>2, <1>4 DEF Round
<1>6. Sums(mult', m, t) /\ Sums(sqr', m, s)
  BY <1>2, <1>3, <1>5, LoadSums
<1>7. ~multgo' /\ ~done' /\ count' = count /\ job' = job
  BY <1>2 DEF Compute, Edge, mngcount, crypto, RoundOver
<1>8. Round(t, s)'
  BY <1>1, <1>4, <1>6, <1>7 DEF Round
<1>. QED BY <1>7, <1>8 DEF Rounds, Answered

\* While one multiplier runs, both keep their sums; when both are over the products
\* are the factors of the next round or the answer.
LEMMA RoundContinuesRight ==
  ASSUME IInv, Compute, ~multgo, Rounds
  PROVE  Rounds' /\ Answered'
<1>1. PICK m \in Word \ {0} : m = job.inMod
  BY JobTypes DEF IInv, Compute, Computing
<1>2. /\ Held(mult, m) /\ Held(sqr, m) /\ modregmult = m /\ modregsqr = m
      /\ multgo = FALSE /\ ~done /\ job' = job /\ count \in Nat
  BY <1>1, RadixAssumption DEF IInv, Compute, Computing, TypeOK, CypherTypeOK, Word
<1>3. PICK t \in Nat, s \in Nat : Round(t, s)
  BY <1>2 DEF Rounds
<1>4. /\ Sums(mult, m, t) /\ Sums(sqr, m, s)
      /\ (t * Power(s, count)) % m = Power(job.indata, job.inExp) % m
  BY <1>1, <1>2, <1>3 DEF Round
<1>5. m \in Nat \ {0}
  BY RadixAssumption DEF Word
<1>6. CASE ~bothrdy
  <2>1. ~done' /\ ~multgo' /\ count' = count
    BY <1>2, <1>6 DEF Compute, Edge, mngcount, crypto, RoundOver
  <2>2. /\ mult' = Clock(mult, FALSE, tempin, sqrin, m)
        /\ sqr' = Clock(sqr, FALSE, root, root, m)
    BY <1>2 DEF Compute, Edge
  <2>3. Sums(mult', m, t) /\ Sums(sqr', m, s)
    <3>1. t \in Int /\ s \in Int
      OBVIOUS
    <3>. QED BY <1>2, <1>4, <2>2, <3>1, ClockSums
  <2>4. Round(t, s)'
    BY <1>1, <1>2, <1>4, <2>1, <2>3 DEF Round
  <2>. QED BY <2>1, <2>4 DEF Rounds, Answered
<1>7. CASE bothrdy
  <2>1. tempout = t % m /\ square = s % m
    BY <1>1, <1>2, <1>3, <1>7, ProductsOfRound
  <2>2. CASE count = 0
    <3>1. done' /\ cypher' = tempout
      BY <1>2, <1>7, <2>2 DEF Compute, Edge, mngcount, RoundOver
    <3>2. t * Power(s, count) = t
      BY <2>2, PowerEquations
    <3>. QED BY <1>1, <1>2, <1>4, <2>1, <3>1, <3>2 DEF Rounds, Answered
  <2>3. CASE count # 0
    <3>1. /\ ~done' /\ multgo' /\ count' = count \div 2
          /\ root' = square /\ tempin' = tempout /\ sqrin' = IfOdd(count, square)
      BY <1>2, <1>7, <2>3 DEF Compute, Edge, mngcount, crypto, RoundOver, setupsqr, setupmult
    <3>2. PICK u \in Nat : u = s % m
      BY <1>5, ReducedRemainder
    <3>3. PICK v \in Nat : v = (t % m) * IfOdd(count, u)
      <4>1. t % m \in Nat /\ IfOdd(count, u) \in Nat
        BY <1>5, ReducedRemainder DEF IfOdd
      <4>. QED BY <4>1
    <3>4. PICK w \in Nat : w = u * u
      OBVIOUS
    <3>5. (v * Power(w, count \div 2)) % m = (t * Power(s, count)) % m
      BY <1>2, <1>5, <3>2, <3>3, <3>4, NextRound
    <3>6. v = tempin' * sqrin' /\ w = root' * root'
      BY <2>1, <3>1, <3>2, <3>3, <3>4
    <3>7. Round(v, w)'
      BY <1>1, <1>2, <1>4, <3>1, <3>5, <3>6 DEF Round
    <3>. QED BY <3>1, <3>7 DEF Rounds, Answered
  <2>. QED BY <2>2, <2>3
<1>. QED BY <1>6, <1>7

\* Every step keeps it.
LEMMA FullInductive == FullInv /\ [Next]_vars => FullInv'
<1> SUFFICES ASSUME FullInv, [Next]_vars
             PROVE  FullInv'
  OBVIOUS
<1>0. IInv'
  BY Inductive DEF FullInv
<1>1. CASE Strobe
  BY <1>0, <1>1, StrobeRounds DEF FullInv
<1>2. CASE Compute
  BY <1>0, <1>2, RoundStartsRight, RoundContinuesRight DEF FullInv
<1>3. CASE Restart
  BY <1>0, <1>3 DEF Restart, ResetCypher, FullInv, Rounds, Answered
<1>4. CASE UNCHANGED vars
  BY <1>0, <1>4 DEF vars, coreVars, FullInv, Rounds, Round, Answered
<1>. QED BY <1>1, <1>2, <1>3, <1>4 DEF Next

\* The answer is the power, and the rounds lead to it: it always holds.
THEOREM AnswersRight == Spec => []FullInv
<1>1. Init => FullInv
  BY InitEstablishes DEF Init, CypherInit, FullInv, Rounds, Answered
<1>. QED BY <1>1, FullInductive, PTL DEF Spec

\* For every key size, at the end of each round the product so far, times the square
\* to the power of the exponent bits that are left, is the power asked for
\* (setupsqr, setupmult and mngcount of rsacypher.vhd).
THEOREM RoundsRight == Spec => []RoundInvariant
<1>1. FullInv => RoundInvariant
  <2> SUFFICES ASSUME FullInv, ~done, bothrdy, ~multgo
               PROVE  (tempout * Power(square, count)) % job.inMod
                        = Power(job.indata, job.inExp) % job.inMod
    BY DEF RoundInvariant, RoundOver
  <2>1. PICK t \in Nat, s \in Nat : Round(t, s)
    BY DEF FullInv, Rounds
  <2>2. PICK m \in Nat \ {0} : m = job.inMod
    BY JobTypes, RadixAssumption DEF FullInv, IInv, Computing, Word
  <2>3. tempout = t % m /\ square = s % m /\ count \in Nat
    BY <2>1, <2>2, ProductsOfRound, RadixAssumption DEF FullInv, IInv, TypeOK, CypherTypeOK, Word
  <2>4. PICK r \in Nat : r = t % m /\ r % m = t % m
    BY ReducedRemainder
  <2>5. PICK p \in Nat : p = Power(s, count)
    BY <2>3, PowerEquations
  <2>6. PICK q \in Nat : q = Power(s % m, count) /\ q % m = p % m
    <3>1. s % m \in Nat
      BY ReducedRemainder
    <3>2. Power(s % m, count) \in Nat
      BY <2>3, <3>1, PowerEquations
    <3>3. Power(s % m, count) % m = p % m
      BY <2>3, <2>5, PowerOfRemainder
    <3>. QED BY <3>2, <3>3
  <2>7. (r * q) % m = (t * p) % m
    <3>1. Congruent(r, t, m) /\ Congruent(q, p, m)
      BY <2>4, <2>6 DEF Congruent
    <3>2. Congruent(r * q, t * p, m)
      BY <3>1, ProductRemainder
    <3>. QED BY <3>2 DEF Congruent
  <2>. QED BY <2>1, <2>2, <2>3, <2>4, <2>5, <2>6, <2>7 DEF Round
<1>. QED BY <1>1, AnswersRight, PTL

\* For every key size and every job with data below twice the modulus, rsacypher.vhd
\* implements the unit that its clients rely on: it answers with the power of the
\* job it was strobed with, modulo that job's modulus, and keeps the answer until the
\* next strobe.
THEOREM ImplementsExponentiator == Spec => Exponentiator!Safety
<1> USE DEF Exponentiator!vars, Exponentiator!Next
<1>1. Init => Exponentiator!Init
  BY RadixAssumption DEF Init, CypherInit, Exponentiator!Init, Word
<1>2. FullInv /\ FullInv' /\ [Next]_vars => [Exponentiator!Next]_Exponentiator!vars
  <2> SUFFICES ASSUME FullInv, FullInv', [Next]_vars
               PROVE  [Exponentiator!Next]_Exponentiator!vars
    OBVIOUS
  <2>1. CASE Strobe
    <3>1. PICK r \in Jobs : done /\ Edge(TRUE, r.indata, r.inExp, r.inMod) /\ job' = r
      BY <2>1 DEF Strobe
    <3>2. ~done'
      BY <3>1 DEF Edge, mngcount
    <3>3. Exponentiator!Start(r)
      BY <3>1, <3>2 DEF Exponentiator!Start
    <3>. QED BY <3>1, <3>3
  <2>2. CASE Compute
    <3>1. CASE done'
      <4>1. ~done /\ job' = job /\ job \in Jobs
        BY <2>2 DEF Compute, FullInv, IInv, Computing
      <4>2. CASE job # NoJob
        <5>1. cypher' = Power(job.indata, job.inExp) % job.inMod
          BY <3>1, <4>1, <4>2 DEF FullInv, Answered
        <5>2. Exponentiator!Complete
          BY <3>1, <4>1, <5>1 DEF Exponentiator!Complete
        <5>. QED BY <5>2
      <4>3. CASE job = NoJob
        <5>1. cypher' \in Word
          BY DEF FullInv, IInv, TypeOK, CypherTypeOK
        <5>2. Exponentiator!GiveUp
          BY <3>1, <4>1, <4>3, <5>1 DEF Exponentiator!GiveUp
        <5>. QED BY <5>2
      <4>. QED BY <4>2, <4>3
    <3>2. CASE ~done'
      BY <2>2, <3>2 DEF Compute
    <3>. QED BY <3>1, <3>2
  <2>3. CASE Restart
    <3>1. done' /\ job' = NoJob /\ cypher' \in Word
      BY <2>3 DEF Restart, ResetCypher, FullInv, IInv, TypeOK, CypherTypeOK
    <3>2. Exponentiator!GiveUp
      BY <3>1 DEF Exponentiator!GiveUp
    <3>. QED BY <3>2
  <2>4. CASE UNCHANGED vars
    BY <2>4 DEF vars, coreVars
  <2>. QED BY <2>1, <2>2, <2>3, <2>4 DEF Next
<1>. QED BY <1>1, <1>2, AnswersRight, PTL DEF Spec, Exponentiator!Safety

-----------------------------------------------------------------------------
(***************************************************************************)
(* The software: shift-and-add and square-and-multiply of rsa_crypto.c,    *)
(* for moduli up to half of the values of its words.                       *)
(***************************************************************************)

\* The moduli whose double is not beyond a word.
SoftModuli == {m \in Nat \ {0} : 2 * m <= SoftRadix}

\* The loop of ModMult.
MultLoop(m) ==
  CHOOSE loop : loop = [s \in Soft!MultVars |->
                          IF s.mplier = 0 THEN s.result ELSE loop[Soft!AddAndShift(s, m)]]

\* A pass halves the multiplier.
LEMMA SoftStepTypes ==
  ASSUME NEW m \in Nat, NEW s \in Soft!MultVars
  PROVE  /\ Soft!AddAndShift(s, m) \in Soft!MultVars
         /\ s.mplier # 0 => Soft!AddAndShift(s, m).mplier < s.mplier
<1>1. PICK K \in Nat \ {0} : K = SoftRadix
  BY SoftRadixAssumption
<1>2. \A x \in Nat : Soft!U(x) \in Nat
  BY <1>1 DEF Soft!U
<1>3. \A x \in Nat : Soft!Below(x, m) \in Nat /\ Soft!Reduced(x, m) \in Nat
  BY DEF Soft!Below, Soft!Reduced
<1>4. s.result \in Nat /\ s.mpand \in Nat /\ s.mplier \in Nat
  BY DEF Soft!MultVars
<1>5. s.result + s.mpand \in Nat /\ 2 * s.mpand \in Nat /\ s.mplier \div 2 \in Nat
  BY <1>4
<1>6. Soft!Reduced(Soft!Reduced(Soft!U(s.result + s.mpand), m), m) \in Nat
  BY <1>2, <1>3, <1>5
<1>7. Soft!Below(Soft!U(2 * s.mpand), m) \in Nat
  BY <1>2, <1>3, <1>5
<1>8. Soft!AddAndShift(s, m) \in Soft!MultVars
  BY <1>4, <1>5, <1>6, <1>7 DEF Soft!AddAndShift, Soft!MultVars
<1>9. s.mplier # 0 => s.mplier \div 2 < s.mplier
  BY <1>4
<1>. QED BY <1>8, <1>9 DEF Soft!AddAndShift

\* The loop is a function, with the equation that the code gives.
LEMMA MultLoopEquations ==
  ASSUME NEW m \in Nat
  PROVE  /\ \A a, b : Soft!ModMult(a, b, m) = MultLoop(m)[[result |-> 0, mpand |-> a, mplier |-> b]]
         /\ MultLoop(m) \in [Soft!MultVars -> Nat]
         /\ \A s \in Soft!MultVars :
              MultLoop(m)[s] = IF s.mplier = 0 THEN s.result ELSE MultLoop(m)[Soft!AddAndShift(s, m)]
<1> DEFINE S == Soft!MultVars
           size == [s \in S |-> s.mplier]
           base == [s \in S |-> s.result]
           step == [s \in S |-> Soft!AddAndShift(s, m)]
<1>1. /\ size \in [S -> Nat] /\ base \in [S -> Nat] /\ step \in [S -> S]
      /\ \A s \in S : size[s] # 0 => size[step[s]] < size[s]
  <2>1. \A s \in S : s.mplier \in Nat /\ s.result \in Nat
    BY DEF Soft!MultVars
  <2>2. \A s \in S : Soft!AddAndShift(s, m) \in S /\ (s.mplier # 0 => Soft!AddAndShift(s, m).mplier < s.mplier)
    BY SoftStepTypes
  <2>. HIDE DEF S
  <2>. QED BY <2>1, <2>2
<1>2. PICK p \in [S -> Nat] : p = [s \in S |-> IF s.mplier = 0 THEN s.result ELSE p[Soft!AddAndShift(s, m)]]
  <2>1. PICK p \in [S -> Nat] : Loops(p, S, size, base, step)
    <3>. HIDE DEF S, size, base, step
    <3>. QED BY <1>1, Loop
  <2>2. \A s \in S : p[s] = IF s.mplier = 0 THEN s.result ELSE p[Soft!AddAndShift(s, m)]
    BY <2>1 DEF Loops
  <2>. HIDE DEF S
  <2>3. p = [s \in S |-> IF s.mplier = 0 THEN s.result ELSE p[Soft!AddAndShift(s, m)]]
    BY <2>2
  <2>. QED BY <2>3
<1>3. MultLoop(m) = [s \in S |-> IF s.mplier = 0 THEN s.result ELSE MultLoop(m)[Soft!AddAndShift(s, m)]]
  BY <1>2, Zenon DEF MultLoop
<1> DEFINE L == MultLoop(m)
<1>4. L = [s \in S |-> L[s]] /\ \A s \in S : L[s] = IF s.mplier = 0 THEN s.result ELSE L[Soft!AddAndShift(s, m)]
  <2>. HIDE DEF L, S
  <2>1. L = [s \in S |-> IF s.mplier = 0 THEN s.result ELSE L[Soft!AddAndShift(s, m)]]
    BY <1>3 DEF L
  <2>. QED BY <2>1
<1>5. L \in [S -> Nat]
  <2>. HIDE DEF L
  <2>1. Loops(L, S, size, base, step)
    BY <1>4 DEF Loops
  <2>2. Loops(p, S, size, base, step)
    BY <1>2 DEF Loops
  <2>3. \A s \in S : size[s] # 0 => step[s] \in S
    BY <1>1
  <2>. HIDE DEF S, size, base, step
  <2>4. \A s \in S : L[s] = p[s]
    <3>1. S \in SUBSET S
      OBVIOUS
    <3>. QED BY <1>1, <2>1, <2>2, <2>3, <3>1, LoopInvariant
  <2>. QED BY <1>4, <2>4
<1>6. \A a, b : Soft!ModMult(a, b, m) = MultLoop(m)[[result |-> 0, mpand |-> a, mplier |-> b]]
  BY DEF Soft!ModMult, MultLoop
<1>. QED BY <1>4, <1>5, <1>6

\* A pass leaves the sum of the result and the product that is left congruent.  The
\* modulus itself may be the multiplicand, and its double may wrap to 0.
LEMMA SoftPass ==
  ASSUME NEW m \in SoftModuli, NEW s \in Soft!MultVars, s.result < m, s.mpand <= m
  PROVE  LET t == Soft!AddAndShift(s, m)
         IN  /\ t.result < m /\ t.mpand <= m
             /\ (t.result + t.mpand * t.mplier) % m = (s.result + s.mpand * s.mplier) % m
<1>1. PICK K \in Nat \ {0} : K = SoftRadix /\ m \in Nat \ {0} /\ 2 * m <= K
  BY SoftRadixAssumption DEF SoftModuli
<1>2. PICK r \in Nat, a \in Nat, b \in Nat : r = s.result /\ a = s.mpand /\ b = s.mplier
  BY DEF Soft!MultVars
<1>3. r < m /\ a <= m
  BY <1>2
<1>4. \A x \in Nat : x < K => Soft!U(x) = x
  BY <1>1 DEF Soft!U
<1>5. Soft!U(r + a) = r + a
  BY <1>1, <1>3, <1>4
<1>6. PICK j \in {0, 1}, x \in Nat : /\ x = Soft!Reduced(Soft!Reduced(r + a, m), m)
                                 /\ x = r + a - j * m /\ x < m
  <2>1. CASE r + a < m
    <3>1. Soft!Reduced(Soft!Reduced(r + a, m), m) = r + a - 0 * m /\ r + a \in Nat /\ r + a = r + a - 0 * m
      BY <1>1, <2>1 DEF Soft!Reduced
    <3>. QED BY <2>1, <3>1
  <2>2. CASE r + a >= m
    <3>1. Soft!Reduced(Soft!Reduced(r + a, m), m) = r + a - 1 * m /\ r + a - 1 * m \in Nat /\ r + a - 1 * m < m
      BY <1>1, <1>3, <2>2 DEF Soft!Reduced
    <3>. QED BY <3>1
  <2>. QED BY <1>1, <2>1, <2>2
<1>7. PICK i \in {0, 1, 2}, y \in Nat : /\ y = Soft!Below(Soft!U(2 * a), m)
                                    /\ y = 2 * a - i * m /\ y <= m
  <2>1. CASE 2 * a <= m
    <3>1. Soft!U(2 * a) = 2 * a
      BY <1>1, <1>4, <2>1
    <3>2. Soft!Below(2 * a, m) = 2 * a /\ 2 * a \in Nat /\ 2 * a = 2 * a - 0 * m
      BY <1>1, <2>1 DEF Soft!Below
    <3>. QED BY <2>1, <3>1, <3>2
  <2>2. CASE 2 * a > m /\ 2 * a < K
    <3>1. Soft!U(2 * a) = 2 * a
      BY <1>4, <2>2
    <3>2. Soft!Below(2 * a, m) = 2 * a - 1 * m /\ 2 * a - 1 * m \in Nat /\ 2 * a - 1 * m <= m
      BY <1>1, <1>3, <2>2 DEF Soft!Below
    <3>. QED BY <3>1, <3>2
  <2>3. CASE 2 * a = K
    <3>1. a = m
      BY <1>1, <1>3, <2>3
    <3>2. Soft!U(2 * a) = 0
      BY <1>1, <2>3 DEF Soft!U
    <3>3. Soft!Below(0, m) = 0 /\ 0 = 2 * a - 2 * m /\ 0 <= m
      BY <1>1, <3>1 DEF Soft!Below
    <3>4. WITNESS 2 \in {0, 1, 2}, 0 \in Nat
    <3>. QED BY <3>2, <3>3
  <2>. QED BY <1>1, <1>3, <2>1, <2>2, <2>3
<1>8. PICK h \in Nat : h = b \div 2
  OBVIOUS
<1> DEFINE t == Soft!AddAndShift(s, m)
<1>9. /\ t.result = IF b % 2 = 1 THEN x ELSE r
      /\ t.mpand = y /\ t.mplier = h
  BY <1>2, <1>5, <1>6, <1>7, <1>8 DEF Soft!AddAndShift
<1>. HIDE DEF t
<1>10. t.result < m /\ t.mpand <= m
  BY <1>3, <1>6, <1>7, <1>9
<1>11. y * h = 2 * (a * h) - (i * h) * m
  <2>1. CASE i = 0
    <3>1. y = 2 * a /\ i * h = 0 /\ 0 * m = 0
      BY <1>1, <1>7, <2>1
    <3>2. y * h = 2 * (a * h)
      BY <3>1
    <3>. QED BY <3>1, <3>2
  <2>2. CASE i = 1
    <3>1. y = 2 * a - m /\ i * h = h
      BY <1>1, <1>7, <2>2
    <3>2. y * h = 2 * (a * h) - h * m
      BY <1>1, <3>1
    <3>. QED BY <3>1, <3>2
  <2>3. CASE i = 2
    <3>1. y = 2 * a - 2 * m /\ i * h = 2 * h
      BY <1>1, <1>7, <2>3
    <3>2. y * h = 2 * (a * h) - (2 * h) * m
      BY <1>1, <3>1
    <3>. QED BY <3>1, <3>2
  <2>. QED BY <2>1, <2>2, <2>3
<1>12. PICK p \in Int, w \in Int, z \in Int : p = a * h /\ w = (i * h) * m /\ z = j * m
  BY <1>1
<1>13. (t.result + t.mpand * t.mplier) % m = (r + a * b) % m
  <2>1. CASE b % 2 = 1
    <3>1. b = 2 * h + 1
      BY <1>8, <2>1
    <3>2. a * b = 2 * (a * h) + a
      BY <3>1
    <3> DEFINE u == x + y * h
               v == r + a * b
               q == 0 - (j + i * h)
    <3>3. u = v + q * m
      <4>1. q * m = 0 - (j * m) - (i * h) * m
        BY <1>1
      <4>2. q * m = 0 - z - w
        BY <1>12, <4>1
      <4>3. u = r + a - z + 2 * p - w /\ v = r + 2 * p + a
        BY <1>6, <1>11, <1>12, <3>2
      <4>. HIDE DEF u, v, q
      <4>. QED BY <4>2, <4>3
    <3>4. u \in Int /\ v \in Int /\ q \in Int
      OBVIOUS
    <3>. HIDE DEF u, v, q
    <3>5. u % m = v % m
      BY <1>1, <3>3, <3>4, RadixAssumption, Unit!SameRemainder
    <3>. QED BY <1>9, <2>1, <3>5 DEF u, v
  <2>2. CASE b % 2 # 1
    <3>1. b = 2 * h
      BY <1>8, <2>2
    <3>2. a * b = 2 * (a * h)
      BY <3>1
    <3> DEFINE u == r + y * h
               v == r + a * b
               q == 0 - i * h
    <3>3. u = v + q * m
      <4>1. q * m = 0 - (i * h) * m
        BY <1>1
      <4>2. q * m = 0 - w
        BY <1>12, <4>1
      <4>3. u = r + 2 * p - w /\ v = r + 2 * p
        BY <1>11, <1>12, <3>2
      <4>. HIDE DEF u, v, q
      <4>. QED BY <4>2, <4>3
    <3>4. u \in Int /\ v \in Int /\ q \in Int
      OBVIOUS
    <3>. HIDE DEF u, v, q
    <3>5. u % m = v % m
      BY <1>1, <3>3, <3>4, RadixAssumption, Unit!SameRemainder
    <3>. QED BY <1>9, <2>2, <3>5 DEF u, v
  <2>. QED BY <2>1, <2>2
<1>. QED BY <1>2, <1>10, <1>13 DEF t

\* The software multiplies modulo the modulus.
LEMMA SoftProduct ==
  ASSUME NEW m \in SoftModuli, NEW a \in Nat, a <= m, NEW b \in Nat
  PROVE  Soft!ModMult(a, b, m) = (a * b) % m
<1> DEFINE S == Soft!MultVars
           size == [s \in S |-> s.mplier]
           base == [s \in S |-> s.result]
           step == [s \in S |-> Soft!AddAndShift(s, m)]
           D == {s \in S : s.result < m /\ s.mpand <= m}
           L == MultLoop(m)
           want == [s \in S |-> (s.result + s.mpand * s.mplier) % m]
<1>0. m \in Nat \ {0}
  BY DEF SoftModuli
<1>1. /\ size \in [S -> Nat] /\ step \in [S -> S]
      /\ \A s \in S : size[s] # 0 => size[step[s]] < size[s]
  <2>1. \A s \in S : s.mplier \in Nat
    BY DEF Soft!MultVars
  <2>2. \A s \in S : Soft!AddAndShift(s, m) \in S /\ (s.mplier # 0 => Soft!AddAndShift(s, m).mplier < s.mplier)
    BY <1>0, SoftStepTypes
  <2>. HIDE DEF S
  <2>. QED BY <2>1, <2>2
<1>2. D \in SUBSET S /\ \A s \in D : size[s] # 0 => step[s] \in D
  <2>1. \A s \in D : Soft!AddAndShift(s, m) \in D
    BY <1>0, SoftStepTypes, SoftPass
  <2>. HIDE DEF S
  <2>. QED BY <2>1
<1>3. Loops(L, D, size, base, step)
  <2>1. \A s \in S : L[s] = IF s.mplier = 0 THEN s.result ELSE L[Soft!AddAndShift(s, m)]
    BY <1>0, MultLoopEquations
  <2>. HIDE DEF S, L
  <2>. QED BY <2>1 DEF Loops
<1>4. Loops(want, D, size, base, step)
  <2> SUFFICES ASSUME NEW s \in D
               PROVE  want[s] = IF s.mplier = 0 THEN s.result ELSE want[Soft!AddAndShift(s, m)]
    BY DEF Loops
  <2>1. CASE s.mplier = 0
    <3>1. s.result \in Nat /\ s.mpand \in Nat /\ s.result < m /\ s.mpand * 0 = 0
      BY DEF Soft!MultVars
    <3>2. (s.result + s.mpand * s.mplier) % m = s.result
      BY <1>0, <2>1, <3>1
    <3>. QED BY <2>1, <3>2
  <2>2. CASE s.mplier # 0
    <3>1. Soft!AddAndShift(s, m) \in S
      BY <1>0, SoftStepTypes
    <3>2. LET t == Soft!AddAndShift(s, m)
          IN  (t.result + t.mpand * t.mplier) % m = (s.result + s.mpand * s.mplier) % m
      BY SoftPass
    <3>. HIDE DEF S
    <3>. QED BY <2>2, <3>1, <3>2
  <2>. QED BY <2>1, <2>2
<1>5. \A s \in D : L[s] = want[s]
  <2>. HIDE DEF S, size, base, step, D, L, want
  <2>1. /\ \A s \in S : size[s] # 0 => size[step[s]] < size[s]
        /\ \A s \in D : size[s] # 0 => step[s] \in D
    BY <1>1, <1>2
  <2>2. D \in SUBSET S /\ size \in [S -> Nat] /\ step \in [S -> S]
    BY <1>1, <1>2
  <2>. QED BY <1>3, <1>4, <2>1, <2>2, LoopInvariant
<1> DEFINE first == [result |-> 0, mpand |-> a, mplier |-> b]
<1>6. first \in D
  BY <1>0 DEF Soft!MultVars
<1>7. Soft!ModMult(a, b, m) = L[first]
  BY <1>0, MultLoopEquations
<1>8. want[first] = (a * b) % m
  <2>1. first \in S /\ first.result = 0 /\ first.mpand = a /\ first.mplier = b
    BY <1>6
  <2>2. want[first] = (0 + a * b) % m
    <3>. HIDE DEF S, first
    <3>. QED BY <2>1
  <2>3. 0 + a * b = a * b
    OBVIOUS
  <2>. HIDE DEF want, first
  <2>. QED BY <2>2, <2>3
<1>. HIDE DEF L, want, first, D
<1>. QED BY <1>5, <1>6, <1>7, <1>8

\* The loop of ModularExp.
ExpLoop(n) ==
  CHOOSE loop : loop = [s \in Soft!ExpVars |->
                          IF s.k = 0 THEN s.b ELSE loop[Soft!SquareAndMultiply(s, n)]]

\* The products are numbers whatever the factors,
LEMMA SoftProductTypes ==
  ASSUME NEW m \in Nat, NEW a \in Nat, NEW b \in Nat
  PROVE  Soft!ModMult(a, b, m) \in Nat
<1> DEFINE first == [result |-> 0, mpand |-> a, mplier |-> b]
           L == MultLoop(m)
<1>1. first \in Soft!MultVars
  BY DEF Soft!MultVars
<1>2. L \in [Soft!MultVars -> Nat] /\ Soft!ModMult(a, b, m) = L[first]
  BY MultLoopEquations
<1>. HIDE DEF first, L
<1>. QED BY <1>1, <1>2

\* and a pass halves the exponent.
LEMMA SoftExpTypes ==
  ASSUME NEW m \in Nat, NEW s \in Soft!ExpVars
  PROVE  /\ Soft!SquareAndMultiply(s, m) \in Soft!ExpVars
         /\ s.k # 0 => Soft!SquareAndMultiply(s, m).k < s.k
<1>1. s.A \in Nat /\ s.b \in Nat /\ s.k \in Nat
  BY DEF Soft!ExpVars
<1>2. PICK q \in Nat : q = Soft!ModMult(s.A, s.A, m)
  BY <1>1, SoftProductTypes
<1>3. Soft!ModMult(q, s.b, m) \in Nat
  BY <1>1, SoftProductTypes
<1>4. s.k \div 2 \in Nat /\ (s.k # 0 => s.k \div 2 < s.k)
  BY <1>1
<1>5. Soft!SquareAndMultiply(s, m) = [A |-> q, b |-> IF s.k % 2 = 1 THEN Soft!ModMult(q, s.b, m) ELSE s.b, k |-> s.k \div 2]
  BY <1>2 DEF Soft!SquareAndMultiply
<1>. QED BY <1>1, <1>3, <1>4, <1>5 DEF Soft!ExpVars

\* It is a function as well.
LEMMA ExpLoopEquations ==
  ASSUME NEW m \in Nat
  PROVE  /\ \A a, k : Soft!ModularExp(a, k, m) =
              IF k = 0 THEN 1 ELSE ExpLoop(m)[[A |-> a, b |-> IfOdd(k, a), k |-> k \div 2]]
         /\ \A s \in Soft!ExpVars :
              ExpLoop(m)[s] = IF s.k = 0 THEN s.b ELSE ExpLoop(m)[Soft!SquareAndMultiply(s, m)]
<1> DEFINE S == Soft!ExpVars
           size == [s \in S |-> s.k]
           base == [s \in S |-> s.b]
           step == [s \in S |-> Soft!SquareAndMultiply(s, m)]
<1>1. /\ size \in [S -> Nat] /\ base \in [S -> Nat] /\ step \in [S -> S]
      /\ \A s \in S : size[s] # 0 => size[step[s]] < size[s]
  <2>1. \A s \in S : s.k \in Nat /\ s.b \in Nat
    BY DEF Soft!ExpVars
  <2>2. \A s \in S : Soft!SquareAndMultiply(s, m) \in S /\ (s.k # 0 => Soft!SquareAndMultiply(s, m).k < s.k)
    BY SoftExpTypes
  <2>. HIDE DEF S
  <2>. QED BY <2>1, <2>2
<1>2. PICK p \in [S -> Nat] : p = [s \in S |-> IF s.k = 0 THEN s.b ELSE p[Soft!SquareAndMultiply(s, m)]]
  <2>1. PICK p \in [S -> Nat] : Loops(p, S, size, base, step)
    <3>. HIDE DEF S, size, base, step
    <3>. QED BY <1>1, Loop
  <2>2. \A s \in S : p[s] = IF s.k = 0 THEN s.b ELSE p[Soft!SquareAndMultiply(s, m)]
    BY <2>1 DEF Loops
  <2>. HIDE DEF S
  <2>3. p = [s \in S |-> IF s.k = 0 THEN s.b ELSE p[Soft!SquareAndMultiply(s, m)]]
    BY <2>2
  <2>. QED BY <2>3
<1>3. ExpLoop(m) = [s \in S |-> IF s.k = 0 THEN s.b ELSE ExpLoop(m)[Soft!SquareAndMultiply(s, m)]]
  BY <1>2, Zenon DEF ExpLoop
<1> DEFINE L == ExpLoop(m)
<1>4. \A s \in S : L[s] = IF s.k = 0 THEN s.b ELSE L[Soft!SquareAndMultiply(s, m)]
  <2>. HIDE DEF L, S
  <2>1. L = [s \in S |-> IF s.k = 0 THEN s.b ELSE L[Soft!SquareAndMultiply(s, m)]]
    BY <1>3 DEF L
  <2>. QED BY <2>1
<1>5. \A a, k : Soft!ModularExp(a, k, m) =
              IF k = 0 THEN 1 ELSE ExpLoop(m)[[A |-> a, b |-> IfOdd(k, a), k |-> k \div 2]]
  BY DEF Soft!ModularExp, ExpLoop, IfOdd
<1>. QED BY <1>4, <1>5

\* A pass keeps b times the power of the next square congruent.
LEMMA SoftExpPass ==
  ASSUME NEW m \in SoftModuli, NEW s \in Soft!ExpVars, s.A < m, s.b < m
  PROVE  LET t == Soft!SquareAndMultiply(s, m)
         IN  /\ t.A < m /\ t.b < m
             /\ (t.b * Power(t.A * t.A, t.k)) % m = (s.b * Power(s.A * s.A, s.k)) % m
<1>1. m \in Nat \ {0}
  BY DEF SoftModuli
<1>2. PICK A \in Nat, b \in Nat, k \in Nat, q \in Nat : A = s.A /\ b = s.b /\ k = s.k /\ q = A * A
  BY DEF Soft!ExpVars
<1>3. A < m /\ b < m
  BY <1>2
<1>4. PICK u \in Nat : u = q % m /\ u < m
  <2>1. q % m \in 0 .. m - 1
    BY <1>1, RadixAssumption, Unit!DivMod
  <2>. QED BY <1>1, <2>1
<1>5. Soft!ModMult(A, A, m) = u
  <2>1. A <= m
    BY <1>1, <1>3
  <2>2. Soft!ModMult(A, A, m) = (A * A) % m
    BY <2>1, SoftProduct
  <2>. QED BY <1>2, <1>4, <2>2
<1>6. PICK x \in Nat : x = u * b
  OBVIOUS
<1>7. Soft!ModMult(u, b, m) = x % m
  <2>1. u <= m
    BY <1>1, <1>4
  <2>2. Soft!ModMult(u, b, m) = (u * b) % m
    BY <2>1, SoftProduct
  <2>. QED BY <1>6, <2>2
<1>8. PICK y \in Nat : y = x % m /\ y < m /\ y % m = x % m
  <2>1. x % m \in 0 .. m - 1
    BY <1>1, RadixAssumption, Unit!DivMod
  <2>2. (x % m) % m = x % m
    BY <1>1, ReducedRemainder
  <2>. QED BY <1>1, <2>1, <2>2
<1> DEFINE t == Soft!SquareAndMultiply(s, m)
<1>9. t = [A |-> u, b |-> IF k % 2 = 1 THEN y ELSE b, k |-> k \div 2]
  BY <1>2, <1>5, <1>7, <1>8 DEF Soft!SquareAndMultiply
<1>10. t.A = u /\ t.b = (IF k % 2 = 1 THEN y ELSE b) /\ t.k = k \div 2
  BY <1>9
<1>. HIDE DEF t
<1>11. t.A < m /\ t.b < m
  BY <1>3, <1>4, <1>8, <1>10
<1>12. PICK p \in Nat : p = Power(u * u, k \div 2)
  <2>1. u * u \in Nat /\ k \div 2 \in Nat
    OBVIOUS
  <2>. QED BY <2>1, PowerEquations
<1>13. b % m = b
  BY <1>1, <1>3
<1>14. (((b % m) * IfOdd(k, u)) * p) % m = (b * Power(q, k)) % m
  <2>1. PICK v \in Nat : v = (b % m) * IfOdd(k, u)
    <3>1. b % m \in Nat /\ IfOdd(k, u) \in Nat
      BY <1>3, <1>13 DEF IfOdd
    <3>. QED BY <3>1
  <2>2. PICK w \in Nat : w = u * u
    OBVIOUS
  <2>3. (v * Power(w, k \div 2)) % m = (b * Power(q, k)) % m
    BY <1>1, <1>4, <2>1, <2>2, NextRound
  <2>. QED BY <1>12, <2>1, <2>2, <2>3
<1>15. (t.b * p) % m = ((b * IfOdd(k, u)) * p) % m
  <2>1. CASE k % 2 = 1
    <3>1. b * IfOdd(k, u) = x
      BY <1>6, <2>1 DEF IfOdd
    <3>2. Congruent(y, x, m) /\ Congruent(p, p, m)
      BY <1>8 DEF Congruent
    <3>3. Congruent(y * p, x * p, m)
      BY <1>1, <3>2, ProductRemainder
    <3>. QED BY <1>10, <2>1, <3>1, <3>3 DEF Congruent
  <2>2. CASE k % 2 # 1
    <3>1. b * IfOdd(k, u) = b
      BY <2>2 DEF IfOdd
    <3>. QED BY <1>10, <2>2, <3>1
  <2>. QED BY <2>1, <2>2
<1>16. (t.b * Power(t.A * t.A, t.k)) % m = (b * Power(q, k)) % m
  BY <1>10, <1>12, <1>13, <1>14, <1>15
<1>. QED BY <1>2, <1>11, <1>16 DEF t

\* The software takes powers.  With the modulus 1 and the exponent 0 it answers 1.
LEMMA SoftPower ==
  ASSUME NEW m \in SoftModuli \ {1}, NEW a \in Nat, a < m, NEW k \in Nat
  PROVE  Soft!ModularExp(a, k, m) = Power(a, k) % m
<1> DEFINE S == Soft!ExpVars
           size == [s \in S |-> s.k]
           base == [s \in S |-> s.b]
           step == [s \in S |-> Soft!SquareAndMultiply(s, m)]
           D == {s \in S : s.A < m /\ s.b < m}
           L == ExpLoop(m)
           want == [s \in S |-> (s.b * Power(s.A * s.A, s.k)) % m]
<1>0. m \in Nat \ {0} /\ m > 1 /\ m \in SoftModuli
  BY DEF SoftModuli
<1>1. /\ size \in [S -> Nat] /\ step \in [S -> S]
      /\ \A s \in S : size[s] # 0 => size[step[s]] < size[s]
  <2>1. \A s \in S : s.k \in Nat
    BY DEF Soft!ExpVars
  <2>2. \A s \in S : Soft!SquareAndMultiply(s, m) \in S /\ (s.k # 0 => Soft!SquareAndMultiply(s, m).k < s.k)
    BY <1>0, SoftExpTypes
  <2>. HIDE DEF S
  <2>. QED BY <2>1, <2>2
<1>2. D \in SUBSET S /\ \A s \in D : size[s] # 0 => step[s] \in D
  <2>1. \A s \in D : Soft!SquareAndMultiply(s, m) \in D
    BY <1>0, SoftExpTypes, SoftExpPass
  <2>. HIDE DEF S
  <2>. QED BY <2>1
<1>3. Loops(L, D, size, base, step)
  <2>1. \A s \in S : L[s] = IF s.k = 0 THEN s.b ELSE L[Soft!SquareAndMultiply(s, m)]
    BY <1>0, ExpLoopEquations
  <2>. HIDE DEF S, L
  <2>. QED BY <2>1 DEF Loops
<1>4. Loops(want, D, size, base, step)
  <2> SUFFICES ASSUME NEW s \in D
               PROVE  want[s] = IF s.k = 0 THEN s.b ELSE want[Soft!SquareAndMultiply(s, m)]
    BY DEF Loops
  <2>1. CASE s.k = 0
    <3>1. s.A \in Nat /\ s.b \in Nat /\ s.b < m /\ s.b * 1 = s.b
      BY DEF Soft!ExpVars
    <3>2. Power(s.A * s.A, 0) = 1
      <4>1. s.A * s.A \in Nat
        BY <3>1
      <4>. QED BY <4>1, PowerEquations
    <3>3. (s.b * Power(s.A * s.A, s.k)) % m = s.b
      <4>1. s.b * Power(s.A * s.A, s.k) = s.b
        BY <2>1, <3>1, <3>2
      <4>2. s.b % m = s.b
        BY <1>0, <3>1
      <4>. QED BY <4>1, <4>2
    <3>. QED BY <2>1, <3>3
  <2>2. CASE s.k # 0
    <3>1. Soft!SquareAndMultiply(s, m) \in S
      BY <1>0, SoftExpTypes
    <3>2. LET t == Soft!SquareAndMultiply(s, m)
          IN  (t.b * Power(t.A * t.A, t.k)) % m = (s.b * Power(s.A * s.A, s.k)) % m
      BY <1>0, SoftExpPass
    <3>. HIDE DEF S
    <3>. QED BY <2>2, <3>1, <3>2
  <2>. QED BY <2>1, <2>2
<1>5. \A s \in D : L[s] = want[s]
  <2>. HIDE DEF S, size, base, step, D, L, want
  <2>1. /\ \A s \in S : size[s] # 0 => size[step[s]] < size[s]
        /\ \A s \in D : size[s] # 0 => step[s] \in D
    BY <1>1, <1>2
  <2>2. D \in SUBSET S /\ size \in [S -> Nat] /\ step \in [S -> S]
    BY <1>1, <1>2
  <2>. QED BY <1>3, <1>4, <2>1, <2>2, LoopInvariant
<1>6. CASE k = 0
  <2>1. Power(a, 0) = 1
    BY PowerEquations
  <2>3. 1 % m = 1
    BY <1>0
  <2>2. Soft!ModularExp(a, k, m) = 1
    BY <1>0, <1>6, ExpLoopEquations
  <2>. QED BY <1>6, <2>1, <2>2, <2>3
<1>7. CASE k # 0
  <2> DEFINE first == [A |-> a, b |-> IfOdd(k, a), k |-> k \div 2]
  <2>1. first \in D
    BY <1>0 DEF Soft!ExpVars, IfOdd
  <2>2. Soft!ModularExp(a, k, m) = L[first]
    BY <1>0, <1>7, ExpLoopEquations
  <2>3. want[first] = (IfOdd(k, a) * Power(a * a, k \div 2)) % m
    <3>1. first \in S /\ first.A = a /\ first.b = IfOdd(k, a) /\ first.k = k \div 2
      BY <2>1
    <3>. HIDE DEF S, first
    <3>. QED BY <3>1
  <2>4. Power(a, k) = IfOdd(k, a) * Power(a * a, k \div 2)
    BY PowerByBit
  <2>. HIDE DEF first, L, want, D
  <2>. QED BY <1>5, <2>1, <2>2, <2>3, <2>4
<1>. QED BY <1>6, <1>7

\* For every size of the accelerator's keys and every size of the software's words,
\* rsacypher.vhd and rsa_crypto.c compute the same text from the same block below the
\* modulus, for the moduli from 2 up to half of the values of a word: up to 2^63, as
\* CryptoTest2 to CryptoTest4 of test.c have them.  Above, where the software
\* overflows, nothing is said.
THEOREM SoftwareAgrees == Spec => []HardwareMatchesSoftware
<1>1. FullInv => HardwareMatchesSoftware
  <2> SUFFICES ASSUME FullInv, done, job # NoJob, InSoftwareRange(job)
               PROVE  cypher = Soft!ModularExp(job.indata, job.inExp, job.inMod)
    BY DEF HardwareMatchesSoftware
  <2>1. job.indata \in Nat /\ job.inExp \in Nat
    <3>1. job \in Jobs
      BY DEF FullInv, IInv, TypeOK
    <3>2. job.indata \in Word /\ job.inExp \in Word
      BY <3>1 DEF Jobs, Requests
    <3>. QED BY <3>2, RadixAssumption DEF Word
  <2>3. PICK m \in SoftModuli \ {1} : m = job.inMod /\ job.indata < m
    BY SoftRadixAssumption DEF InSoftwareRange, SoftModuli
  <2>2. cypher = Power(job.indata, job.inExp) % job.inMod
    BY DEF FullInv, Answered
  <2>. QED BY <2>1, <2>2, <2>3, SoftPower
<1>. QED BY <1>1, AnswersRight, PTL
=============================================================================
