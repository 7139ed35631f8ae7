------------------------------ MODULE RsaCypher ------------------------------
(***************************************************************************)
(* The square-and-multiply exponentiator of rsacypher.vhd, one state per   *)
(* rising clock edge: two multipliers of modmult.vhd, strobed together by  *)
(* multgo, and four clocked processes that feed their results back into    *)
(* their inputs.  Every process is an operator of its own and one edge is  *)
(* their conjunction; all of them read the values from before the edge.    *)
(***************************************************************************)
EXTENDS ModMult     \* with MPWID = KEYSIZE

VARIABLES
  mult, sqr,                \* the registers of modmultiply and modsqr
  modregsqr, modregmult,    \* the modulus, during operation
  root,                     \* value to be squared
  sqrin, tempin,            \* factors of the next product
  count,                    \* what is left of the exponent
  multgo,                   \* strobe of both multipliers
  done,                     \* output ready
  cypher                    \* output

coreVars == <<mult, sqr, modregsqr, modregmult, root, sqrin, tempin, count, multgo,
              done, cypher>>

CypherTypeOK ==
  /\ mult \in Registers
  /\ sqr \in Registers
  /\ {modregsqr, modregmult, root, sqrin, tempin, count, cypher} \subseteq Word
  /\ multgo \in BOOLEAN
  /\ done \in BOOLEAN

-----------------------------------------------------------------------------
tempout == product(mult)
square == product(sqr)
bothrdy == ready(mult) /\ ready(sqr)

\* Both products are there and no new ones have been started.
RoundOver == bothrdy /\ ~multgo

\* Mutant: the output is taken as soon as no bit of the exponent is left.
mngcountEarly(ds, inExp) ==
  \/ /\ done /\ ds
     /\ count' = inExp \div 2
     /\ done' = FALSE
     /\ UNCHANGED cypher
  \/ /\ ~done /\ bothrdy /\ count = 0
     /\ cypher' = tempout
     /\ done' = TRUE
     /\ UNCHANGED count
  \/ /\ ~done /\ RoundOver /\ count # 0
     /\ count' = count \div 2
     /\ UNCHANGED <<done, cypher>>
  \/ /\ IF done THEN ~ds ELSE ~(bothrdy /\ (count # 0 => ~multgo))
     /\ UNCHANGED <<count, done, cypher>>

mngcount(ds, inExp) ==
  \/ /\ done /\ ds
     /\ count' = inExp \div 2
     /\ done' = FALSE
     /\ UNCHANGED cypher
  \/ /\ ~done /\ RoundOver /\ count = 0
     /\ cypher' = tempout
     /\ done' = TRUE
     /\ UNCHANGED count
  \/ /\ ~done /\ RoundOver /\ count # 0
     /\ count' = count \div 2
     /\ UNCHANGED <<done, cypher>>
  \/ /\ IF done THEN ~ds ELSE ~RoundOver
     /\ UNCHANGED <<count, done, cypher>>

\* Mutant: the squaring keeps the modulus of the job before.
setupsqrStale(ds, indata, inMod) ==
  /\ root' = IF ~done THEN square ELSE IF ds THEN indata ELSE root
  /\ UNCHANGED modregsqr

setupsqr(ds, indata, inMod) ==
  \/ /\ done /\ ds
     /\ modregsqr' = inMod
     /\ root' = indata
  \/ /\ ~done
     /\ root' = square
     /\ UNCHANGED modregsqr
  \/ /\ done /\ ~ds
     /\ UNCHANGED <<root, modregsqr>>

\* A factor that is used when the exponent's lowest bit is 1.
IfOdd(e, factor) == IF e % 2 = 1 THEN factor ELSE 1

\* Mutant: the factor is chosen by the bit after the current one.
setupmultShifted(ds, indata, inExp, inMod) ==
  \/ /\ done /\ ds
     /\ tempin' = IfOdd(inExp, indata)
     /\ sqrin' = 1
     /\ modregmult' = inMod
  \/ /\ ~done
     /\ tempin' = tempout
     /\ sqrin' = IfOdd(count \div 2, square)
     /\ UNCHANGED modregmult
  \/ /\ done /\ ~ds
     /\ UNCHANGED <<tempin, sqrin, modregmult>>

setupmult(ds, indata, inExp, inMod) ==
  \/ /\ done /\ ds
     /\ tempin' = IfOdd(inExp, indata)
     /\ sqrin' = 1
     /\ modregmult' = inMod
  \/ /\ ~done
     /\ tempin' = tempout
     /\ sqrin' = IfOdd(count, square)
     /\ UNCHANGED modregmult
  \/ /\ done /\ ~ds
     /\ UNCHANGED <<tempin, sqrin, modregmult>>

\* Mutant: a round is started without waiting for both multipliers.
cryptoUnready(ds) == multgo' = (~multgo /\ IF done THEN ds ELSE count # 0)

\* A strobe lasts one cycle: the last assignment of process crypto wins.
crypto(ds) ==
  multgo' = /\ ~multgo
            /\ IF done THEN ds ELSE count # 0 /\ bothrdy

Edge(ds, indata, inExp, inMod) ==
  /\ mngcount(ds, inExp)
  /\ setupsqr(ds, indata, inMod)
  /\ setupmult(ds, indata, inExp, inMod)
  /\ crypto(ds)
  /\ mult' = Clock(mult, multgo, tempin, sqrin, modregmult)
  /\ sqr' = Clock(sqr, multgo, root, root, modregsqr)

\* The asynchronous reset of all the processes; cypher keeps its value.
ResetCypher ==
  /\ count' = 0
  /\ done' = TRUE
  /\ root' = 0 /\ modregsqr' = 0
  /\ tempin' = 0 /\ sqrin' = 0 /\ modregmult' = 0
  /\ multgo' = FALSE
  /\ mult' = Idle(mult)
  /\ sqr' = Idle(sqr)
  /\ UNCHANGED cypher

\* After the reset that follows power-up.
CypherInit ==
  /\ count = 0
  /\ done = TRUE
  /\ root = 0 /\ modregsqr = 0
  /\ tempin = 0 /\ sqrin = 0 /\ modregmult = 0
  /\ multgo = FALSE
  /\ mult = PowerUp
  /\ sqr = PowerUp
  /\ cypher = 0
=============================================================================
