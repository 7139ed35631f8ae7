----------------------------- MODULE RsaCypherEnv -----------------------------
(***************************************************************************)
(* The exponentiator of rsacypher.vhd with a client that strobes it with   *)
(* arbitrary data, exponents and moduli.  The header of the file asks for  *)
(* data below the modulus; twice the modulus is enough.  job remembers     *)
(* what was sampled with the strobe.                                       *)
(***************************************************************************)
EXTENDS RsaCypher

CONSTANTS
  Moduli,       \* the moduli that the client uses
  NoJob, NoAnswer

ASSUME ModuliAssumption == Moduli \subseteq Word \ {0}

VARIABLE job

vars == <<coreVars, job>>

Requests == [indata : Word, inExp : Word, inMod : Moduli]
Jobs == {r \in Requests : r.indata < 2 * r.inMod}

Init == CypherInit /\ job = NoJob

Strobe ==
  \E r \in Jobs :
    /\ done
    /\ Edge(TRUE, r.indata, r.inExp, r.inMod)
    /\ job' = r

\* While it computes the strobe and the buses are not read.
Compute ==
  /\ ~done
  /\ Edge(FALSE, 0, 0, 0)
  /\ UNCHANGED job

Restart == ResetCypher /\ job' = NoJob

Next == Strobe \/ Compute \/ Restart

\* The clock does not stop.
Spec == Init /\ [][Next]_vars /\ WF_vars(Compute)

-----------------------------------------------------------------------------
TypeOK == CypherTypeOK /\ (job = NoJob \/ job \in Jobs)

\* 0 to the power of 0 is 1.
Power(x, n) ==
  LET p[k \in Nat] == IF k = 0 THEN 1 ELSE x * p[k - 1]
  IN  p[n]

\* The two multipliers finish at different times; neither is ever strobed while
\* it still runs, where the strobe would be lost and the round never end, and
\* the output is not taken before both have stopped.
Lockstep ==
  /\ multgo => bothrdy /\ ~done
  /\ done => bothrdy

\* Each strobe finds operands that modmult can reduce, whatever the products the
\* registers followed while the multipliers were running.
OperandsAdmissible ==
  multgo /\ job # NoJob =>
    /\ modregmult = job.inMod /\ modregsqr = job.inMod
    /\ tempin < 2 * job.inMod
    /\ root < 2 * job.inMod

\* At the end of every round the product so far, times the current square to the
\* power of the exponent bits that are left, is the power asked for: the loop
\* invariant of square-and-multiply.  It relates four registers that are each
\* updated by a process of its own, at edges that must fit.
RoundInvariant ==
  ~done /\ RoundOver /\ job # NoJob =>
    (tempout * Power(square, count)) % job.inMod = Power(job.indata, job.inExp) % job.inMod

\* rsacypher answers every job with the power modulo the modulus, keeps the
\* answer until the next strobe, and does end.
Exponentiator == INSTANCE StrobedUnit WITH
         Result <- [r \in Jobs |-> Power(r.indata, r.inExp) % r.inMod],
         Output <- Word,
         busy <- ~done,
         answer <- IF done THEN cypher ELSE NoAnswer

ExponentiatorSpec == Exponentiator!Spec
=============================================================================
