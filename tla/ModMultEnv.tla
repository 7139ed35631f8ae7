----------------------------- MODULE ModMultEnv -----------------------------
(***************************************************************************)
(* One multiplier of modmult.vhd with a client that strobes it with        *)
(* arbitrary operands at arbitrary edges.  The header of the file asks for *)
(* a multiplicand and a multiplier below the modulus; the client here only *)
(* keeps the multiplicand below twice the modulus, which is what the       *)
(* registers turn out to need.  job remembers the operands of the strobe   *)
(* the multiplier accepted last.                                           *)
(***************************************************************************)
EXTENDS ModMult

CONSTANTS NoJob, NoAnswer

VARIABLES
  mm,       \* the registers of the multiplier
  job

vars == <<mm, job>>

Operands == [mpand : Word, mplier : Word, modulus : Word \ {0}]

Admissible(o) == o \in Operands /\ o.mpand < 2 * o.modulus

Init == mm = PowerUp /\ job = NoJob

Strobe ==
  \E o \in Operands :
    /\ Admissible(o)
    /\ ready(mm)
    /\ mm' = Clock(mm, TRUE, o.mpand, o.mplier, o.modulus)
    /\ job' = o

\* The edges of a running multiplication; what the buses carry does not matter.
Work ==
  /\ ~ready(mm)
  /\ mm' = Clock(mm, FALSE, 0, 0, 0)
  /\ UNCHANGED job

Restart == mm' = Idle(mm) /\ job' = NoJob

Next == Strobe \/ Work \/ Restart

\* The clock does not stop.
Spec == Init /\ [][Next]_vars /\ WF_vars(Work)

-----------------------------------------------------------------------------
\* Every register stays within the width of its declaration, and an accepted
\* job is an admissible one.
TypeOK ==
  /\ mm \in Registers
  /\ job = NoJob \/ Admissible(job)

\* While it runs, the partial product plus what the bits still in mpreg will
\* add is congruent to the product asked for: the loop invariant of the
\* shift-and-add of modmult.vhd (process combine), which is lost as soon as one
\* of the two registers is reduced wrongly or shifted out of step.  Once idle
\* again, nothing is left in mpreg.
\* (The remainders of two congruent numbers are compared, which TLC can do.)
PartialProduct ==
  job # NoJob =>
    /\ (mm.prodreg + mm.mpreg * mm.mcreg) % job.modulus
         = (job.mpand * job.mplier) % job.modulus
    /\ ready(mm) => mm.mpreg = 0

\* modmult does what its clients expect of a multiplier: the product of the
\* operands sampled with the strobe, whatever the buses carry afterwards,
\* stable until the next strobe; and every job ends.
Mul == INSTANCE StrobedUnit WITH
         Jobs <- {o \in Operands : Admissible(o)},
         Result <- [o \in Operands |-> (o.mpand * o.mplier) % o.modulus],
         Output <- Word,
         busy <- ~ready(mm),
         answer <- IF ready(mm) THEN product(mm) ELSE NoAnswer

MultiplierSpec == Mul!Spec
=============================================================================
