------------------------------ MODULE ModMult ------------------------------
(***************************************************************************)
(* The shift-and-add modular multiplier of modmult.vhd.  The registers of  *)
(* a multiplier are a record r, so that RsaCypher can hold two of them;    *)
(* the combinational signals (prodreg1 .. prodreg4, mcreg1, mcreg2,        *)
(* product, ready) are operators on it, and Clock(r, ...) is what it holds *)
(* after a rising edge.                                                    *)
(*                                                                         *)
(* A signal of n bits is a number below 2^n.  Radix stands for 2^MPWID:    *)
(* operands are numbers below Radix, the internal registers, two bits      *)
(* wider, numbers below 4 * Radix, and their arithmetic wraps there.  No   *)
(* definition uses that Radix is a power of two.                           *)
(***************************************************************************)
EXTENDS Integers

CONSTANT Radix      \* 2^MPWID

ASSUME RadixAssumption == Radix \in Nat \ {0, 1}

Word == 0 .. Radix - 1          \* std_logic_vector(MPWID-1 downto 0)
WideWord == 0 .. 4 * Radix - 1  \* std_logic_vector(MPWID+1 downto 0)

Registers == [mpreg : Word, mcreg : WideWord, modreg1 : WideWord,
              modreg2 : WideWord, prodreg : WideWord, first : BOOLEAN]

-----------------------------------------------------------------------------
\* Combinational part.

\* Mutant: integers in place of vectors, so that a difference has no sign bit.
WideUnbounded(x) == x

Wide(x) == x % (4 * Radix)

\* Bit MPWID+1 of a wide word: the sign of a difference.
Negative(x) == x >= 2 * Radix

\* Bit MPWID of a wide word, the one mcreg1 is tested at.
BitMpwid(x) == (x \div Radix) % 2 = 1

Prodreg1(r) == IF r.mpreg % 2 = 1 THEN Wide(r.prodreg + r.mcreg) ELSE r.prodreg
Prodreg2(r) == Wide(Prodreg1(r) - r.modreg1)
Prodreg3(r) == Wide(Prodreg1(r) - r.modreg2)

\* Mutant: the sum is reduced by the modulus, never by twice the modulus.
Prodreg4Once(r) == IF Negative(Prodreg2(r)) THEN Prodreg1(r) ELSE Prodreg2(r)

\* modstate = "11", "10" and others.
Prodreg4(r) ==
  IF Negative(Prodreg3(r)) /\ Negative(Prodreg2(r)) THEN Prodreg1(r)
  ELSE IF Negative(Prodreg3(r)) THEN Prodreg2(r)
  ELSE Prodreg3(r)

Mcreg1(r) == Wide(r.mcreg - r.modreg1)
Mcreg2(r) == IF BitMpwid(Mcreg1(r)) THEN r.mcreg ELSE Mcreg1(r)

product(r) == Prodreg4(r) % Radix
ready(r) == r.first

-----------------------------------------------------------------------------
\* What a rising edge makes of the registers, by the branch of process combine.

\* A strobe while idle samples the operands.
Load(mpand, mplier, modulus) ==
  [mpreg |-> mplier, mcreg |-> mpand, modreg1 |-> modulus, modreg2 |-> 2 * modulus,
   prodreg |-> 0, first |-> FALSE]

\* Mutant: the multiplicand is doubled without being reduced.
ShiftUnreduced(r) ==
  [r EXCEPT !.mcreg = 2 * (@ % (2 * Radix)), !.mpreg = @ \div 2, !.prodreg = Prodreg4(r)]

\* One bit of the multiplier: double the multiplicand, keep the partial product.
Shift(r) ==
  [r EXCEPT !.mcreg = 2 * (Mcreg2(r) % (2 * Radix)),
            !.mpreg = @ \div 2,
            !.prodreg = Prodreg4(r)]

\* No bit is left, or the asynchronous reset: the multiplier is idle, its registers,
\* and so the product on its bus, stay as they are.
Idle(r) == [r EXCEPT !.first = TRUE]

\* While it runs, the strobe and the operands are not read.
Clock(r, ds, mpand, mplier, modulus) ==
  CASE ready(r) /\ ds -> Load(mpand, mplier, modulus)
    [] ready(r) /\ ~ds -> r
    [] ~ready(r) /\ r.mpreg # 0 -> Shift(r)
    [] ~ready(r) /\ r.mpreg = 0 -> Idle(r)

\* The data registers have no reset value; the device powers up with zeros.
PowerUp ==
  [mpreg |-> 0, mcreg |-> 0, modreg1 |-> 0, modreg2 |-> 0, prodreg |-> 0, first |-> TRUE]
=============================================================================
