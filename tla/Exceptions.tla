----------------------------- MODULE Exceptions -----------------------------
(***************************************************************************)
(* What an exception does to the program it interrupts: the entry and exit *)
(* of alt_exception_entry.S, the test for interrupts of alt_irq_entry.S,   *)
(* and the emulation of multiplications and divisions, which the processor *)
(* of this system does not have, by alt_exception_muldiv.S.                *)
(***************************************************************************)
EXTENDS Integers

CONSTANTS
  Bits,    \* of a word, 32
  Frame    \* bytes of the stack that the handler takes, 76 + 60

Radix == 2^Bits
Word == 0 .. Radix - 1
U(x) == x % Radix
Negative(x) == 2 * x >= Radix
Neg(x) == U(-x)
Bit(b) == IF b THEN 1 ELSE 0

-----------------------------------------------------------------------------
\* Shift and subtract: x is what is left of the dividend, and the quotient as it
\* comes in from the right.  That the remainder keeps its highest bit when it is
\* shifted is not tested.
Quotient(dividend, divisor) ==
  LET loop[count \in Nat, remainder \in Nat, x \in Nat] ==
        IF count = 0 THEN x
        ELSE LET shifted == U(2 * remainder + Bit(Negative(x)))
             IN  IF shifted < divisor THEN loop[count - 1, shifted, U(2 * x)]
                 ELSE loop[count - 1, shifted - divisor, U(2 * x) + 1]
  IN  loop[Bits, 0, dividend]

\* The quotient of the absolute values, with its sign.
SignedQuotient(a, b) ==
  LET Abs(x) == IF Negative(x) THEN Neg(x) ELSE x
      q == Quotient(Abs(a), Abs(b))
  IN  IF Negative(a) # Negative(b) THEN Neg(q) ELSE q

\* Shift and add, the lower half of the product from the highest bit of the
\* multiplier on and the upper half from the lowest, whose carry is shifted in.
Product(multiplicand, multiplier) ==
  LET loop[count \in Nat, low \in Nat, high \in Nat, up \in Nat, down \in Nat] ==
        IF count = 0 THEN [low |-> low, high |-> high]
        ELSE LET sum == U(high + (down % 2) * multiplicand)
                 carry == Bit(down % 2 = 1 /\ sum < multiplicand)
             IN  loop[count - 1,
                      U(U(2 * low) + Bit(Negative(up)) * multiplicand),
                      (sum \div 2) + carry * (Radix \div 2),
                      U(2 * up), down \div 2]
  IN  loop[Bits, 0, 0, multiplier, multiplier]

\* The signed products from the unsigned one.
HighSU(a, b) == U(Product(a, b).high - Bit(Negative(a)) * b)
HighSS(a, b) == U(HighSU(a, b) - Bit(Negative(b)) * a)

Operations == {"divu", "div", "mul", "mulxuu", "mulxsu", "mulxss"}

Result(op, a, b) ==
  CASE op = "divu"   -> Quotient(a, b)
    [] op = "div"    -> SignedQuotient(a, b)
    [] op = "mul"    -> Product(a, b).low
    [] op = "mulxuu" -> Product(a, b).high
    [] op = "mulxsu" -> HighSU(a, b)
    [] op = "mulxss" -> HighSS(a, b)

-----------------------------------------------------------------------------
\* Registers and the stack.

et == 24
bt == 25
gp == 26
sp == 27
fp == 28
ea == 29
ba == 30
ra == 31

\* All but the one in which the processor gives the handler its return address.
Registers == (0 .. 31) \ {ea}

\* The frame has a slot for every register, found by its number.  In those that
\* are not written to is what the stack had there.
Stored == Registers \ {et, bt, ba}
Save(regs, stack) ==
  [r \in Registers |->
     CASE r = 0  -> 0
       [] r = sp -> U(regs[sp] - Frame)
       [] r \in Stored \ {0, sp} -> regs[r]
       [] OTHER -> stack[r]]

\* Of the slots these are loaded again, and the stack pointer is what it was.
Loaded == 1 .. 23 \cup {fp, ra}
Restore(regs, frame) == [r \in Registers |-> IF r \in Loaded THEN frame[r] ELSE regs[r]]

\* An instruction: two source registers and a destination, or with muli one source
\* and a constant.
Emulate(regs, stack, i) ==
  LET frame == Save(regs, stack)
      result == IF i.op = "muli" THEN Result("mul", frame[i.a], i.imm)
                ELSE Result(i.op, frame[i.a], frame[i.b])
  IN  Restore(regs, [frame EXCEPT ![i.dest] = result])

\* An exception at the instruction i: an interrupt if one is pending and was
\* enabled, after which i is executed again, an emulated instruction, which is
\* not, or one that nobody handles.  The interrupt handlers, compiled functions,
\* leave the registers that are not saved as they are.
Exception(regs, stack, i, interrupted) ==
  IF interrupted THEN [regs |-> regs, next |-> "same"]
  ELSE IF i.op \in Operations \cup {"muli"}
       THEN [regs |-> Emulate(regs, stack, i), next |-> "following"]
  ELSE [regs |-> regs, next |-> "break"]
=============================================================================
