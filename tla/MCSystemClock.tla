---------------------------- MODULE MCSystemClock ----------------------------
\* Two alarms, for the callback of one to meet the other; a counter of five
\* values and the longest interval it allows, so that deadlines wrap.
EXTENDS SystemClock
MCIntervals == {0, 1, W - 2}

-----------------------------------------------------------------------------
\* The time of day, for a counter of 60 values and four ticks to a second.
LOCAL Tod == INSTANCE TimeOfDay WITH W <- 60, US <- 8, Rate <- 4

\* gettimeofday() returns what settimeofday() was given in the same tick, as the
\* comment of alt_settod.c promises, as long as the number of microseconds since
\* tick 0 fits in a word, 71 minutes in the code; later it may not.
ASSUME TimeIsKept ==
  LET kept(n) == \A t \in {x \in Tod!Times : x.sec \in {1, 15, 59}} :
                   Tod!GetTimeOfDay(Tod!SetTimeOfDay(t, n), n) = t
  IN  /\ \A n \in 0 .. 29 : kept(n)
      /\ ~kept(30)

-----------------------------------------------------------------------------
\* Exceptions that the interrupts come with, for words of four bits.
LOCAL Exc == INSTANCE Exceptions WITH Bits <- 4, Frame <- 6

\* What the instructions that are emulated are defined to compute.
Signed(x) == IF x < 8 THEN x ELSE x - 16
Defined(op, a, b) ==
  CASE op = "divu"   -> a \div b
    [] op = "div"    -> LET x == Signed(a)
                            y == Signed(b)
                            q == (IF x < 0 THEN -x ELSE x) \div (IF y < 0 THEN -y ELSE y)
                        IN  IF (x < 0) = (y < 0) THEN q ELSE Exc!U(-q)
    [] op = "mul"    -> (a * b) % 16
    [] op = "mulxuu" -> (a * b) \div 16
    [] op = "mulxsu" -> Exc!U((Signed(a) * b) \div 16)
    [] op = "mulxss" -> Exc!U((Signed(a) * Signed(b)) \div 16)

\* The emulation computes what the instruction is defined to, with every divisor
\* but 0, large ones too.
ASSUME EmulationIsRight ==
  \A op \in Exc!Operations, a, b \in Exc!Word :
    (op \in {"div", "divu"} => b # 0) =>
      Exc!Result(op, a, b) = Defined(op, a, b)

\* The program sees of an exception what the instruction does to its registers,
\* whatever the stack holds.  Not so, beyond the limitations that the comment of
\* alt_exception_muldiv.S names, with sp for a source and gp or et for the destination.
ASSUME ExceptionIsInvisible ==
  LET regs == [r \in Exc!Registers |-> IF r = 0 THEN 0 ELSE (5 * r + 3) % 16]
      stacks == {[r \in Exc!Registers |-> 0], [r \in Exc!Registers |-> 9]}
      Inst(op, a, b, dest) == [op |-> op, a |-> a, b |-> b, dest |-> dest, imm |-> 11]
      Done(i) == LET x == IF i.op = "muli" THEN Exc!Result("mul", regs[i.a], i.imm)
                          ELSE Exc!Result(i.op, regs[i.a], regs[i.b])
                 IN  [regs EXCEPT ![i.dest] = IF i.dest = 0 THEN 0 ELSE x]
      Right(i) == \A stack \in stacks :
                    Exc!Exception(regs, stack, i, FALSE) = [regs |-> Done(i), next |-> "following"]
      sources == Exc!Stored \ {Exc!sp}
      dests == Exc!Loaded \cup {0}
  IN  /\ \A op \in {"mul", "muli"}, a, b \in sources, dest \in dests : Right(Inst(op, a, b, dest))
      /\ \A a \in Exc!Registers \ sources : ~Right(Inst("mul", a, 2, 2))
      /\ \A dest \in Exc!Registers \ dests : ~Right(Inst("mul", 2, 6, dest))
==============================================================================
