----------------------------- MODULE BlockStream -----------------------------
(***************************************************************************)
(* What the accelerator promises to whoever streams words through it: it   *)
(* takes the NWords words of a block, then gives NWords words of one       *)
(* answer, made of that block and of the parameters as they were when the  *)
(* computation started, in order and each once; it takes no word of the    *)
(* next block before the last of them has been taken.  The cipher itself   *)
(* is not interpreted: an answer is the data and parameters it is made of. *)
(***************************************************************************)
EXTENDS Integers

CONSTANTS
  NWords,     \* words per block
  Word,       \* what a word of the data can be,
  ExpWord,    \* of the exponent,
  ModWord,    \* and of the modulus
  Zero,       \* the word of a register after a reset
  NoAnswer

VARIABLES
  received,   \* the words of the incomplete block, by position
  answer,     \* the answer being given, NoAnswer between blocks
  next,       \* position of the next word of it
  shown,      \* the word on the output bus, as answer and position, or NoAnswer
  exp, mod    \* parameters

stream == <<received, answer, next, shown>>
vars == <<stream, exp, mod>>

Position == 0 .. NWords - 1

Nothing == [i \in {} |-> Zero]

Accept(w) ==
  /\ answer = NoAnswer
  /\ \E k \in Position :
       /\ DOMAIN received = 0 .. k - 1
       /\ received' = [i \in 0 .. k |-> IF i = k THEN w ELSE received[i]]
  /\ UNCHANGED <<answer, next, shown>>

Start ==
  /\ answer = NoAnswer
  /\ DOMAIN received = Position
  /\ answer' = [data |-> received, exp |-> exp, mod |-> mod]
  /\ received' = Nothing
  /\ UNCHANGED <<next, shown>>

\* A word stays on the bus until it is taken.
Present ==
  /\ answer # NoAnswer
  /\ shown = NoAnswer
  /\ shown' = <<answer, next>>
  /\ UNCHANGED <<received, answer, next>>

Emit ==
  /\ shown # NoAnswer
  /\ IF next = NWords - 1
       THEN answer' = NoAnswer /\ next' = 0
       ELSE next' = next + 1 /\ UNCHANGED answer
  /\ shown' = NoAnswer
  /\ UNCHANGED received

\* The parameters may change at any time, also while a block starts.
Configure == exp' \in [Position -> ExpWord] /\ mod' \in [Position -> ModWord]

Restart ==
  /\ received' = Nothing
  /\ answer' = NoAnswer
  /\ next' = 0
  /\ shown' = NoAnswer
  /\ exp' = [i \in Position |-> Zero]
  /\ mod' = [i \in Position |-> Zero]

Init ==
  /\ received = Nothing
  /\ answer = NoAnswer
  /\ next = 0
  /\ shown = NoAnswer
  /\ exp = [i \in Position |-> Zero]
  /\ mod = [i \in Position |-> Zero]

Transfer == (\E w \in Word : Accept(w)) \/ Start \/ Present \/ Emit

Next == (Configure /\ (Transfer \/ UNCHANGED stream)) \/ Restart

Safety == Init /\ [][Next]_vars

\* A complete block is answered, to the last word.
Spec ==
  /\ Safety
  /\ WF_vars(Configure /\ Start)
  /\ WF_vars(Configure /\ Present)
  /\ WF_vars(Configure /\ Emit)
=============================================================================
