------------------------------- MODULE RsaCall -------------------------------
(***************************************************************************)
(* What rsa_crypto_hw promises its caller: while a call is in progress the *)
(* output buffer may hold anything; the call returns, successfully, and    *)
(* then every word of the output is the word of the answer to its block,   *)
(* computed from this call's data, exponent and modulus.                   *)
(***************************************************************************)
EXTENDS Integers

CONSTANTS
  Length,           \* words of a buffer
  AnswerWord(_, _), \* AnswerWord(call, k): what word k of the output must be
  Unknown           \* contents of the output buffer during a call

VARIABLES
  calls,            \* number of calls made
  calling,
  output

vars == <<calls, calling, output>>

Init ==
  /\ calls = 0
  /\ calling = FALSE
  /\ output = Unknown

Call ==
  /\ ~calling
  /\ calling' = TRUE
  /\ calls' = calls + 1
  /\ output' = Unknown

Return ==
  /\ calling
  /\ calling' = FALSE
  /\ output' = [k \in 0 .. Length - 1 |-> AnswerWord(calls, k)]
  /\ UNCHANGED calls

Next == Call \/ Return

Safety == Init /\ [][Next]_vars

Spec == Safety /\ WF_vars(Return)
=============================================================================
