----------------------------- MODULE RsaWrapper -----------------------------
(***************************************************************************)
(* The accelerator as the processor sees it: rsa_wrapper.vhd, one state    *)
(* per rising clock edge.  Words arrive over an Avalon-ST sink (valid,     *)
(* ready, data), fill input_sample, are handed to the RSA core, and the    *)
(* core's output leaves word by word over an Avalon-ST source, while the   *)
(* parameter registers may be written over Avalon-MM at any edge.  Each    *)
(* clocked process is an operator and an edge is their conjunction; the    *)
(* combinational process streaming_protocol is the operator next_state     *)
(* and the output signals.                                                 *)
(*                                                                         *)
(* A counter of bits that moves by 32 is a position among the NWords =     *)
(* BITSIZE / 32 words of a block.  The core is RSACypher by what           *)
(* StrobedUnit promises of it: the block it has sampled stands for the     *)
(* power it computes.                                                      *)
(***************************************************************************)
EXTENDS Integers

CONSTANTS
  NWords,     \* BITSIZE / 32
  Word,       \* the values of a data word that are told apart
  ExpWord,    \* those of a word of the exponent,
  ModWord,    \* and of the modulus
  Zero,       \* the word 0
  NoAnswer

VARIABLES
  exp_reg, mod_reg, exp_cnt, mod_cnt,
  input_sample, in_cnt, input_read_done,
  out_cnt, output_write_done, output_cnt_inc,
  current_state,
  rsa_ready,        \* done of the core
  core_job,         \* what the core has sampled
  cypher            \* the core's output register: output_sample

paramVars == <<exp_reg, mod_reg, exp_cnt, mod_cnt>>
inputVars == <<input_sample, in_cnt, input_read_done>>
outputVars == <<out_cnt, output_write_done, output_cnt_inc>>
coreVars == <<rsa_ready, core_job, cypher>>
vars == <<paramVars, inputVars, outputVars, current_state, coreVars>>

State == {"input_wait", "input_read", "rsa_start", "rsa_process", "output_wait",
          "output_write"}

Position == 0 .. NWords - 1
Block == [Position -> Word]
Exponent == [Position -> ExpWord]
Modulus == [Position -> ModWord]
Cleared == [i \in Position |-> Zero]

Jobs == [data : Block, exp : Exponent, mod : Modulus]

ASSUME WrapperAssumption ==
  /\ NWords \in Nat \ {0}
  /\ Zero \in Word \cap ExpWord \cap ModWord
  /\ NoAnswer \notin Jobs \cup (Jobs \X Position)

\* Mutant: the counter is not put back to 0.
AfterUnwrapped(p) == p + 1

\* The position after p; it wraps at the end of the block.
After(p) == IF p + 1 = NWords THEN 0 ELSE p + 1

-----------------------------------------------------------------------------
\* Combinational process streaming_protocol.

st_in_ready == current_state = "input_wait"
st_out_valid == current_state = "output_wait"
rsa_select == current_state = "rsa_start"

\* Which word of which answer is on the bus.
st_out_data == <<cypher, out_cnt>>

\* Mutant: the answer is given out without waiting for the core.
next_stateUnready(st_in_valid, st_out_ready) ==
  CASE current_state = "input_wait" ->
         IF st_in_valid THEN "input_read" ELSE "input_wait"
    [] current_state = "input_read" ->
         IF input_read_done THEN "rsa_start" ELSE "input_wait"
    [] current_state = "rsa_start" -> "output_wait"
    [] current_state = "rsa_process" -> "output_wait"
    [] current_state = "output_wait" ->
         IF st_out_ready THEN "output_write" ELSE "output_wait"
    [] current_state = "output_write" ->
         IF output_write_done THEN "input_wait" ELSE "output_wait"

next_state(st_in_valid, st_out_ready) ==
  CASE current_state = "input_wait" ->
         IF st_in_valid THEN "input_read" ELSE "input_wait"
    [] current_state = "input_read" ->
         IF input_read_done THEN "rsa_start" ELSE "input_wait"
    [] current_state = "rsa_start" ->
         IF rsa_ready THEN "rsa_process" ELSE "rsa_start"
    [] current_state = "rsa_process" ->
         IF rsa_ready THEN "output_wait" ELSE "rsa_process"
    [] current_state = "output_wait" ->
         IF st_out_ready THEN "output_write"
         ELSE IF output_write_done THEN "input_wait" ELSE "output_wait"
    [] current_state = "output_write" ->
         IF output_write_done THEN "input_wait"
         ELSE IF output_cnt_inc THEN "output_wait" ELSE "output_write"

-----------------------------------------------------------------------------
\* Clocked processes.  write is what the Avalon-MM slave sees at the edge.

Writes == [reg : {"exp"}, data : ExpWord] \cup [reg : {"mod"}, data : ModWord]
          \cup {[reg |-> "none"]}

write_exp_reg(write) ==
  IF write.reg = "exp"
  THEN /\ exp_reg' = [exp_reg EXCEPT ![exp_cnt] = write.data]
       /\ exp_cnt' = After(exp_cnt)
  ELSE UNCHANGED <<exp_reg, exp_cnt>>

write_mod_reg(write) ==
  IF write.reg = "mod"
  THEN /\ mod_reg' = [mod_reg EXCEPT ![mod_cnt] = write.data]
       /\ mod_cnt' = After(mod_cnt)
  ELSE UNCHANGED <<mod_reg, mod_cnt>>

\* Mutant: input_read_done is never reset.
read_inputsSticky(ns, st_in_data) ==
  /\ IF ns = "input_read"
     THEN /\ input_sample' = [input_sample EXCEPT ![in_cnt] = st_in_data]
          /\ in_cnt' = After(in_cnt)
     ELSE UNCHANGED <<input_sample, in_cnt>>
  /\ input_read_done' = (input_read_done \/ (ns = "input_read" /\ in_cnt + 1 = NWords))

read_inputs(ns, st_in_data) ==
  /\ IF ns = "input_read"
     THEN /\ input_sample' = [input_sample EXCEPT ![in_cnt] = st_in_data]
          /\ in_cnt' = After(in_cnt)
     ELSE UNCHANGED <<input_sample, in_cnt>>
  /\ input_read_done' = /\ ns # "rsa_start"
                        /\ input_read_done \/ (ns = "input_read" /\ in_cnt + 1 = NWords)

\* Mutant: the output is done one word too early.
write_outputsShort(ns) ==
  /\ out_cnt' = IF ns = "output_write" THEN After(out_cnt) ELSE out_cnt
  /\ output_cnt_inc' = (ns = "output_write")
  /\ output_write_done' = /\ ns # "input_wait"
                          /\ \/ output_write_done
                             \/ ns = "output_write" /\ out_cnt + 2 = NWords

write_outputs(ns) ==
  /\ out_cnt' = IF ns = "output_write" THEN After(out_cnt) ELSE out_cnt
  /\ output_cnt_inc' = (ns = "output_write")
  /\ output_write_done' = /\ ns # "input_wait"
                          /\ \/ output_write_done
                             \/ ns = "output_write" /\ out_cnt + 1 = NWords

control_fsm(ns) == current_state' = ns

\* The core at the same edge: it samples when strobed and idle; once it
\* computes it takes some edges to finish.
CoreSample ==
  /\ rsa_ready /\ rsa_select
  /\ rsa_ready' = FALSE
  /\ core_job' = [data |-> input_sample, exp |-> exp_reg, mod |-> mod_reg]
  /\ UNCHANGED cypher

CoreFinish ==
  /\ ~rsa_ready
  /\ rsa_ready' = TRUE
  /\ cypher' = core_job
  /\ UNCHANGED core_job

CoreHold ==
  /\ ~(rsa_ready /\ rsa_select)
  /\ UNCHANGED coreVars

\* One rising edge, by what the core does at it.
Edge(valid, data, out_ready, write) ==
  LET ns == next_state(valid, out_ready)
  IN  /\ write_exp_reg(write)
      /\ write_mod_reg(write)
      /\ read_inputs(ns, data)
      /\ write_outputs(ns)
      /\ control_fsm(ns)

EdgeWith(Core) ==
  /\ Core
  /\ \E valid, out_ready \in BOOLEAN, data \in Word, write \in Writes :
       Edge(valid, data, out_ready, write)

\* The asynchronous reset; input_sample and the core's data have no reset value.
Reset ==
  /\ exp_reg' = Cleared /\ mod_reg' = Cleared
  /\ exp_cnt' = 0 /\ mod_cnt' = 0
  /\ in_cnt' = 0 /\ input_read_done' = FALSE
  /\ out_cnt' = 0 /\ output_write_done' = FALSE /\ output_cnt_inc' = FALSE
  /\ current_state' = "input_wait"
  /\ rsa_ready' = TRUE
  /\ UNCHANGED <<input_sample, core_job, cypher>>

Init ==
  /\ exp_reg = Cleared /\ mod_reg = Cleared
  /\ exp_cnt = 0 /\ mod_cnt = 0
  /\ input_sample = Cleared /\ in_cnt = 0 /\ input_read_done = FALSE
  /\ out_cnt = 0 /\ output_write_done = FALSE /\ output_cnt_inc = FALSE
  /\ current_state = "input_wait"
  /\ rsa_ready = TRUE
  /\ core_job = [data |-> Cleared, exp |-> Cleared, mod |-> Cleared]
  /\ cypher = core_job

Clock == EdgeWith(CoreSample) \/ EdgeWith(CoreFinish) \/ EdgeWith(CoreHold)

Next == Clock \/ Reset

\* The clock does not stop, so what does not wait for an input happens; whoever
\* takes the output is ready again and again (the receiving SGDMA, while it has
\* a descriptor); a computation ends (RsaCypherEnv).  Nobody has to send a word.
Advance ==
  /\ current_state # "input_wait"
  /\ EdgeWith(CoreSample) \/ EdgeWith(CoreHold)
  /\ current_state' # current_state

Fairness == WF_vars(Advance) /\ WF_vars(EdgeWith(CoreFinish))

Spec == Init /\ [][Next]_vars /\ Fairness

-----------------------------------------------------------------------------
TypeOK ==
  /\ exp_reg \in Exponent /\ mod_reg \in Modulus
  /\ exp_cnt \in Position /\ mod_cnt \in Position
  /\ input_sample \in Block /\ in_cnt \in Position /\ input_read_done \in BOOLEAN
  /\ out_cnt \in Position /\ output_write_done \in BOOLEAN /\ output_cnt_inc \in BOOLEAN
  /\ current_state \in State
  /\ rsa_ready \in BOOLEAN
  /\ core_job \in Jobs /\ cypher \in Jobs

\* The states in which the block in input_sample has been handed to the core.
HandedOver == current_state \in {"rsa_process", "output_wait", "output_write"}

\* The flags that the clocked processes keep for the state machine are set
\* exactly where it reads them: input_read_done when the last word has just been
\* sampled, output_write_done when the last word has just left, and each counter
\* is back at 0 before the other direction starts.  A flag that survives its state
\* cuts the next block short or sends its first words twice.
FlagsInStep ==
  /\ input_read_done => current_state = "input_read" /\ in_cnt = 0
  /\ current_state = "input_read" /\ in_cnt = 0 => input_read_done
  /\ current_state \notin {"input_wait", "input_read"} => in_cnt = 0
  /\ output_cnt_inc <=> current_state = "output_write"
  /\ output_write_done => current_state = "output_write" /\ out_cnt = 0
  /\ current_state = "output_write" /\ out_cnt = 0 => output_write_done
  /\ current_state \notin {"output_wait", "output_write"} => out_cnt = 0

\* The core is idle when it is strobed, so that the strobe is not lost, and the
\* ready that ends rsa_process is the answer to this strobe, not the idle core's
\* ready from before it: the two are one signal, told apart only by the edge at
\* which the core lowers it.
StrobeAnswered ==
  /\ ~rsa_ready => current_state = "rsa_process"
  /\ HandedOver /\ rsa_ready => cypher = core_job

\* The wrapper keeps the promise of BlockStream.
Stream == INSTANCE BlockStream WITH
  received <- IF HandedOver THEN [i \in {} |-> Zero]
              ELSE IF input_read_done \/ current_state = "rsa_start" THEN input_sample
              ELSE [i \in 0 .. in_cnt - 1 |-> input_sample[i]],
  answer <- IF HandedOver /\ ~output_write_done THEN core_job ELSE NoAnswer,
  next <- out_cnt,
  shown <- IF st_out_valid THEN st_out_data ELSE NoAnswer,
  exp <- exp_reg,
  mod <- mod_reg

StreamSpec == Stream!Spec
=============================================================================
