--------------------------- MODULE RsaWrapperProofs ---------------------------
(***************************************************************************)
(* Proofs about RsaWrapper, for every block length and every set of words. *)
(***************************************************************************)
EXTENDS RsaWrapper, TLAPS

IInv == TypeOK /\ FlagsInStep /\ StrobeAnswered

\* The counter of the words goes round.
LEMMA AfterInPosition ==
  ASSUME NEW p \in Position
  PROVE  /\ After(p) \in Position
         /\ p + 1 = NWords => After(p) = 0
         /\ p + 1 # NWords => After(p) = p + 1 /\ After(p) # 0
  BY WrapperAssumption DEF After, Position

\* The invariant holds after power-up,
LEMMA InitIInv == Init => IInv
<1> SUFFICES ASSUME Init PROVE IInv
  OBVIOUS
<1>1. Cleared \in Block /\ Cleared \in Exponent /\ Cleared \in Modulus /\ 0 \in Position
  BY WrapperAssumption DEF Cleared, Block, Exponent, Modulus, Position
<1>. QED
  BY <1>1 DEF Init, IInv, TypeOK, FlagsInStep, StrobeAnswered, HandedOver, Jobs, State

\* and after a reset.
LEMMA ResetIInv == IInv /\ Reset => IInv'
<1> SUFFICES ASSUME IInv, Reset PROVE IInv'
  OBVIOUS
<1>1. Cleared \in Exponent /\ Cleared \in Modulus /\ 0 \in Position
  BY WrapperAssumption DEF Cleared, Exponent, Modulus, Position
<1>2. TypeOK'
  BY <1>1 DEF Reset, IInv, TypeOK, State
<1>3. FlagsInStep' /\ StrobeAnswered'
  BY DEF Reset, FlagsInStep, StrobeAnswered, HandedOver
<1>. QED BY <1>2, <1>3 DEF IInv

\* What an edge does apart from the parameters, whatever the core does.
LEMMA EdgeIInv ==
  ASSUME IInv,
         NEW valid \in BOOLEAN, NEW out_ready \in BOOLEAN, NEW data \in Word,
         NEW write \in Writes,
         Edge(valid, data, out_ready, write),
         CoreSample \/ CoreFinish \/ CoreHold
  PROVE  IInv'
<1> DEFINE ns == next_state(valid, out_ready)
<1> USE WrapperAssumption
<1>0. /\ TypeOK /\ FlagsInStep /\ StrobeAnswered
      /\ write_exp_reg(write) /\ write_mod_reg(write)
      /\ read_inputs(ns, data) /\ write_outputs(ns) /\ control_fsm(ns)
  BY DEF IInv, Edge
<1>1. ns \in State
  BY <1>0 DEF next_state, TypeOK, State
<1>2. TypeOK'
  <2>1. exp_reg' \in Exponent /\ exp_cnt' \in Position
    BY <1>0, AfterInPosition DEF TypeOK, write_exp_reg, Writes, Exponent
  <2>2. mod_reg' \in Modulus /\ mod_cnt' \in Position
    BY <1>0, AfterInPosition DEF TypeOK, write_mod_reg, Writes, Modulus
  <2>3. /\ input_sample' \in Block /\ in_cnt' \in Position
        /\ input_read_done' \in BOOLEAN
    BY <1>0, AfterInPosition DEF TypeOK, read_inputs, Block
  <2>4. /\ out_cnt' \in Position /\ output_write_done' \in BOOLEAN
        /\ output_cnt_inc' \in BOOLEAN
    BY <1>0, AfterInPosition DEF TypeOK, write_outputs
  <2>5. current_state' \in State
    BY <1>0, <1>1 DEF control_fsm
  <2>6. rsa_ready' \in BOOLEAN /\ core_job' \in Jobs /\ cypher' \in Jobs
    <3>1. CASE CoreSample
      <4>1. [data |-> input_sample, exp |-> exp_reg, mod |-> mod_reg] \in Jobs
        BY <1>0 DEF TypeOK, Jobs
      <4>. QED BY <3>1, <4>1, <1>0 DEF CoreSample, TypeOK
    <3>2. CASE CoreFinish
      BY <3>2, <1>0 DEF CoreFinish, TypeOK
    <3>3. CASE CoreHold
      BY <3>3, <1>0 DEF CoreHold, coreVars, TypeOK
    <3>. QED BY <3>1, <3>2, <3>3
  <2>. QED BY <2>1, <2>2, <2>3, <2>4, <2>5, <2>6 DEF TypeOK
<1>3. /\ in_cnt \in Position /\ out_cnt \in Position
      /\ After(in_cnt) \in Position /\ After(out_cnt) \in Position
      /\ in_cnt + 1 = NWords <=> After(in_cnt) = 0
      /\ out_cnt + 1 = NWords <=> After(out_cnt) = 0
  BY <1>0, AfterInPosition DEF TypeOK
<1>. HIDE DEF ns
<1>4. /\ in_cnt' = (IF ns = "input_read" THEN After(in_cnt) ELSE in_cnt)
      /\ input_read_done' = /\ ns # "rsa_start"
                            /\ input_read_done \/ (ns = "input_read" /\ After(in_cnt) = 0)
      /\ out_cnt' = (IF ns = "output_write" THEN After(out_cnt) ELSE out_cnt)
      /\ output_cnt_inc' = (ns = "output_write")
      /\ output_write_done' = /\ ns # "input_wait"
                              /\ \/ output_write_done
                                 \/ ns = "output_write" /\ After(out_cnt) = 0
      /\ current_state' = ns
  BY <1>0, <1>3 DEF read_inputs, write_outputs, control_fsm
<1>5. /\ current_state = "input_wait" => ns \in {"input_read", "input_wait"}
      /\ current_state = "input_read" =>
           ns = IF input_read_done THEN "rsa_start" ELSE "input_wait"
      /\ current_state = "rsa_start" => ns = IF rsa_ready THEN "rsa_process" ELSE "rsa_start"
      /\ current_state = "rsa_process" => ns = IF rsa_ready THEN "output_wait" ELSE "rsa_process"
      /\ current_state = "output_wait" =>
           ns \in {"output_write", IF output_write_done THEN "input_wait" ELSE "output_wait"}
      /\ current_state = "output_write" =>
           ns = IF output_write_done THEN "input_wait"
                ELSE IF output_cnt_inc THEN "output_wait" ELSE "output_write"
      /\ current_state \in State
  BY <1>0 DEF ns, next_state, TypeOK
<1>6. FlagsInStep'
  BY <1>0, <1>4, <1>5 DEF FlagsInStep, State
<1>7. StrobeAnswered'
  <2>1. CASE CoreSample
    BY <2>1, <1>0, <1>4, <1>5 DEF CoreSample, StrobeAnswered, HandedOver, rsa_select, TypeOK
  <2>2. CASE CoreFinish
    BY <2>2, <1>0, <1>4, <1>5 DEF CoreFinish, StrobeAnswered, HandedOver
  <2>3. CASE CoreHold
    BY <2>3, <1>0, <1>4, <1>5 DEF CoreHold, coreVars, StrobeAnswered, HandedOver, rsa_select,
                                  State, TypeOK
  <2>. QED BY <2>1, <2>2, <2>3
<1>. QED BY <1>2, <1>6, <1>7 DEF IInv

\* A clock edge has its inputs and its step of the core.
LEMMA ClockInputs ==
  ASSUME Clock
  PROVE  \E valid \in BOOLEAN, out_ready \in BOOLEAN, data \in Word, write \in Writes :
           /\ Edge(valid, data, out_ready, write)
           /\ CoreSample \/ CoreFinish \/ CoreHold
<1>1. CASE EdgeWith(CoreSample)
  BY <1>1 DEF EdgeWith
<1>2. CASE EdgeWith(CoreFinish)
  BY <1>2 DEF EdgeWith
<1>3. CASE EdgeWith(CoreHold)
  BY <1>3 DEF EdgeWith
<1>. QED BY <1>1, <1>2, <1>3 DEF Clock

\* Every step keeps the invariant.
LEMMA NextIInv == IInv /\ [Next]_vars => IInv'
<1> SUFFICES ASSUME IInv, [Next]_vars PROVE IInv'
  OBVIOUS
<1>1. CASE Clock
  BY <1>1, ClockInputs, EdgeIInv
<1>2. CASE Reset
  BY <1>2, ResetIInv
<1>3. CASE UNCHANGED vars
  BY <1>3 DEF vars, paramVars, inputVars, outputVars, coreVars, IInv, TypeOK, FlagsInStep,
              StrobeAnswered, HandedOver
<1>. QED BY <1>1, <1>2, <1>3 DEF Next

\* The inductive invariant of the wrapper: types, flags and handshake together.
THEOREM InvariantHolds == Spec => []IInv
  BY InitIInv, NextIInv, PTL DEF Spec

\* The registers of the wrapper keep to their declared ranges: no index runs out
\* of input_sample, exp_reg or mod_reg, for every number of words.
THEOREM TypeCorrect == Spec => []TypeOK
  BY InvariantHolds, PTL DEF IInv

\* The flags and counters that the processes of rsa_wrapper.vhd keep for its
\* state machine are set exactly in the states that read them.
THEOREM FlagsCorrect == Spec => []FlagsInStep
  BY InvariantHolds, PTL DEF IInv

\* No strobe of the core is lost and no answer is read before its strobe.
THEOREM HandshakeCorrect == Spec => []StrobeAnswered
  BY InvariantHolds, PTL DEF IInv

-----------------------------------------------------------------------------
\* The refinement of BlockStream.

\* The values that the mapping gives to the variables of BlockStream.
received ==
  IF HandedOver THEN [i \in {} |-> Zero]
  ELSE IF input_read_done \/ current_state = "rsa_start" THEN input_sample
  ELSE [i \in 0 .. in_cnt - 1 |-> input_sample[i]]
answer == IF HandedOver /\ ~output_write_done THEN core_job ELSE NoAnswer
shown == IF st_out_valid THEN st_out_data ELSE NoAnswer

streamVars == <<received, answer, out_cnt, shown>>

\* "No answer" is not a block.
LEMMA NoAnswerApart ==
  ASSUME TypeOK
  PROVE  core_job # NoAnswer /\ st_out_data # NoAnswer
  BY WrapperAssumption DEF TypeOK, st_out_data

\* At an edge in the input states a word is accepted, or nothing is seen.
LEMMA InputSimulation ==
  ASSUME IInv, IInv', current_state \in {"input_wait", "input_read"},
         NEW valid \in BOOLEAN, NEW out_ready \in BOOLEAN, NEW data \in Word,
         NEW write \in Writes,
         Edge(valid, data, out_ready, write)
  PROVE  Stream!Accept(data) \/ UNCHANGED streamVars
<1> DEFINE ns == next_state(valid, out_ready)
<1> USE WrapperAssumption
<1>0. /\ TypeOK /\ FlagsInStep /\ TypeOK' /\ FlagsInStep'
      /\ read_inputs(ns, data) /\ write_outputs(ns) /\ current_state' = ns
  BY DEF IInv, Edge, control_fsm
<1>1. /\ ~HandedOver /\ out_cnt = 0 /\ answer = NoAnswer /\ shown = NoAnswer
      /\ received = IF input_read_done THEN input_sample
                    ELSE [i \in 0 .. in_cnt - 1 |-> input_sample[i]]
  BY <1>0 DEF HandedOver, FlagsInStep, answer, shown, st_out_valid, received
<1>2. ns \in {"input_wait", "input_read", "rsa_start"}
  BY DEF next_state
<1>3. /\ answer' = NoAnswer /\ shown' = NoAnswer /\ out_cnt' = 0
      /\ received' = IF input_read_done' \/ ns = "rsa_start" THEN input_sample'
                     ELSE [i \in 0 .. in_cnt' - 1 |-> input_sample'[i]]
  BY <1>0, <1>2 DEF HandedOver, FlagsInStep, answer, shown, st_out_valid, received
<1>4. CASE current_state = "input_wait" /\ ~valid
  <2>1. ns = "input_wait"
    BY <1>4 DEF next_state
  <2>2. input_sample' = input_sample /\ in_cnt' = in_cnt /\ ~input_read_done /\ ~input_read_done'
    BY <1>0, <1>4, <2>1 DEF read_inputs, FlagsInStep
  <2>. QED BY <1>1, <1>3, <2>1, <2>2 DEF streamVars
<1>5. CASE current_state = "input_wait" /\ valid
  <2>1. ns = "input_read"
    BY <1>5 DEF next_state
  <2>2. /\ input_sample' = [input_sample EXCEPT ![in_cnt] = data]
        /\ in_cnt' = After(in_cnt)
        /\ ~input_read_done
        /\ input_read_done' <=> in_cnt + 1 = NWords
    BY <1>0, <1>5, <2>1 DEF read_inputs, FlagsInStep
  <2>3. in_cnt \in Position /\ in_cnt \in Nat /\ input_sample \in [Position -> Word]
    BY <1>0 DEF TypeOK, Position, Block
  <2>4. received = [i \in 0 .. in_cnt - 1 |-> input_sample[i]]
    BY <1>1, <2>2
  <2>5. received' = [i \in 0 .. in_cnt |-> input_sample'[i]]
    <3>1. CASE in_cnt + 1 = NWords
      <4>1. received' = input_sample' /\ Position = 0 .. in_cnt
        BY <1>3, <2>2, <2>3, <3>1 DEF Position
      <4>2. input_sample' \in [Position -> Word]
        BY <1>0 DEF TypeOK, Block
      <4>. QED BY <4>1, <4>2
    <3>2. CASE in_cnt + 1 # NWords
      <4>1. in_cnt' = in_cnt + 1 /\ in_cnt' - 1 = in_cnt
        BY <2>2, <2>3, <3>2 DEF After
      <4>. QED BY <1>3, <2>1, <2>2, <3>2, <4>1
    <3>. QED BY <3>1, <3>2
  <2>6. received' = [i \in 0 .. in_cnt |-> IF i = in_cnt THEN data ELSE received[i]]
    <3>1. \A i \in 0 .. in_cnt :
            input_sample'[i] = IF i = in_cnt THEN data ELSE received[i]
      BY <2>2, <2>3, <2>4 DEF Position
    <3>. QED BY <2>5, <3>1
  <2>7. DOMAIN received = 0 .. in_cnt - 1
    BY <2>4
  <2>8. Stream!Accept(data)
    <3>1. /\ answer = NoAnswer
          /\ \E k \in Position :
               /\ DOMAIN received = 0 .. k - 1
               /\ received' = [i \in 0 .. k |-> IF i = k THEN data ELSE received[i]]
          /\ UNCHANGED <<answer, out_cnt, shown>>
      BY <1>1, <1>3, <2>3, <2>6, <2>7
    <3>. QED BY <3>1 DEF Stream!Accept, Stream!Position, Position, received, answer, shown
  <2>. QED BY <2>8
<1>6. CASE current_state = "input_read"
  <2>1. ns = IF input_read_done THEN "rsa_start" ELSE "input_wait"
    BY <1>6 DEF next_state
  <2>2. /\ input_sample' = input_sample /\ in_cnt' = in_cnt
        /\ input_read_done' = (ns # "rsa_start" /\ input_read_done)
    BY <1>0, <2>1 DEF read_inputs
  <2>. QED BY <1>0, <1>1, <1>3, <2>1, <2>2 DEF streamVars, TypeOK
<1>. QED BY <1>4, <1>5, <1>6

\* The edge that starts the core takes the block.
LEMMA StartSimulation ==
  ASSUME IInv, IInv', current_state = "rsa_start",
         NEW valid \in BOOLEAN, NEW out_ready \in BOOLEAN, NEW data \in Word,
         NEW write \in Writes,
         Edge(valid, data, out_ready, write),
         CoreSample \/ CoreFinish \/ CoreHold
  PROVE  Stream!Start
<1>0. TypeOK /\ FlagsInStep /\ StrobeAnswered /\ FlagsInStep'
  BY DEF IInv
<1>1. rsa_ready /\ CoreSample
  BY <1>0 DEF StrobeAnswered, CoreFinish, CoreHold, rsa_select, TypeOK
<1>2. current_state' = "rsa_process"
  BY <1>1 DEF Edge, control_fsm, next_state
<1>3. /\ answer = NoAnswer /\ shown = NoAnswer /\ received = input_sample /\ out_cnt = 0
  BY <1>0 DEF HandedOver, FlagsInStep, answer, shown, st_out_valid, received
<1>4. /\ answer' = [data |-> input_sample, exp |-> exp_reg, mod |-> mod_reg]
      /\ shown' = NoAnswer /\ received' = [i \in {} |-> Zero] /\ out_cnt' = 0
  BY <1>0, <1>1, <1>2 DEF HandedOver, FlagsInStep, answer, shown, st_out_valid, received,
                          CoreSample
<1>5. DOMAIN input_sample = Position
  BY <1>0 DEF TypeOK, Block
<1>6. /\ answer = NoAnswer
      /\ DOMAIN received = Position
      /\ answer' = [data |-> received, exp |-> exp_reg, mod |-> mod_reg]
      /\ received' = [i \in {} |-> Zero]
      /\ UNCHANGED <<out_cnt, shown>>
  BY <1>3, <1>4, <1>5
<1>. QED BY <1>6 DEF Stream!Start, Stream!Nothing, Stream!Position, Position, received, answer,
                     shown

\* At an edge in the output states a word is presented or emitted, or nothing is seen.
LEMMA OutputSimulation ==
  ASSUME IInv, IInv', HandedOver,
         NEW valid \in BOOLEAN, NEW out_ready \in BOOLEAN, NEW data \in Word,
         NEW write \in Writes,
         Edge(valid, data, out_ready, write),
         CoreSample \/ CoreFinish \/ CoreHold
  PROVE  Stream!Present \/ Stream!Emit \/ UNCHANGED streamVars
<1> DEFINE ns == next_state(valid, out_ready)
<1> USE WrapperAssumption
<1>0. /\ TypeOK /\ FlagsInStep /\ StrobeAnswered /\ TypeOK' /\ FlagsInStep' /\ StrobeAnswered'
      /\ read_inputs(ns, data) /\ write_outputs(ns) /\ current_state' = ns
  BY DEF IInv, Edge, control_fsm
<1>1. core_job' = core_job
  BY DEF CoreSample, CoreFinish, CoreHold, coreVars, rsa_select, HandedOver
<1>2. received = [i \in {} |-> Zero]
  BY DEF received
<1>3. CASE ns = "rsa_process"
  <2>1. current_state = "rsa_process" /\ out_cnt' = out_cnt
    BY <1>0, <1>3 DEF next_state, HandedOver, write_outputs
  <2>2. ~output_write_done /\ ~output_write_done'
    BY <1>0, <1>3, <2>1 DEF FlagsInStep
  <2>. QED BY <1>0, <1>1, <1>3, <2>1, <2>2 DEF streamVars, received, answer, shown, st_out_valid,
                                          HandedOver
<1>4. CASE ns = "output_wait" /\ current_state = "output_wait"
  <2>1. cypher' = cypher /\ rsa_ready
    BY <1>0, <1>4 DEF StrobeAnswered, CoreSample, CoreFinish, CoreHold, coreVars, rsa_select, TypeOK
  <2>2. out_cnt' = out_cnt
    BY <1>0, <1>4 DEF write_outputs
  <2>3. ~output_write_done /\ ~output_write_done'
    BY <1>0, <1>4 DEF FlagsInStep
  <2>. QED BY <1>0, <1>1, <1>4, <2>1, <2>2, <2>3 DEF streamVars, received, answer, shown,
                                          st_out_valid, st_out_data, HandedOver
<1>5. CASE ns = "output_wait" /\ current_state # "output_wait"
  <2>1. /\ current_state = "rsa_process" \/ ~output_write_done
        /\ rsa_ready
    BY <1>0, <1>5 DEF next_state, HandedOver, StrobeAnswered, TypeOK
  <2>2. ~output_write_done /\ ~output_write_done'
    BY <1>0, <1>5, <2>1 DEF FlagsInStep
  <2>3. cypher' = core_job' /\ out_cnt' = out_cnt
    BY <1>0, <1>5 DEF StrobeAnswered, HandedOver, write_outputs
  <2>4. /\ answer = core_job /\ shown = NoAnswer
        /\ answer' = core_job /\ shown' = <<core_job, out_cnt>>
        /\ received' = received
    BY <1>0, <1>1, <1>5, <2>2, <2>3 DEF answer, shown, received, HandedOver, st_out_valid,
                                        st_out_data
  <2>5. core_job # NoAnswer
    BY <1>0, NoAnswerApart
  <2>6. /\ answer # NoAnswer
        /\ shown = NoAnswer
        /\ shown' = <<answer, out_cnt>>
        /\ UNCHANGED <<received, answer, out_cnt>>
    BY <2>3, <2>4, <2>5
  <2>. QED BY <2>6 DEF Stream!Present, received, answer, shown
<1>6. CASE ns = "output_write"
  <2>1. current_state = "output_wait"
    BY <1>0, <1>6 DEF next_state, HandedOver, FlagsInStep
  <2>2. ~output_write_done /\ output_write_done' = (out_cnt + 1 = NWords)
    BY <1>0, <1>6, <2>1 DEF FlagsInStep, write_outputs
  <2>3. out_cnt' = After(out_cnt) /\ out_cnt \in 0 .. NWords - 1
    BY <1>0, <1>6 DEF write_outputs, TypeOK, Position
  <2>4. /\ answer = core_job /\ shown = st_out_data
        /\ answer' = IF out_cnt + 1 = NWords THEN NoAnswer ELSE core_job
        /\ shown' = NoAnswer
        /\ received' = received
    BY <1>0, <1>1, <1>6, <2>1, <2>2 DEF answer, shown, received, HandedOver, st_out_valid
  <2>5. st_out_data # NoAnswer
    BY <1>0, NoAnswerApart
  <2>6. /\ shown # NoAnswer
        /\ IF out_cnt = NWords - 1
             THEN answer' = NoAnswer /\ out_cnt' = 0
             ELSE out_cnt' = out_cnt + 1 /\ UNCHANGED answer
        /\ shown' = NoAnswer
        /\ UNCHANGED received
    BY <2>3, <2>4, <2>5 DEF After
  <2>. QED BY <2>6 DEF Stream!Emit, received, answer, shown
<1>7. CASE ns = "input_wait"
  <2>1. current_state = "output_write" /\ output_write_done
    BY <1>0, <1>7 DEF next_state, HandedOver, FlagsInStep
  <2>2. /\ out_cnt' = out_cnt /\ in_cnt' = 0 /\ ~input_read_done'
    <3>1. in_cnt = 0
      BY <1>0, <2>1 DEF FlagsInStep
    <3>. QED BY <1>0, <1>7, <3>1 DEF FlagsInStep, write_outputs, read_inputs
  <2>3. received' = [i \in {} |-> Zero]
    <3>1. received' = [i \in 0 .. in_cnt' - 1 |-> input_sample'[i]]
      BY <1>0, <1>7, <2>2 DEF received, HandedOver
    <3>. QED BY <2>2, <3>1
  <2>. QED BY <1>0, <1>2, <1>7, <2>1, <2>2, <2>3 DEF streamVars, answer, shown, st_out_valid,
                                          HandedOver
<1>8. ns \in {"rsa_process", "output_wait", "output_write", "input_wait"}
  BY <1>0 DEF next_state, HandedOver
<1>. QED BY <1>3, <1>4, <1>5, <1>6, <1>7, <1>8

\* Every step is one of BlockStream, or not seen by it.
LEMMA StepSimulation == IInv /\ IInv' /\ [Next]_vars => [Stream!Next]_(Stream!vars)
<1> SUFFICES ASSUME IInv, IInv', [Next]_vars
             PROVE  [Stream!Next]_(Stream!vars)
  OBVIOUS
<1>1. CASE Clock
  <2>1. PICK valid \in BOOLEAN, out_ready \in BOOLEAN, data \in Word, write \in Writes :
               /\ Edge(valid, data, out_ready, write)
               /\ CoreSample \/ CoreFinish \/ CoreHold
    BY <1>1, ClockInputs
  <2>2. Stream!Configure
    BY DEF Stream!Configure, Stream!Position, IInv, TypeOK, Exponent, Modulus, Position
  <2>3. Stream!Transfer \/ UNCHANGED streamVars
    <3>1. CASE current_state \in {"input_wait", "input_read"}
      BY <2>1, <3>1, InputSimulation DEF Stream!Transfer
    <3>2. CASE current_state = "rsa_start"
      BY <2>1, <3>2, StartSimulation DEF Stream!Transfer
    <3>3. CASE HandedOver
      BY <2>1, <3>3, OutputSimulation DEF Stream!Transfer
    <3>. QED BY <3>1, <3>2, <3>3 DEF HandedOver, IInv, TypeOK, State
  <2>4. UNCHANGED streamVars => UNCHANGED Stream!stream
    BY DEF streamVars, Stream!stream, received, answer, shown
  <2>. QED BY <2>2, <2>3, <2>4 DEF Stream!Next
<1>2. CASE Reset
  <2>1. /\ received' = [i \in {} |-> Zero] /\ answer' = NoAnswer /\ shown' = NoAnswer
        /\ out_cnt' = 0 /\ exp_reg' = Cleared /\ mod_reg' = Cleared
    <3>1. received' = [i \in 0 .. in_cnt' - 1 |-> input_sample'[i]] /\ in_cnt' = 0
      BY <1>2 DEF Reset, received, HandedOver
    <3>. QED BY <1>2, <3>1 DEF Reset, answer, shown, HandedOver, st_out_valid
  <2>2. Stream!Restart
    BY <2>1 DEF Stream!Restart, Stream!Nothing, Stream!Position, Cleared, Position, received,
                answer, shown
  <2>. QED BY <2>2 DEF Stream!Next
<1>3. CASE UNCHANGED vars
  BY <1>3 DEF vars, paramVars, inputVars, outputVars, coreVars, Stream!vars, Stream!stream,
              HandedOver, st_out_valid, st_out_data
<1>. QED BY <1>1, <1>2, <1>3 DEF Next

\* For every number of words per block and whatever the words are, the wrapper
\* takes whole blocks, answers each with the data and the parameters that were
\* there when it started the core, word by word in order, holds each word until
\* it is taken, and neither loses nor repeats one (rsa_wrapper.vhd as a whole).
THEOREM ImplementsBlockStream == Spec => Stream!Safety
<1>1. Init => Stream!Init
  <2> SUFFICES ASSUME Init PROVE Stream!Init
    OBVIOUS
  <2>1. [i \in 0 .. in_cnt - 1 |-> input_sample[i]] = [i \in {} |-> Zero]
    BY DEF Init
  <2>. QED BY <2>1 DEF Init, Stream!Init, HandedOver, st_out_valid, Cleared, Stream!Position,
                       Position, Stream!Nothing
<1>. QED BY <1>1, StepSimulation, InvariantHolds, PTL DEF Spec, Stream!Safety
=============================================================================
