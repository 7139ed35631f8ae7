------------------------------ MODULE RsaSystem ------------------------------
(***************************************************************************)
(* A program that calls rsa_crypto_hw again and again, with the two SGDMA  *)
(* controllers, their interrupts and the accelerator, all concurrent: the  *)
(* program goes through rsa_crypto_hw.c and the driver an access at a      *)
(* time; the interrupt handler preempts it; the transmit engine reads      *)
(* words from the input buffer ahead of the accelerator, up to the depth   *)
(* of its FIFO; the receive engine moves them to the output buffer; the    *)
(* accelerator is BlockStream, which RsaWrapper implements.                *)
(*                                                                         *)
(* Word k of the input of call c is <<c, k>>, and every word of its        *)
(* exponent and modulus is c, so that whatever reaches a wrong place shows.*)
(***************************************************************************)
EXTENDS Sgdma, Sequences

CONSTANTS
  NWords,       \* words of a block in the accelerator: its BITSIZE / 32
  CallWords,    \* words of a parameter that the program writes: bitsize / 32
  FifoWords,    \* words that the transmit engine reads ahead
  MaxCalls,     \* bound: calls of rsa_crypto_hw
  Zero, NoAnswer, Unknown

ASSUME SystemAssumption ==
  /\ {NWords, CallWords, FifoWords} \subseteq Nat \ {0}
  /\ MaxCalls \in Nat
  \* The buffers of a chain hold whole blocks, or the last one is never answered.
  /\ (NDescriptors * DescriptorWords) % NWords = 0

VARIABLES
  pc,           \* where rsa_crypto_hw is
  dev,          \* the device that do_async_transfer is working on
  i,            \* its variable i: the parameter word to write
  calls,        \* how many calls were made; also names the current one
  tx_done, rx_done,
  isr,          \* the device whose interrupt handler runs, or "none"
  dma,          \* the devices
  fifo,         \* words read but not yet taken by the accelerator
  output,       \* the output buffer of the call
  received, answer, next, shown, exp, mod,  \* the accelerator
  exp_cnt, mod_cnt                          \* and its parameter pointers

host == <<pc, dev, i, calls, tx_done, rx_done>>
stream == <<received, answer, next, shown>>
params == <<exp, mod, exp_cnt, mod_cnt>>
vars == <<host, isr, dma, fifo, output, stream, params>>

Devs == {"tx", "rx"}
Length == NDescriptors * DescriptorWords
Position == 0 .. NWords - 1
Calls == 1 .. MaxCalls

InputWord(c, k) == <<c, k>>

InputWords == {InputWord(c, k) : c \in Calls, k \in 0 .. Length - 1}
Params == [Position -> Calls \cup {Zero}]
Answers == [data : [Position -> InputWords], exp : Params, mod : Params]

ASSUME NoAnswerAssumption == NoAnswer \notin Answers \cup (Answers \X Position)

Wrapper == INSTANCE BlockStream WITH
  Word <- InputWords,
  ExpWord <- Calls \cup {Zero},
  ModWord <- Calls \cup {Zero}

-----------------------------------------------------------------------------
\* init_sgdma has opened the devices and registered the callbacks.
Init ==
  /\ pc = "idle" /\ dev = "tx" /\ i = 0 /\ calls = 0
  /\ tx_done = 0 /\ rx_done = 0
  /\ isr = "none"
  /\ dma = [d \in Devs |-> RegisterCallback(Initialized, TRUE, ChainControl)]
  /\ fifo = <<>>
  /\ output = [k \in 0 .. Length - 1 |-> Unknown]
  /\ exp_cnt = 0 /\ mod_cnt = 0
  /\ Wrapper!Init

\* The program runs when the interrupt handler does not.
Main == isr = "none"

\* The caller has built its buffers and its chains of descriptors.
Call ==
  /\ pc = "idle" /\ calls < MaxCalls
  /\ pc' = "write_exp"
  /\ i' = 0
  /\ calls' = calls + 1
  /\ output' = [k \in 0 .. Length - 1 |-> Unknown]
  /\ UNCHANGED <<dev, tx_done, rx_done, dma, fifo, stream, params>>

\* Mutant: the counter is not put back to 0.
AfterUnwrapped(p) == p + 1

After(p) == IF p + 1 = NWords THEN 0 ELSE p + 1

\* The two writes of the loop, and what the accelerator does with them.
WriteExp ==
  /\ pc = "write_exp"
  /\ exp' = [exp EXCEPT ![exp_cnt] = calls]
  /\ exp_cnt' = After(exp_cnt)
  /\ pc' = "write_mod"
  /\ UNCHANGED <<dev, i, calls, tx_done, rx_done, dma, fifo, output, stream, mod, mod_cnt>>

\* Mutant: the loop makes one round too many.
WriteModLong ==
  /\ pc = "write_mod"
  /\ mod' = [mod EXCEPT ![mod_cnt] = calls]
  /\ mod_cnt' = After(mod_cnt)
  /\ i' = i + 1
  /\ IF i < CallWords THEN pc' = "write_exp" /\ UNCHANGED dev
     ELSE pc' = "test_busy" /\ dev' = "tx"
  /\ UNCHANGED <<calls, tx_done, rx_done, dma, fifo, output, stream, exp, exp_cnt>>

\* Mutant: the loop stops a round early.
WriteModShort ==
  /\ pc = "write_mod"
  /\ mod' = [mod EXCEPT ![mod_cnt] = calls]
  /\ mod_cnt' = After(mod_cnt)
  /\ i' = i + 1
  /\ IF i + 2 < CallWords THEN pc' = "write_exp" /\ UNCHANGED dev
     ELSE pc' = "test_busy" /\ dev' = "tx"
  /\ UNCHANGED <<calls, tx_done, rx_done, dma, fifo, output, stream, exp, exp_cnt>>

WriteMod ==
  /\ pc = "write_mod"
  /\ mod' = [mod EXCEPT ![mod_cnt] = calls]
  /\ mod_cnt' = After(mod_cnt)
  /\ i' = i + 1
  /\ IF i + 1 < CallWords THEN pc' = "write_exp" /\ UNCHANGED dev
     ELSE pc' = "test_busy" /\ dev' = "tx"
  /\ UNCHANGED <<calls, tx_done, rx_done, dma, fifo, output, stream, exp, exp_cnt>>

\* do_async_transfer, first for the transmit and then for the receive device.  A
\* busy device makes the call return 1, and leaves the other as it is; the callers in
\* test.c go on after that.
TestBusy ==
  /\ pc = "test_busy"
  /\ pc' = IF dma[dev].busy THEN "idle" ELSE "clear_run"
  /\ UNCHANGED <<dev, i, calls, tx_done, rx_done, dma, fifo, output, stream, params>>

SetUp ==
  /\ pc \in SetupSteps
  /\ dma' = [dma EXCEPT ![dev] = Setup(pc, @, 0, AsyncControl(@))]
  /\ IF pc # "run" THEN pc' = AfterStep(pc) /\ UNCHANGED dev
     ELSE IF dev = "tx" THEN pc' = "test_busy" /\ dev' = "rx"
     ELSE pc' = "wait_tx" /\ UNCHANGED dev
  /\ UNCHANGED <<i, calls, tx_done, rx_done, fifo, output, stream, params>>

\* The two loops that poll the flags the callbacks set.
WaitTx ==
  /\ pc = "wait_tx" /\ tx_done >= 1
  /\ pc' = "wait_rx"
  /\ UNCHANGED <<dev, i, calls, tx_done, rx_done, dma, fifo, output, stream, params>>

\* Mutant: the call does not wait for the receive callback.
WaitRxNot ==
  /\ pc = "wait_rx"
  /\ pc' = "clear_tx"
  /\ UNCHANGED <<dev, i, calls, tx_done, rx_done, dma, fifo, output, stream, params>>

WaitRx ==
  /\ pc = "wait_rx" /\ rx_done >= 1
  /\ pc' = "clear_tx"
  /\ UNCHANGED <<dev, i, calls, tx_done, rx_done, dma, fifo, output, stream, params>>

ClearTx ==
  /\ pc = "clear_tx"
  /\ tx_done' = 0
  /\ pc' = "clear_rx"
  /\ UNCHANGED <<dev, i, calls, rx_done, dma, fifo, output, stream, params>>

\* Mutant: the receive flag is left set.
ClearRxNot ==
  /\ pc = "clear_rx"
  /\ pc' = "stop_tx"
  /\ UNCHANGED <<dev, i, calls, tx_done, rx_done, dma, fifo, output, stream, params>>

ClearRx ==
  /\ pc = "clear_rx"
  /\ rx_done' = 0
  /\ pc' = "stop_tx"
  /\ UNCHANGED <<dev, i, calls, tx_done, dma, fifo, output, stream, params>>

StopTx ==
  /\ pc = "stop_tx"
  /\ dma' = [dma EXCEPT !["tx"] = Stop(@)]
  /\ pc' = "stop_rx"
  /\ UNCHANGED <<dev, i, calls, tx_done, rx_done, fifo, output, stream, params>>

\* The last access before the call returns 0.
StopRx ==
  /\ pc = "stop_rx"
  /\ dma' = [dma EXCEPT !["rx"] = Stop(@)]
  /\ pc' = "idle"
  /\ UNCHANGED <<dev, i, calls, tx_done, rx_done, fifo, output, stream, params>>

Program ==
  /\ Main
  /\ \/ WriteExp \/ WriteMod \/ TestBusy \/ SetUp \/ WaitTx \/ WaitRx
     \/ ClearTx \/ ClearRx \/ StopTx \/ StopRx
  /\ UNCHANGED isr

-----------------------------------------------------------------------------
\* Interrupts.  The transmit device has the lower number, so it goes first.
Interrupt(d) ==
  /\ isr = "none"
  /\ dma[d].irq
  /\ d = "rx" => ~dma["tx"].irq
  /\ dma' = [dma EXCEPT ![d] = ClearIrq(@)]
  /\ isr' = d
  /\ UNCHANGED <<host, fifo, output, stream, params>>

\* The flags are of 16 bits.
Flag == 0 .. 65535
Incremented(done) == (done + 1) % 65536

transmit_callback_function ==
  /\ isr = "tx"
  /\ tx_done' = Incremented(tx_done)
  /\ isr' = "none"
  /\ UNCHANGED <<pc, dev, i, calls, rx_done, dma, fifo, output, stream, params>>

receive_callback_function ==
  /\ isr = "rx"
  /\ rx_done' = Incremented(rx_done)
  /\ isr' = "none"
  /\ UNCHANGED <<pc, dev, i, calls, tx_done, dma, fifo, output, stream, params>>

Handler ==
  \/ \E d \in Devs : Interrupt(d)
  \/ transmit_callback_function \/ receive_callback_function

-----------------------------------------------------------------------------
\* External: the engines.  The receive engine takes a word when it is offered.
Transmit ==
  /\ dma["tx"].busy
  /\ Len(fifo) < FifoWords
  /\ fifo' = Append(fifo, InputWord(calls, WordIndex(dma["tx"])))
  /\ dma' = [dma EXCEPT !["tx"] = Moved(@, Descriptor)]
  /\ UNCHANGED <<host, isr, output, stream, params>>

Feed ==
  /\ fifo # <<>>
  /\ Wrapper!Accept(Head(fifo))
  /\ fifo' = Tail(fifo)
  /\ UNCHANGED <<host, isr, dma, output, params>>

Receive ==
  /\ dma["rx"].busy
  /\ Wrapper!Emit
  /\ output' = [output EXCEPT ![WordIndex(dma["rx"])] = shown]
  /\ dma' = [dma EXCEPT !["rx"] = Moved(@, Descriptor)]
  /\ UNCHANGED <<host, isr, fifo, params>>

Accelerate ==
  /\ Wrapper!Start \/ Wrapper!Present
  /\ UNCHANGED <<host, isr, dma, fifo, output, params>>

Next ==
  \/ Main /\ Call /\ UNCHANGED isr
  \/ Program \/ Handler \/ Transmit \/ Feed \/ Receive \/ Accelerate

\* The processor goes on with what it has entered and takes interrupts, the engines
\* move what can be moved, the accelerator answers.  Nobody has to call.
Fairness ==
  /\ WF_vars(Program) /\ WF_vars(Handler)
  /\ WF_vars(Transmit) /\ WF_vars(Feed)
  /\ WF_vars(Receive) /\ WF_vars(Accelerate)

Spec == Init /\ [][Next]_vars /\ Fairness

-----------------------------------------------------------------------------
PCs == {"idle", "write_exp", "write_mod", "test_busy", "wait_tx", "wait_rx", "clear_tx",
        "clear_rx", "stop_tx", "stop_rx"} \cup SetupSteps

TypeOK ==
  /\ pc \in PCs /\ dev \in Devs /\ i \in 0 .. CallWords /\ calls \in 0 .. MaxCalls
  /\ {tx_done, rx_done} \subseteq Flag
  /\ isr \in Devs \cup {"none"}
  /\ dma \in [Devs -> Device]
  /\ Len(fifo) <= FifoWords
  /\ DOMAIN output = 0 .. Length - 1
  /\ DOMAIN received \in {0 .. k - 1 : k \in 0 .. NWords}
  /\ next \in Position
  /\ {exp, mod} \subseteq Params
  /\ {exp_cnt, mod_cnt} \subseteq Position

\* Where a call is about to use a device: from its start to do_async_transfer, and
\* between calls.
Unstarted(d) ==
  \/ pc \in {"idle", "write_exp", "write_mod"}
  \/ pc \in {"test_busy", "clear_run", "clear_status", "point", "run"} /\ (dev = "tx" \/ d = "rx")

\* A device that this call has not started yet has nothing left over from the call
\* before: it is idle, without an interrupt to come and without a callback on its
\* way, and its flag is 0.  A flag that was counted twice, or counted after it was
\* cleared, would end the next call's wait before its data is there; a device still
\* busy would make it fail half-way.
NothingLeftOver ==
  /\ Unstarted("tx") => ~dma["tx"].busy /\ ~dma["tx"].irq /\ isr # "tx" /\ tx_done = 0
  /\ Unstarted("rx") => ~dma["rx"].busy /\ ~dma["rx"].irq /\ isr # "rx" /\ rx_done = 0

\* The accelerator starts every call from the first word: its parameter pointers are
\* back at 0, and no word of an earlier block is in it.
AcceleratorAligned ==
  pc = "idle" => /\ exp_cnt = 0 /\ mod_cnt = 0
                 /\ fifo = <<>> /\ received = Wrapper!Nothing
                 /\ answer = NoAnswer

\* The parameters do not change under a block: from its first word to the last word
\* of its answer the words that this call wrote are in their places, none of an
\* earlier call.  The registers have no interlock.
ParametersSettled ==
  received # Wrapper!Nothing \/ answer # NoAnswer =>
    \A p \in Position : p < CallWords => exp[p] = calls /\ mod[p] = calls

\* The words of the answers to the blocks of a call.
Block(c, b) ==
  [data |-> [p \in Position |-> InputWord(c, b * NWords + p)],
   exp |-> [p \in Position |-> c],
   mod |-> [p \in Position |-> c]]

AnswerWord(c, k) == <<Block(c, k \div NWords), k % NWords>>

\* rsa_crypto_hw returns, and then the output is complete.
CallOf == INSTANCE RsaCall WITH
  calling <- pc # "idle",
  output <- IF pc = "idle" /\ calls > 0 THEN output ELSE Unknown

CallSpec == CallOf!Spec
=============================================================================
