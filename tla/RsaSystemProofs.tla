--------------------------- MODULE RsaSystemProofs ---------------------------
(***************************************************************************)
(* The calls of rsa_crypto_hw.c are answered, each with the answers to its *)
(* own blocks, for any number of calls, any chain of descriptors, any      *)
(* block and any depth of the FIFO: the proofs about RsaSystem.            *)
(*                                                                         *)
(* Three invariants, each resting on the one before.  DeviceInv follows a  *)
(* device through a call: idle until it is started, then in one of four    *)
(* stages, from which its flag, its interrupt and its callback can be read *)
(* off.  StreamInv counts the words that have left the input buffer and    *)
(* those that have reached the output buffer, and says what is on the way  *)
(* between them.  ParamsInv says how far the parameters of the call have   *)
(* been written; from here on the words that the program writes must fill  *)
(* the registers of the accelerator, so that its pointers come back to 0.  *)
(***************************************************************************)
EXTENDS RsaSystem, SequenceTheorems, TLAPS

-----------------------------------------------------------------------------
(***************************************************************************)
(* The devices.                                                            *)
(***************************************************************************)

done(d) == IF d = "tx" THEN tx_done ELSE rx_done

\* A call has started device d and has not yet seen its flag,
Pending(d) ==
  \/ pc \in {"wait_tx"} \cup (IF d = "rx" THEN {"wait_rx"} ELSE {})
  \/ d = "tx" /\ dev = "rx" /\ pc \in {"test_busy"} \cup SetupSteps

\* has seen it,
Waited(d) == pc \in {"clear_tx"} \cup (IF d = "tx" THEN {"wait_rx"} ELSE {"clear_rx"})

\* and has put it back to 0.
Cleared(d) == pc \in {"stop_tx", "stop_rx"} \cup (IF d = "tx" THEN {"clear_rx"} ELSE {})

\* The engine of d, its interrupt, its callback and its flag.
Stage(d, busy, irq, called, flag) ==
  /\ dma[d].busy = busy
  /\ dma[d].irq = irq
  /\ (isr = d) = called
  /\ done(d) = flag

Running(d) ==
  /\ Stage(d, TRUE, FALSE, FALSE, 0)
  /\ dma[d].desc \in Descriptor
  /\ {"run", "ie_global", "ie_chain_completed"} \subseteq dma[d].control

\* The engine has come to the end of the chain.
AtEnd(d) == dma[d].desc = NDescriptors /\ dma[d].word = 0

DeviceInv(d) ==
  /\ dma[d].callback /\ dma[d].chain_control = ChainControl
  /\ Unstarted(d) \/ Cleared(d) => Stage(d, FALSE, FALSE, FALSE, 0)
  /\ Waited(d) => Stage(d, FALSE, FALSE, FALSE, 1)
  /\ Pending(d) =>
       \/ Running(d)
       \/ Stage(d, FALSE, TRUE, FALSE, 0)
       \/ Stage(d, FALSE, FALSE, TRUE, 0)
       \/ Stage(d, FALSE, FALSE, FALSE, 1)
  /\ ~Unstarted(d) /\ ~dma[d].busy => AtEnd(d)
  /\ pc = "run" /\ dev = d => dma[d].desc = 0 /\ dma[d].word = 0

Writing == pc \in {"write_exp", "write_mod"}

\* What TypeOK leaves open: a call that goes on has a number, there are words left to
\* write while it writes them, and what is in the accelerator and its FIFO comes from
\* an input buffer.
Contents ==
  /\ pc # "idle" => calls \in Calls
  /\ Writing => i < CallWords
  /\ fifo \in Seq(InputWords)
  /\ \E k \in 0 .. NWords : received \in [0 .. k - 1 -> InputWords]
  /\ output = [k \in 0 .. Length - 1 |-> output[k]]
  /\ answer \in Answers \cup {NoAnswer}
  /\ shown \in (Answers \X Position) \cup {NoAnswer}

IInv == TypeOK /\ Contents /\ \A d \in Devs : DeviceInv(d)

-----------------------------------------------------------------------------
(***************************************************************************)
(* The words on their way.                                                 *)
(***************************************************************************)

\* How far a device has got with the words of the current call: those that have left
\* the input buffer, and those that have reached the output buffer.
Count(d) == IF Unstarted(d) THEN 0 ELSE WordIndex(dma[d])
Fetched == Count("tx")
Stored == Count("rx")

\* The first k words of a block,
Part(c, b, k) == [p \in 0 .. k - 1 |-> InputWord(c, b * NWords + p)]

\* of which the accelerator takes the next.
Filling(b) ==
  /\ answer = NoAnswer /\ next = 0 /\ shown = NoAnswer
  /\ \E k \in 0 .. NWords : /\ received = Part(calls, b, k)
                            /\ Fetched - Len(fifo) = b * NWords + k
  /\ Stored = b * NWords

\* The accelerator gives the answer to a block.
Giving(b) ==
  /\ answer # NoAnswer /\ answer.data = Part(calls, b, NWords)
  /\ received = Wrapper!Nothing
  /\ shown \in {NoAnswer, <<answer, next>>}
  /\ Fetched - Len(fifo) = (b + 1) * NWords
  /\ Stored = b * NWords + next

StreamInv ==
  /\ \A j \in 1 .. Len(fifo) : fifo[j] = InputWord(calls, Fetched - Len(fifo) + j - 1)
  /\ \E b \in Nat : Filling(b) \/ Giving(b)

-----------------------------------------------------------------------------
(***************************************************************************)
(* The parameters and the output.                                          *)
(***************************************************************************)

ExpWritten == IF pc = "write_mod" THEN i + 1 ELSE i

ParamsInv ==
  /\ exp_cnt = IF Writing THEN ExpWritten % NWords ELSE 0
  /\ mod_cnt = IF Writing THEN i % NWords ELSE 0
  /\ pc # "idle" => \A p \in Position : /\ ~Writing \/ p < ExpWritten => exp[p] = calls
                                        /\ ~Writing \/ p < i => mod[p] = calls

\* The answer in progress is made with the parameters of the call, and so are
\* those in the output buffer, each in its place.
OutputInv ==
  /\ answer # NoAnswer => /\ answer.exp = [p \in Position |-> calls]
                          /\ answer.mod = [p \in Position |-> calls]
  /\ calls > 0 => \A k \in 0 .. Length - 1 :
                    pc = "idle" \/ k < Stored => output[k] = AnswerWord(calls, k)

FullInv == IInv /\ StreamInv /\ ParamsInv /\ OutputInv

-----------------------------------------------------------------------------
(***************************************************************************)
(* What the accesses and the engine do to a device.                        *)
(***************************************************************************)

InterruptBits == {"ie_global", "ie_chain_completed"}

\* The constants, as the provers like them.
LEMMA Sizes ==
  /\ NWords \in Nat \ {0} /\ CallWords \in Nat \ {0} /\ FifoWords \in Nat \ {0}
  /\ MaxCalls \in Nat
  /\ NDescriptors \in Nat \ {0} /\ DescriptorWords \in Nat \ {0}
  /\ Length \in Nat \ {0} /\ Length = NDescriptors * DescriptorWords
  /\ Length % NWords = 0
  /\ Descriptor = 0 .. NDescriptors - 1
<1>1. Length \in Nat \ {0}
  BY SgdmaAssumption DEF Length
<1>. QED BY <1>1, SystemAssumption, SgdmaAssumption DEF Length, Descriptor

\* No access before the last of a set-up starts the engine, or raises its interrupt;
\* the first word comes to be the one it points at.
LEMMA SetupIs ==
  ASSUME NEW d \in Device, NEW step \in SetupSteps, step # "run"
  PROVE  LET e == Setup(step, d, 0, AsyncControl(d))
         IN  /\ e \in Device
             /\ e.busy = d.busy /\ e.irq = d.irq
             /\ e.callback = d.callback /\ e.chain_control = d.chain_control
             /\ step = "point" => e.desc = 0 /\ e.word = 0
<1> DEFINE e == Setup(step, d, 0, AsyncControl(d))
<1>1. CASE step = "clear_run"
  BY <1>1 DEF Setup, ClearRun, Device
<1>2. CASE step = "clear_status"
  BY <1>2 DEF Setup, ClearStatus, Device
<1>3. CASE step = "point"
  <2>1. e = [d EXCEPT !.desc = 0, !.word = 0]
    BY <1>3 DEF Setup, PointAt
  <2>2. 0 \in 0 .. NDescriptors /\ 0 \in 0 .. DescriptorWords - 1
    BY Sizes
  <2>. QED BY <2>1, <2>2, <1>3 DEF Device
<1>. QED BY <1>1, <1>2, <1>3 DEF SetupSteps

\* The last access starts it, with the registered bits in its control register.
LEMMA RunIs ==
  ASSUME NEW d \in Device, d.callback, d.chain_control = ChainControl
  PROVE  LET e == Setup("run", d, 0, AsyncControl(d))
         IN  /\ e \in Device
             /\ e.busy /\ e.irq = d.irq /\ e.desc = d.desc /\ e.word = d.word
             /\ e.callback /\ e.chain_control = ChainControl
             /\ "run" \in e.control /\ InterruptBits \subseteq e.control
<1> DEFINE c == AsyncControl(d)
<1>1. c = (d.control \cup {"run", "stop_dma_er"}) \cup ChainControl
  BY DEF AsyncControl
<1>2. /\ c \subseteq ControlBits /\ "run" \in c /\ InterruptBits \subseteq c
  BY <1>1 DEF Device, ControlBits, ChainControl, InterruptBits
<1>3. Setup("run", d, 0, c) = [d EXCEPT !.control = c, !.busy = TRUE]
  BY DEF Setup, Run
<1>. HIDE DEF c
<1>. QED BY <1>2, <1>3 DEF Device, c

\* The engine moves on by a word.  Only at the end of its chain does it stop, and
\* raise its interrupt.
LEMMA MovedIs ==
  ASSUME NEW d \in Device, d.busy, d.desc \in Descriptor, ~d.irq,
         "run" \in d.control, InterruptBits \subseteq d.control
  PROVE  LET e == Moved(d, Descriptor)
         IN  /\ e \in Device
             /\ e.callback = d.callback /\ e.chain_control = d.chain_control
             /\ e.control = d.control
             /\ WordIndex(d) \in 0 .. Length - 1
             /\ WordIndex(e) = WordIndex(d) + 1
             /\ \/ e.busy /\ ~e.irq /\ e.desc \in Descriptor
                \/ ~e.busy /\ e.irq /\ e.desc = NDescriptors /\ e.word = 0
<1> DEFINE e == Moved(d, Descriptor)
<1>1. /\ NDescriptors \in Nat \ {0} /\ DescriptorWords \in Nat \ {0}
      /\ d.desc \in 0 .. NDescriptors - 1 /\ d.word \in 0 .. DescriptorWords - 1
      /\ Descriptor = 0 .. NDescriptors - 1 /\ Length = NDescriptors * DescriptorWords
  BY Sizes DEF Device
<1>. DEFINE first == d.desc * DescriptorWords
            left == (NDescriptors - d.desc - 1) * DescriptorWords
<1>2. WordIndex(d) \in 0 .. Length - 1
  <2>1. Length = first + left + DescriptorWords
    BY <1>1
  <2>2. first \in Nat /\ left \in Nat
    BY <1>1
  <2>3. WordIndex(d) = first + d.word
    BY DEF WordIndex
  <2>. HIDE DEF first, left
  <2>. QED BY <1>1, <2>1, <2>2, <2>3
<1>3. /\ (d.desc + 1) * DescriptorWords + 0 = first + DescriptorWords
      /\ first \in Int
  BY <1>1
<1>4. CASE ~LastWord(d)
  <2>1. e = [d EXCEPT !.word = @ + 1]
    BY <1>4 DEF Moved
  <2>2. d.word + 1 \in 0 .. DescriptorWords - 1
    BY <1>1, <1>4 DEF LastWord
  <2>3. e \in Device /\ e.desc = d.desc /\ e.word = d.word + 1
    BY <2>1, <2>2 DEF Device
  <2>4. WordIndex(e) = WordIndex(d) + 1
    <3>1. WordIndex(e) = first + (d.word + 1) /\ WordIndex(d) = first + d.word
      BY <2>3 DEF WordIndex
    <3>. HIDE DEF first, e
    <3>. QED BY <1>1, <1>3, <3>1
  <2>. QED BY <1>1, <1>2, <2>1, <2>3, <2>4 DEF Device
<1>5. CASE LastWord(d) /\ d.desc + 1 \notin Descriptor
  <2>1. d.desc + 1 = NDescriptors /\ d.desc + 1 \in 0 .. NDescriptors
        /\ 0 \in 0 .. DescriptorWords - 1
    BY <1>1, <1>5
  <2>2. e = [d EXCEPT !.desc = @ + 1, !.word = 0, !.busy = FALSE, !.chain_completed = TRUE,
                      !.irq = @ \/ InterruptBits \subseteq d.control]
    BY <1>5 DEF Moved, ChainOver, InterruptBits
  <2>3. (d.irq \/ InterruptBits \subseteq d.control) = TRUE
    BY Zenon
  <2>4. e = [d EXCEPT !.desc = @ + 1, !.word = 0, !.busy = FALSE, !.chain_completed = TRUE,
                      !.irq = TRUE]
    BY <2>2, <2>3
  <2>5. /\ e \in Device /\ e.desc = d.desc + 1 /\ e.word = 0 /\ ~e.busy /\ e.irq
        /\ e.callback = d.callback /\ e.chain_control = d.chain_control
        /\ e.control = d.control
    BY <2>1, <2>4 DEF Device
  <2>6. WordIndex(e) = WordIndex(d) + 1
    <3>1. WordIndex(e) = first + DescriptorWords
      BY <1>3, <2>5 DEF WordIndex
    <3>2. WordIndex(d) = first + d.word /\ d.word + 1 = DescriptorWords
      BY <1>5 DEF WordIndex, LastWord
    <3>. HIDE DEF first, e
    <3>. QED BY <1>1, <1>3, <3>1, <3>2
  <2>. QED BY <1>2, <2>1, <2>5, <2>6
<1>6. CASE LastWord(d) /\ d.desc + 1 \in Descriptor
  <2>1. d.desc + 1 \in 0 .. NDescriptors /\ 0 \in 0 .. DescriptorWords - 1
    BY <1>1
  <2>2. e = [d EXCEPT !.desc = @ + 1, !.word = 0, !.busy = "run" \in d.control]
    BY <1>6 DEF Moved
  <2>3. ("run" \in d.control) = TRUE
    BY Zenon
  <2>4. e = [d EXCEPT !.desc = @ + 1, !.word = 0, !.busy = TRUE]
    BY <2>2, <2>3
  <2>5. /\ e \in Device /\ e.desc = d.desc + 1 /\ e.word = 0 /\ e.busy /\ e.irq = d.irq
        /\ e.callback = d.callback /\ e.chain_control = d.chain_control
        /\ e.control = d.control
    BY <2>1, <2>4 DEF Device
  <2>6. WordIndex(e) = WordIndex(d) + 1
    <3>1. WordIndex(e) = first + DescriptorWords
      BY <1>3, <2>5 DEF WordIndex
    <3>2. WordIndex(d) = first + d.word /\ d.word + 1 = DescriptorWords
      BY <1>6 DEF WordIndex, LastWord
    <3>. HIDE DEF first, e
    <3>. QED BY <1>1, <1>3, <3>1, <3>2
  <2>. QED BY <1>2, <1>6, <2>5, <2>6
<1>. QED BY <1>4, <1>5, <1>6

\* Stopping the controller and acknowledging its interrupt leave the engine as it is.
LEMMA StopIs ==
  ASSUME NEW d \in Device
  PROVE  /\ Stop(d) \in Device
         /\ Stop(d).busy = d.busy /\ Stop(d).irq = d.irq
         /\ Stop(d).desc = d.desc /\ Stop(d).word = d.word
         /\ Stop(d).callback = d.callback /\ Stop(d).chain_control = d.chain_control
  BY DEF Stop, ClearRun, Device

\* See StopIs.
LEMMA ClearIrqIs ==
  ASSUME NEW d \in Device
  PROVE  /\ ClearIrq(d) \in Device
         /\ ClearIrq(d).busy = d.busy /\ ~ClearIrq(d).irq
         /\ ClearIrq(d).desc = d.desc /\ ClearIrq(d).word = d.word
         /\ ClearIrq(d).callback = d.callback
         /\ ClearIrq(d).chain_control = d.chain_control
         /\ ClearIrq(d).control = d.control
  BY DEF ClearIrq, Device

-----------------------------------------------------------------------------
(***************************************************************************)
(* The invariant of the devices.                                           *)
(***************************************************************************)

\* Where the program is, as far as a device is concerned.
LEMMA Phases ==
  ASSUME pc \in PCs, dev \in Devs, NEW d \in Devs
  PROVE  /\ Unstarted(d) \/ Pending(d) \/ Waited(d) \/ Cleared(d)
         /\ ~(Unstarted(d) /\ (Pending(d) \/ Waited(d) \/ Cleared(d)))
         /\ ~(Pending(d) /\ (Waited(d) \/ Cleared(d)))
         /\ ~(Waited(d) /\ Cleared(d))
  BY DEF PCs, SetupSteps, Devs, Unstarted, Pending, Waited, Cleared

\* The flags are counted from 0 to 1 only.
LEMMA FlagIs == 0 \in Flag /\ 1 \in Flag /\ Incremented(0) = 1
  BY DEF Flag, Incremented

\* What the invariant says of one device and of the program.
LEMMA Known ==
  ASSUME IInv, NEW d \in Devs
  PROVE  /\ DeviceInv(d) /\ d \in {"tx", "rx"} /\ dma[d] \in Device
         /\ dma \in [Devs -> Device]
         /\ pc \in PCs /\ dev \in Devs /\ isr \in {"tx", "rx", "none"}
         /\ tx_done \in Flag /\ rx_done \in Flag
<1>1. DeviceInv(d)
  BY DEF IInv
<1>2. dma \in [Devs -> Device] /\ pc \in PCs /\ dev \in Devs
  BY DEF IInv, TypeOK
<1>3. isr \in {"tx", "rx", "none"}
  BY DEF IInv, TypeOK, Devs
<1>4. tx_done \in Flag /\ rx_done \in Flag
  BY DEF IInv, TypeOK
<1>. QED BY <1>1, <1>2, <1>3, <1>4 DEF Devs

\* A device that is running, has an interrupt to come or its callback on the way is
\* pending; its flag is then 0.
LEMMA PendingOnly ==
  ASSUME IInv, NEW d \in Devs, dma[d].busy \/ dma[d].irq \/ isr = d
  PROVE  /\ Pending(d) /\ ~Unstarted(d) /\ done(d) = 0
         /\ dma[d].busy => Running(d)
         /\ dma[d].irq => Stage(d, FALSE, TRUE, FALSE, 0)
         /\ isr = d => Stage(d, FALSE, FALSE, TRUE, 0)
<1>1. DeviceInv(d) /\ pc \in PCs /\ dev \in Devs
  BY Known
<1>2. Pending(d)
  BY <1>1, Phases DEF DeviceInv, Stage
<1>3. ~Unstarted(d)
  BY <1>1, <1>2, Phases
<1>. QED BY <1>1, <1>2, <1>3 DEF DeviceInv, Stage, Running

\* The invariant holds when init_sgdma has returned.
LEMMA InitIInv == Init => IInv
<1> SUFFICES ASSUME Init PROVE IInv
  OBVIOUS
<1> DEFINE e == RegisterCallback(Initialized, TRUE, ChainControl)
<1>1. /\ e \in Device /\ ~e.busy /\ ~e.irq /\ e.callback /\ e.chain_control = ChainControl
  <2>1. 0 \in 0 .. NDescriptors /\ 0 \in 0 .. DescriptorWords - 1
    BY Sizes
  <2>2. ChainControl \subseteq ControlBits
    BY DEF ChainControl, ControlBits
  <2>3. /\ Initialized \in Device /\ ~Initialized.busy /\ ~Initialized.irq
    BY <2>1 DEF Initialized, Device
  <2>. QED BY <2>2, <2>3 DEF RegisterCallback, Device
<1> HIDE DEF e
<1>2. /\ pc = "idle" /\ dev = "tx" /\ i = 0 /\ calls = 0 /\ tx_done = 0 /\ rx_done = 0
      /\ isr = "none" /\ dma = [d \in Devs |-> e] /\ fifo = <<>>
      /\ output = [k \in 0 .. Length - 1 |-> Unknown] /\ exp_cnt = 0 /\ mod_cnt = 0
      /\ received = Wrapper!Nothing /\ answer = NoAnswer /\ next = 0 /\ shown = NoAnswer
      /\ exp = [p \in Position |-> Zero] /\ mod = [p \in Position |-> Zero]
  BY DEF Init, e, Wrapper!Init, Wrapper!Position, Position
<1>3. TypeOK
  <2>1. pc \in PCs /\ dev \in Devs /\ isr \in Devs \cup {"none"} /\ dma \in [Devs -> Device]
    BY <1>1, <1>2 DEF PCs, Devs
  <2>2. i \in 0 .. CallWords /\ calls \in 0 .. MaxCalls
    BY <1>2, Sizes
  <2>3. Len(fifo) <= FifoWords /\ DOMAIN output = 0 .. Length - 1
    BY <1>2, Sizes
  <2>4. DOMAIN received \in {0 .. k - 1 : k \in 0 .. NWords}
    <3>1. 0 \in 0 .. NWords /\ 0 .. 0 - 1 = {}
      BY Sizes
    <3>. QED BY <1>2, <3>1 DEF Wrapper!Nothing
  <2>0. {tx_done, rx_done} \subseteq Flag
    BY <1>2, FlagIs
  <2>5. next \in Position /\ {exp_cnt, mod_cnt} \subseteq Position /\ {exp, mod} \subseteq Params
    BY <1>2, Sizes DEF Position, Params
  <2>. QED BY <2>0, <2>1, <2>2, <2>3, <2>4, <2>5 DEF TypeOK
<1>4. Contents
  <2>1. received \in [0 .. 0 - 1 -> InputWords] /\ 0 \in 0 .. NWords
    <3>1. 0 .. 0 - 1 = {} /\ 0 \in 0 .. NWords
      BY Sizes
    <3>. QED BY <1>2, <3>1 DEF Wrapper!Nothing
  <2>2. output = [k \in 0 .. Length - 1 |-> output[k]]
    BY <1>2
  <2>. QED BY <1>2, <2>1, <2>2 DEF Contents, Writing
<1>5. ASSUME NEW d \in Devs PROVE DeviceInv(d)
  BY <1>1, <1>2 DEF DeviceInv, Devs, Unstarted, Pending, Waited, Cleared, Stage, done, SetupSteps
<1>. QED BY <1>3, <1>4, <1>5 DEF IInv

\* do_async_transfer never finds its device busy.
LEMMA NeverBusy ==
  ASSUME IInv, TestBusy
  PROVE  pc = "test_busy" /\ pc' = "clear_run"
<1>1. pc = "test_busy" /\ pc' = IF dma[dev].busy THEN "idle" ELSE "clear_run"
  BY DEF TestBusy
<1>2. dev \in Devs /\ DeviceInv(dev)
  BY DEF IInv, TypeOK
<1>3. Unstarted(dev)
  BY <1>1, <1>2 DEF Unstarted, Devs
<1>. QED BY <1>1, <1>2, <1>3 DEF DeviceInv, Stage

\* What DeviceInv says is decided by the place of the program, the two flags, the
\* running handler and the device.
LEMMA ProgramKeepsDevices ==
  ASSUME IInv, isr = "none", UNCHANGED <<isr, dma>>, NEW d \in Devs,
         Call \/ WriteExp \/ WriteMod \/ TestBusy \/ WaitTx \/ WaitRx \/ ClearTx \/ ClearRx
  PROVE  DeviceInv(d)'
<1>1. DeviceInv(d) /\ dev \in Devs /\ d \in {"tx", "rx"}
  BY Known
<1> USE DEF DeviceInv, Unstarted, Pending, Waited, Cleared, Stage, Running, done, SetupSteps, AtEnd,
            Devs
<1>2. CASE Call
  BY <1>1, <1>2 DEF Call
<1>3. CASE WriteExp
  BY <1>1, <1>3 DEF WriteExp
<1>4. CASE WriteMod
  BY <1>1, <1>4 DEF WriteMod
<1>5. CASE TestBusy
  <2>1. pc = "test_busy" /\ pc' = "clear_run" /\ UNCHANGED <<dev, tx_done, rx_done>>
    BY <1>5, NeverBusy DEF TestBusy
  <2>. QED BY <1>1, <2>1
<1>6. CASE WaitTx
  BY <1>1, <1>6 DEF WaitTx
<1>7. CASE WaitRx
  BY <1>1, <1>7 DEF WaitRx
<1>8. CASE ClearTx
  BY <1>1, <1>8 DEF ClearTx
<1>9. CASE ClearRx
  BY <1>1, <1>9 DEF ClearRx
<1>. QED BY <1>2, <1>3, <1>4, <1>5, <1>6, <1>7, <1>8, <1>9

\* The accesses of the driver touch one device, when it is idle.
LEMMA DriverKeepsDevices ==
  ASSUME IInv, isr = "none", isr' = isr, SetUp \/ StopTx \/ StopRx, NEW d \in Devs
  PROVE  DeviceInv(d)' /\ dma' \in [Devs -> Device]
<1>1. /\ DeviceInv(d) /\ dev \in Devs /\ d \in {"tx", "rx"} /\ dma[d] \in Device
      /\ dma \in [Devs -> Device]
  BY Known
<1>2. CASE SetUp /\ pc # "run"
  <2>1. /\ pc \in SetupSteps /\ pc' = AfterStep(pc)
        /\ dma' = [dma EXCEPT ![dev] = Setup(pc, dma[dev], 0, AsyncControl(dma[dev]))]
        /\ UNCHANGED <<dev, tx_done, rx_done>>
    BY <1>2 DEF SetUp
  <2> DEFINE e == Setup(pc, dma[dev], 0, AsyncControl(dma[dev]))
  <2>2. /\ e \in Device
        /\ e.busy = dma[dev].busy /\ e.irq = dma[dev].irq
        /\ e.callback = dma[dev].callback /\ e.chain_control = dma[dev].chain_control
        /\ pc = "point" => e.desc = 0 /\ e.word = 0
    <3>1. dma[dev] \in Device
      BY <1>1
    <3>. QED BY <1>2, <2>1, <3>1, SetupIs
  <2> HIDE DEF e
  <2>3. /\ dma' \in [Devs -> Device]
        /\ dma'[d] = IF d = dev THEN e ELSE dma[d]
    BY <1>1, <2>1, <2>2 DEF e
  <2>4. \/ pc = "clear_run" /\ pc' = "clear_status"
        \/ pc = "clear_status" /\ pc' = "point"
        \/ pc = "point" /\ pc' = "run"
    BY <1>2, <2>1 DEF SetupSteps, AfterStep
  <2>5. DeviceInv(d)'
    <3> USE DEF DeviceInv, Unstarted, Pending, Waited, Cleared, Stage, Running, done, SetupSteps,
                AtEnd, Devs
    <3>1. CASE d = dev
      BY <1>1, <2>1, <2>2, <2>3, <2>4, <3>1
    <3>2. CASE d # dev
      BY <1>1, <2>1, <2>3, <2>4, <3>2
    <3>. QED BY <3>1, <3>2
  <2>. QED BY <2>3, <2>5
<1>3. CASE SetUp /\ pc = "run"
  <2>1. /\ dma' = [dma EXCEPT ![dev] = Setup("run", dma[dev], 0, AsyncControl(dma[dev]))]
        /\ UNCHANGED <<tx_done, rx_done>>
        /\ \/ dev = "tx" /\ pc' = "test_busy" /\ dev' = "rx"
           \/ dev = "rx" /\ pc' = "wait_tx" /\ dev' = "rx"
    BY <1>1, <1>3 DEF SetUp, Devs
  <2> DEFINE e == Setup("run", dma[dev], 0, AsyncControl(dma[dev]))
  <2>2. DeviceInv(dev) /\ dma[dev] \in Device
    BY <1>1 DEF IInv
  <2>3. /\ e \in Device /\ e.busy /\ e.irq = dma[dev].irq /\ e.desc = dma[dev].desc
        /\ e.callback /\ e.chain_control = ChainControl
        /\ "run" \in e.control /\ InterruptBits \subseteq e.control
    BY <2>2, RunIs DEF DeviceInv
  <2> HIDE DEF e
  <2>4. /\ dma' \in [Devs -> Device]
        /\ dma'[d] = IF d = dev THEN e ELSE dma[d]
    BY <1>1, <2>1, <2>3 DEF e
  <2>5. /\ ~dma[dev].busy /\ ~dma[dev].irq /\ isr # dev /\ done(dev) = 0
        /\ dma[dev].desc = 0
    BY <2>2, <1>3, <1>1 DEF DeviceInv, Stage, Unstarted, Devs
  <2>6. CASE d = dev
    <3>1. Running(d)'
      <4>1. 0 \in Descriptor
        BY Sizes
      <4>. QED BY <2>1, <2>3, <2>4, <2>5, <2>6, <4>1 DEF Running, Stage, done, InterruptBits
    <3>2. Pending(d)' /\ ~Unstarted(d)' /\ ~Cleared(d)' /\ ~Waited(d)' /\ pc' # "run"
      BY <2>1, <2>6 DEF Pending, Unstarted, Cleared, Waited, SetupSteps
    <3>3. dma'[d].busy /\ dma'[d].callback /\ dma'[d].chain_control = ChainControl
      BY <2>3, <2>4, <2>6
    <3>. QED BY <2>4, <3>1, <3>2, <3>3 DEF DeviceInv
  <2>7. CASE d # dev
    BY <1>1, <1>3, <2>1, <2>4, <2>7
       DEF DeviceInv, Unstarted, Pending, Waited, Cleared, Stage, Running, done, SetupSteps, AtEnd,
           Devs
  <2>. QED BY <2>4, <2>6, <2>7
<1>4. CASE StopTx \/ StopRx
  <2> DEFINE c == IF pc = "stop_tx" THEN "tx" ELSE "rx"
  <2>1. /\ c \in Devs /\ dma' = [dma EXCEPT ![c] = Stop(dma[c])]
        /\ UNCHANGED <<dev, tx_done, rx_done>>
        /\ \/ pc = "stop_tx" /\ pc' = "stop_rx"
           \/ pc = "stop_rx" /\ pc' = "idle"
    BY <1>4 DEF StopTx, StopRx, Devs
  <2> HIDE DEF c
  <2>2. /\ Stop(dma[c]) \in Device
        /\ Stop(dma[c]).busy = dma[c].busy /\ Stop(dma[c]).irq = dma[c].irq
        /\ Stop(dma[c]).desc = dma[c].desc /\ Stop(dma[c]).word = dma[c].word
        /\ Stop(dma[c]).callback = dma[c].callback
        /\ Stop(dma[c]).chain_control = dma[c].chain_control
    BY <1>1, <2>1, StopIs
  <2>3. /\ dma' \in [Devs -> Device]
        /\ dma'[d].busy = dma[d].busy /\ dma'[d].irq = dma[d].irq
        /\ dma'[d].desc = dma[d].desc /\ dma'[d].word = dma[d].word
        /\ dma'[d].callback = dma[d].callback
        /\ dma'[d].chain_control = dma[d].chain_control
    BY <1>1, <2>1, <2>2
  <2>4. DeviceInv(d)'
    BY <1>1, <2>1, <2>3
       DEF DeviceInv, Unstarted, Pending, Waited, Cleared, Stage, Running, done, SetupSteps, AtEnd,
           Devs
  <2>. QED BY <2>3, <2>4
<1>. QED BY <1>2, <1>3, <1>4

\* The handler takes a pending device from the interrupt to its callback, and from
\* there to its flag.
LEMMA HandlerKeepsDevices ==
  ASSUME IInv, Handler, NEW d \in Devs
  PROVE  /\ DeviceInv(d)' /\ dma' \in [Devs -> Device]
         /\ isr' \in Devs \cup {"none"} /\ tx_done' \in Flag /\ rx_done' \in Flag
         /\ UNCHANGED <<pc, dev, i, calls>>
         /\ \A c \in Devs : dma'[c].desc = dma[c].desc /\ dma'[c].word = dma[c].word
                            /\ dma'[c].busy = dma[c].busy
<1>1. /\ DeviceInv(d) /\ d \in {"tx", "rx"} /\ dma \in [Devs -> Device]
      /\ pc \in PCs /\ dev \in Devs
      /\ tx_done \in Flag /\ rx_done \in Flag
  BY Known
<1>2. CASE \E c \in Devs : Interrupt(c)
  <2>1. PICK c \in Devs : Interrupt(c)
    BY <1>2
  <2>2. /\ isr = "none" /\ dma[c].irq /\ isr' = c
        /\ dma' = [dma EXCEPT ![c] = ClearIrq(dma[c])]
        /\ UNCHANGED <<pc, dev, i, calls, tx_done, rx_done>>
    BY <2>1 DEF Interrupt, host
  <2>3. Pending(c) /\ ~Unstarted(c) /\ Stage(c, FALSE, TRUE, FALSE, 0)
    BY <2>2, PendingOnly
  <2> DEFINE e == ClearIrq(dma[c])
  <2>4. /\ e \in Device /\ e.busy = dma[c].busy /\ ~e.irq
        /\ e.desc = dma[c].desc /\ e.word = dma[c].word
        /\ e.callback = dma[c].callback /\ e.chain_control = dma[c].chain_control
    <3>1. dma[c] \in Device
      BY <1>1
    <3>. QED BY <3>1, ClearIrqIs
  <2> HIDE DEF e
  <2>5. dma' \in [Devs -> Device] /\ \A b \in Devs : dma'[b] = IF b = c THEN e ELSE dma[b]
    BY <1>1, <2>2, <2>4 DEF e
  <2>6. DeviceInv(d)'
    <3>1. CASE d = c
      <4>1. Stage(d, FALSE, FALSE, TRUE, 0)'
        BY <2>2, <2>3, <2>4, <2>5, <3>1 DEF Stage, done
      <4>2. Pending(d)' /\ ~Unstarted(d)' /\ ~Cleared(d)' /\ ~Waited(d)' /\ pc' = pc /\ dev' = dev
        <5>1. ~Cleared(c) /\ ~Waited(c)
          BY <2>3, <1>1, Phases
        <5>. QED BY <2>2, <2>3, <3>1, <5>1 DEF Pending, Unstarted, Cleared, Waited
      <4>3. AtEnd(d) /\ (pc = "run" => dev # d)
        <5>1. ~dma[d].busy /\ ~Unstarted(d)
          BY <2>3, <3>1 DEF Stage
        <5>. QED BY <1>1, <5>1 DEF DeviceInv, Unstarted, Devs
      <4>4. /\ dma'[d].callback /\ dma'[d].chain_control = ChainControl /\ AtEnd(d)'
        BY <1>1, <2>4, <2>5, <3>1, <4>3 DEF DeviceInv, AtEnd
      <4>. QED BY <4>1, <4>2, <4>3, <4>4 DEF DeviceInv
    <3>2. CASE d # c
      BY <1>1, <2>2, <2>5, <3>2
         DEF DeviceInv, Unstarted, Pending, Waited, Cleared, Stage, Running, done, AtEnd, Devs
    <3>. QED BY <3>1, <3>2
  <2>. QED BY <1>1, <2>2, <2>4, <2>5, <2>6
<1>3. CASE transmit_callback_function \/ receive_callback_function
  <2>1. PICK c \in Devs :
          /\ isr = c /\ isr' = "none" /\ UNCHANGED <<pc, dev, i, calls, dma>>
          /\ tx_done' = IF c = "tx" THEN Incremented(tx_done) ELSE tx_done
          /\ rx_done' = IF c = "rx" THEN Incremented(rx_done) ELSE rx_done
    BY <1>3 DEF transmit_callback_function, receive_callback_function, Devs
  <2>2. Pending(c) /\ ~Unstarted(c) /\ Stage(c, FALSE, FALSE, TRUE, 0)
    BY <2>1, PendingOnly
  <2>3. done(c)' = 1 /\ tx_done' \in Flag /\ rx_done' \in Flag
    BY <1>1, <2>1, <2>2, FlagIs DEF Stage, done, Devs
  <2>4. DeviceInv(d)'
    <3>1. CASE d = c
      <4>1. Stage(d, FALSE, FALSE, FALSE, 1)'
        BY <2>1, <2>2, <2>3, <3>1 DEF Stage, done, Devs
      <4>2. ~Cleared(d) /\ ~Waited(d)
        BY <1>1, <2>2, <3>1, Phases
      <4>. QED BY <1>1, <2>1, <2>2, <3>1, <4>1, <4>2
               DEF DeviceInv, Pending, Unstarted, Cleared, Waited, AtEnd
    <3>2. CASE d # c
      BY <1>1, <2>1, <3>2
         DEF DeviceInv, Unstarted, Pending, Waited, Cleared, Stage, Running, done, AtEnd, Devs
    <3>. QED BY <3>1, <3>2
  <2>. QED BY <1>1, <2>1, <2>3, <2>4
<1>. QED BY <1>2, <1>3 DEF Handler

\* An engine that moves a word is that of a pending device, which runs on or comes to
\* its end.
LEMMA EngineKeepsDevices ==
  ASSUME IInv, NEW c \in Devs, dma[c].busy, dma' = [dma EXCEPT ![c] = Moved(@, Descriptor)],
         UNCHANGED <<host, isr>>, NEW d \in Devs
  PROVE  /\ DeviceInv(d)' /\ dma' \in [Devs -> Device]
         /\ WordIndex(dma[c]) \in 0 .. Length - 1
         /\ WordIndex(dma'[c]) = WordIndex(dma[c]) + 1
         /\ d # c => dma'[d] = dma[d]
         /\ ~Unstarted(c)
<1>1. /\ DeviceInv(d) /\ DeviceInv(c) /\ d \in {"tx", "rx"} /\ c \in {"tx", "rx"}
      /\ dma \in [Devs -> Device] /\ dma[c] \in Device /\ pc \in PCs /\ dev \in Devs
  BY Known
<1>2. Pending(c) /\ ~Unstarted(c) /\ Running(c)
  BY PendingOnly
<1> DEFINE e == Moved(dma[c], Descriptor)
<1>3. /\ e \in Device
      /\ e.callback = dma[c].callback /\ e.chain_control = dma[c].chain_control
      /\ e.control = dma[c].control
      /\ WordIndex(dma[c]) \in 0 .. Length - 1
      /\ WordIndex(e) = WordIndex(dma[c]) + 1
      /\ \/ e.busy /\ ~e.irq /\ e.desc \in Descriptor
         \/ ~e.busy /\ e.irq /\ e.desc = NDescriptors /\ e.word = 0
  <2>1. /\ dma[c].busy /\ dma[c].desc \in Descriptor /\ ~dma[c].irq
        /\ "run" \in dma[c].control /\ InterruptBits \subseteq dma[c].control
    BY <1>2 DEF Running, Stage, InterruptBits
  <2>. QED BY <1>1, <2>1, MovedIs
<1> HIDE DEF e
<1>4. dma' \in [Devs -> Device] /\ dma'[d] = (IF d = c THEN e ELSE dma[d]) /\ dma'[c] = e
  BY <1>1, <1>3 DEF e
<1>5. UNCHANGED <<pc, dev, tx_done, rx_done, isr>>
  BY DEF host
<1>6. DeviceInv(d)'
  <2>1. CASE d = c
    <3>1. Running(d)' \/ (Stage(d, FALSE, TRUE, FALSE, 0)' /\ AtEnd(d)')
      BY <1>2, <1>3, <1>4, <1>5, <2>1 DEF Running, Stage, done, AtEnd
    <3>2. Pending(d)' /\ ~Unstarted(d)' /\ ~Cleared(d)' /\ ~Waited(d)'
      <4>1. ~Cleared(c) /\ ~Waited(c)
        BY <1>1, <1>2, Phases
      <4>. QED BY <1>2, <1>5, <2>1, <4>1 DEF Pending, Unstarted, Cleared, Waited
    <3>3. dma'[d].callback /\ dma'[d].chain_control = ChainControl
      BY <1>1, <1>3, <1>4, <2>1 DEF DeviceInv
    <3>4. pc = "run" => dev # d
      BY <1>1, <1>2, <2>1 DEF Unstarted
    <3>. QED BY <1>5, <3>1, <3>2, <3>3, <3>4 DEF DeviceInv, Running, Stage
  <2>2. CASE d # c
    BY <1>1, <1>4, <1>5, <2>2
       DEF DeviceInv, Unstarted, Pending, Waited, Cleared, Stage, Running, done, AtEnd, Devs
  <2>. QED BY <2>1, <2>2
<1>. QED BY <1>2, <1>3, <1>4, <1>6

-----------------------------------------------------------------------------
(***************************************************************************)
(* Types.                                                                  *)
(***************************************************************************)

\* The pointers stay in the registers.
LEMMA AfterInPosition ==
  ASSUME NEW p \in Position
  PROVE  After(p) \in Position
  BY Sizes DEF After, Position

\* The program keeps the types.
LEMMA ProgramTypes ==
  ASSUME IInv, Call \/ (Program /\ isr' = isr), isr' = isr, dma' \in [Devs -> Device]
  PROVE  TypeOK' /\ Contents'
<1> USE DEF TypeOK, Contents, Writing
<1>1. TypeOK /\ Contents
  BY DEF IInv
<1>2. UNCHANGED <<fifo, stream>>
  BY DEF Call, Program, WriteExp, WriteMod, TestBusy, SetUp, WaitTx, WaitRx, ClearTx, ClearRx,
         StopTx, StopRx
<1>3. /\ Len(fifo)' <= FifoWords /\ DOMAIN received' \in {0 .. k - 1 : k \in 0 .. NWords}
      /\ next' \in Position /\ isr' \in Devs \cup {"none"}
      /\ fifo' \in Seq(InputWords) /\ \E k \in 0 .. NWords : received' \in [0 .. k - 1 -> InputWords]
      /\ answer' \in Answers \cup {NoAnswer} /\ shown' \in (Answers \X Position) \cup {NoAnswer}
  BY <1>1, <1>2 DEF stream
<1>4. CASE Call
  <2>1. calls' \in Calls /\ calls' \in 0 .. MaxCalls /\ i' \in 0 .. CallWords /\ i' < CallWords
    BY <1>1, <1>4, Sizes, SMTT(30) DEF Call, Calls
  <2>2. DOMAIN output' = 0 .. Length - 1 /\ output' = [k \in 0 .. Length - 1 |-> output'[k]]
    BY <1>4 DEF Call
  <2>3. /\ pc' \in PCs /\ dev' \in Devs /\ tx_done' \in Flag /\ rx_done' \in Flag
        /\ exp' \in Params /\ mod' \in Params /\ exp_cnt' \in Position /\ mod_cnt' \in Position
    BY <1>1, <1>4 DEF Call, PCs, params
  <2>. QED BY <1>3, <2>1, <2>2, <2>3
<1>5. CASE WriteExp
  <2>1. /\ pc = "write_exp" /\ pc' = "write_mod" /\ calls \in Calls /\ i < CallWords
        /\ UNCHANGED <<dev, i, calls, tx_done, rx_done, output, mod, mod_cnt>>
        /\ exp' = [exp EXCEPT ![exp_cnt] = calls] /\ exp_cnt' = After(exp_cnt)
    BY <1>1, <1>5 DEF WriteExp
  <2>2. exp' \in Params /\ exp_cnt' \in Position
    BY <1>1, <2>1, AfterInPosition DEF Params
  <2>. QED BY <1>1, <1>3, <2>1, <2>2 DEF PCs
<1>6. CASE WriteMod
  <2>1. /\ pc = "write_mod" /\ calls \in Calls /\ i < CallWords
        /\ UNCHANGED <<calls, tx_done, rx_done, output, exp, exp_cnt>>
        /\ mod' = [mod EXCEPT ![mod_cnt] = calls] /\ mod_cnt' = After(mod_cnt)
        /\ i' = i + 1
        /\ \/ i + 1 < CallWords /\ pc' = "write_exp" /\ dev' = dev
           \/ pc' = "test_busy" /\ dev' = "tx"
    BY <1>1, <1>6 DEF WriteMod
  <2>2. mod' \in Params /\ mod_cnt' \in Position
    BY <1>1, <2>1, AfterInPosition DEF Params
  <2>3. i' \in 0 .. CallWords /\ (pc' = "write_exp" => i' < CallWords)
    BY <1>1, <2>1, Sizes, SMTT(30)
  <2>. QED BY <1>1, <1>3, <2>1, <2>2, <2>3 DEF PCs, Devs
<1>7. CASE TestBusy \/ SetUp \/ WaitTx \/ WaitRx \/ ClearTx \/ ClearRx \/ StopTx \/ StopRx
  <2>1. /\ pc \in PCs \ {"idle", "write_exp", "write_mod"}
        /\ UNCHANGED <<i, calls, output, params>>
    BY <1>7 DEF TestBusy, SetUp, WaitTx, WaitRx, ClearTx, ClearRx, StopTx, StopRx, PCs, SetupSteps
  <2>2. pc' \in PCs \ {"write_exp", "write_mod"} /\ dev' \in Devs
    <3>1. CASE SetUp
      BY <1>1, <3>1 DEF SetUp, PCs, SetupSteps, AfterStep, Devs
    <3>2. CASE ~SetUp
      BY <1>1, <1>7, <3>2 DEF TestBusy, WaitTx, WaitRx, ClearTx, ClearRx, StopTx, StopRx,
                              PCs, SetupSteps
    <3>. QED BY <3>1, <3>2
  <2>3. tx_done' \in Flag /\ rx_done' \in Flag
    BY <1>1, <1>7, FlagIs DEF TestBusy, SetUp, WaitTx, WaitRx, ClearTx, ClearRx, StopTx, StopRx
  <2>. QED BY <1>1, <1>3, <2>1, <2>2, <2>3 DEF params
<1>. QED BY <1>4, <1>5, <1>6, <1>7 DEF Program

\* The FIFO takes a word from the input buffer.
LEMMA TransmitTypes ==
  ASSUME IInv, Transmit
  PROVE  /\ TypeOK' /\ Contents'
         /\ fifo' = Append(fifo, InputWord(calls, WordIndex(dma["tx"])))
         /\ InputWord(calls, WordIndex(dma["tx"])) \in InputWords
<1>1. TypeOK /\ Contents
  BY DEF IInv
<1>2. /\ dma["tx"].busy /\ Len(fifo) < FifoWords
      /\ fifo' = Append(fifo, InputWord(calls, WordIndex(dma["tx"])))
      /\ dma' = [dma EXCEPT !["tx"] = Moved(@, Descriptor)]
      /\ UNCHANGED <<host, isr, output, stream, params>>
  BY DEF Transmit
<1>3. "tx" \in Devs
  BY DEF Devs
<1>4. dma' \in [Devs -> Device] /\ WordIndex(dma["tx"]) \in 0 .. Length - 1
  BY <1>2, <1>3, EngineKeepsDevices
<1>5. calls \in Calls
  <2>1. Pending("tx")
    BY <1>2, <1>3, PendingOnly
  <2>. QED BY <1>1, <2>1 DEF Contents, Pending, SetupSteps
<1> DEFINE w == InputWord(calls, WordIndex(dma["tx"]))
<1>6. w \in InputWords
  BY <1>4, <1>5 DEF InputWords
<1>7. fifo' \in Seq(InputWords) /\ Len(fifo') <= FifoWords
  <2>. HIDE DEF w
  <2>1. fifo \in Seq(InputWords) /\ fifo' = Append(fifo, w)
    BY <1>1, <1>2 DEF Contents, w
  <2>2. Len(fifo) \in Nat /\ Len(fifo') = Len(fifo) + 1 /\ fifo' \in Seq(InputWords)
    BY <1>6, <2>1, AppendProperties, LenProperties
  <2>. QED BY <1>2, <2>2, Sizes
<1>8. TypeOK' /\ Contents'
  BY <1>1, <1>2, <1>4, <1>7 DEF TypeOK, Contents, Writing, host, stream, params
<1>. QED BY <1>2, <1>6, <1>8

\* The accelerator takes a word from the FIFO and puts it behind those of its block.
LEMMA FeedTypes ==
  ASSUME IInv, Feed
  PROVE  /\ TypeOK' /\ Contents'
         /\ \E k \in Position :
              /\ DOMAIN received = 0 .. k - 1
              /\ received' = [p \in 0 .. k |-> IF p = k THEN fifo[1] ELSE received[p]]
         /\ fifo # <<>> /\ fifo' = Tail(fifo) /\ fifo' \in Seq(InputWords)
         /\ Len(fifo') = Len(fifo) - 1
         /\ \A j \in 1 .. Len(fifo') : fifo'[j] = fifo[j + 1]
         /\ answer = NoAnswer
         /\ UNCHANGED <<host, isr, dma, output, params, answer, next, shown>>
<1>1. TypeOK /\ Contents
  BY DEF IInv
<1>2. /\ fifo # <<>> /\ fifo' = Tail(fifo) /\ answer = NoAnswer
      /\ UNCHANGED <<host, isr, dma, output, params, answer, next, shown>>
  BY DEF Feed, Wrapper!Accept
<1>3. PICK k \in Position :
              /\ DOMAIN received = 0 .. k - 1
              /\ received' = [p \in 0 .. k |-> IF p = k THEN Head(fifo) ELSE received[p]]
  BY DEF Feed, Wrapper!Accept, Wrapper!Position, Position
<1>4. /\ Head(fifo) \in InputWords /\ fifo' \in Seq(InputWords) /\ Len(fifo') = Len(fifo) - 1
      /\ \A j \in 1 .. Len(fifo') : fifo'[j] = fifo[j + 1]
      /\ Len(fifo) \in Nat /\ Head(fifo) = fifo[1]
  BY <1>1, <1>2, HeadTailProperties, LenProperties DEF Contents
<1>5. k + 1 \in 0 .. NWords /\ (k + 1) - 1 = k /\ k \in Nat
  BY Sizes DEF Position
<1>6. received' \in [0 .. (k + 1) - 1 -> InputWords]
  <2>1. ASSUME NEW p \in 0 .. k, p # k
        PROVE  received[p] \in InputWords
    <3>1. p \in 0 .. k - 1
      BY <1>5, <2>1
    <3>. QED BY <1>1, <1>3, <3>1 DEF Contents
  <2>. QED BY <1>3, <1>4, <1>5, <2>1
<1>7. Len(fifo') <= FifoWords
  BY <1>1, <1>4, Sizes DEF TypeOK
<1>8. TypeOK' /\ Contents'
  <2>1. DOMAIN received' \in {0 .. j - 1 : j \in 0 .. NWords}
    BY <1>5, <1>6
  <2>2. \E j \in 0 .. NWords : received' \in [0 .. j - 1 -> InputWords]
    BY <1>5, <1>6
  <2>. QED BY <1>1, <1>2, <1>4, <1>7, <2>1, <2>2 DEF TypeOK, Contents, Writing, host, params
<1>. QED BY <1>2, <1>3, <1>4, <1>8

\* A word of an answer goes to the output buffer.
LEMMA ReceiveTypes ==
  ASSUME IInv, Receive
  PROVE  TypeOK' /\ Contents'
<1>1. TypeOK /\ Contents
  BY DEF IInv
<1>2. /\ dma["rx"].busy /\ dma' = [dma EXCEPT !["rx"] = Moved(@, Descriptor)]
      /\ UNCHANGED <<host, isr, fifo, params, received>>
      /\ \/ next = NWords - 1 /\ answer' = NoAnswer /\ next' = 0
         \/ next # NWords - 1 /\ next' = next + 1 /\ answer' = answer
      /\ shown' = NoAnswer
      /\ output' = [output EXCEPT ![WordIndex(dma["rx"])] = shown]
  BY DEF Receive, Wrapper!Emit
<1>3. dma' \in [Devs -> Device]
  BY <1>2, EngineKeepsDevices DEF Devs
<1>4. next' \in Position
  BY <1>1, <1>2, Sizes DEF TypeOK, Position
<1>5. DOMAIN output' = 0 .. Length - 1 /\ output' = [k \in 0 .. Length - 1 |-> output'[k]]
  BY <1>1, <1>2 DEF TypeOK, Contents
<1>. QED BY <1>1, <1>2, <1>3, <1>4, <1>5 DEF TypeOK, Contents, Writing, host, params

\* The accelerator starts an answer or shows a word of it.
LEMMA AccelerateTypes ==
  ASSUME IInv, Accelerate
  PROVE  TypeOK' /\ Contents'
<1>1. TypeOK /\ Contents
  BY DEF IInv
<1>2. UNCHANGED <<host, isr, dma, fifo, output, params, next>>
  BY DEF Accelerate, Wrapper!Start, Wrapper!Present
<1>3. CASE Wrapper!Start
  <2>1. /\ DOMAIN received = Position /\ answer' = [data |-> received, exp |-> exp, mod |-> mod]
        /\ received' = [p \in {} |-> Zero] /\ shown' = shown
    BY <1>3 DEF Wrapper!Start, Wrapper!Position, Position, Wrapper!Nothing
  <2>2. received \in [Position -> InputWords]
    <3>1. PICK k \in 0 .. NWords : received \in [0 .. k - 1 -> InputWords]
      BY <1>1 DEF Contents
    <3>. QED BY <2>1, <3>1
  <2>3. answer' \in Answers
    BY <1>1, <2>1, <2>2 DEF TypeOK, Answers
  <2>4. received' \in [0 .. 0 - 1 -> InputWords] /\ 0 \in 0 .. NWords
    <3>1. 0 .. 0 - 1 = {} /\ 0 \in 0 .. NWords
      BY Sizes
    <3>. QED BY <2>1, <3>1
  <2>. QED BY <1>1, <1>2, <2>1, <2>3, <2>4 DEF TypeOK, Contents, Writing, host, params
<1>4. CASE Wrapper!Present
  <2>1. /\ answer # NoAnswer /\ shown' = <<answer, next>> /\ UNCHANGED <<received, answer>>
    BY <1>4 DEF Wrapper!Present
  <2>2. shown' \in Answers \X Position
    BY <1>1, <2>1 DEF TypeOK, Contents
  <2>. QED BY <1>1, <1>2, <2>1, <2>2 DEF TypeOK, Contents, Writing, host, params
<1>. QED BY <1>3, <1>4 DEF Accelerate

\* Every step keeps the invariant of the devices.
LEMMA NextIInv == IInv /\ [Next]_vars => IInv'
<1> SUFFICES ASSUME IInv, [Next]_vars PROVE IInv'
  OBVIOUS
<1>1. dma \in [Devs -> Device] /\ TypeOK /\ Contents
  BY DEF IInv, TypeOK
<1>2. CASE (Main /\ Call /\ UNCHANGED isr) \/ Program
  <2>1. isr = "none" /\ isr' = isr
    BY <1>2 DEF Program, Main
  <2>2. CASE SetUp \/ StopTx \/ StopRx
    <3>1. dma' \in [Devs -> Device] /\ \A d \in Devs : DeviceInv(d)'
      BY <2>1, <2>2, DriverKeepsDevices DEF Devs
    <3>. QED BY <1>2, <2>1, <3>1, ProgramTypes DEF IInv
  <2>3. CASE ~(SetUp \/ StopTx \/ StopRx)
    <3>1. Call \/ WriteExp \/ WriteMod \/ TestBusy \/ WaitTx \/ WaitRx \/ ClearTx \/ ClearRx
      BY <1>2, <2>3 DEF Program
    <3>2. UNCHANGED dma
      BY <3>1 DEF Call, WriteExp, WriteMod, TestBusy, WaitTx, WaitRx, ClearTx, ClearRx
    <3>3. \A d \in Devs : DeviceInv(d)'
      BY <2>1, <3>1, <3>2, ProgramKeepsDevices
    <3>. QED BY <1>1, <1>2, <2>1, <3>2, <3>3, ProgramTypes DEF IInv
  <2>. QED BY <2>2, <2>3
<1>3. CASE Handler
  <2>1. /\ dma' \in [Devs -> Device] /\ isr' \in Devs \cup {"none"}
        /\ tx_done' \in Flag /\ rx_done' \in Flag /\ UNCHANGED <<pc, dev, i, calls>>
        /\ \A d \in Devs : DeviceInv(d)'
    BY <1>3, HandlerKeepsDevices DEF Devs
  <2>2. UNCHANGED <<fifo, output, stream, params>>
    BY <1>3 DEF Handler, Interrupt, transmit_callback_function, receive_callback_function
  <2>. QED BY <1>1, <2>1, <2>2 DEF IInv, TypeOK, Contents, Writing, stream, params
<1>4. CASE Transmit
  <2>1. \A d \in Devs : DeviceInv(d)'
    BY <1>4, EngineKeepsDevices DEF Transmit, Devs
  <2>. QED BY <1>4, <2>1, TransmitTypes DEF IInv
<1>5. CASE Receive
  <2>1. \A d \in Devs : DeviceInv(d)'
    BY <1>5, EngineKeepsDevices DEF Receive, Devs
  <2>. QED BY <1>5, <2>1, ReceiveTypes DEF IInv
<1>6. ASSUME UNCHANGED <<host, isr, dma>>
      PROVE  \A d \in Devs : DeviceInv(d)'
  BY <1>6 DEF IInv, host, DeviceInv, Unstarted, Pending, Waited, Cleared, Stage, Running, done, AtEnd
<1>7. CASE Feed
  BY <1>6, <1>7, FeedTypes DEF IInv
<1>8. CASE Accelerate
  BY <1>6, <1>8, AccelerateTypes DEF IInv, Accelerate
<1>9. CASE UNCHANGED vars
  BY <1>1, <1>6, <1>9 DEF vars, host, stream, params, IInv, TypeOK, Contents, Writing
<1>. QED BY <1>2, <1>3, <1>4, <1>5, <1>7, <1>8, <1>9 DEF Next

\* The inductive invariant of the devices.
THEOREM DevicesInvariant == Spec => []IInv
  BY InitIInv, NextIInv, PTL DEF Spec

\* The variables of rsa_crypto_hw.c, of the driver and of the accelerator keep to
\* their ranges: no index runs out of a buffer or of the registers.
THEOREM TypeCorrect == Spec => []TypeOK
  BY DevicesInvariant, PTL DEF IInv

\* rsa_crypto_hw finds both devices as init_sgdma left them, whatever the calls before
\* have done: no transfer, no interrupt, no callback and no flag of theirs is left.
THEOREM NothingIsLeftOver == Spec => []NothingLeftOver
<1>1. IInv => NothingLeftOver
  <2> SUFFICES ASSUME IInv PROVE NothingLeftOver
    OBVIOUS
  <2>1. DeviceInv("tx") /\ DeviceInv("rx")
    BY DEF IInv, Devs
  <2>. QED BY <2>1 DEF NothingLeftOver, DeviceInv, Stage, done
<1>. QED BY <1>1, DevicesInvariant, PTL

-----------------------------------------------------------------------------
(***************************************************************************)
(* The words on their way, step by step.                                   *)
(***************************************************************************)

\* An engine that is neither running nor to be started has moved all the words.
LEMMA CountIs ==
  ASSUME IInv, NEW d \in Devs
  PROVE  /\ Count(d) \in 0 .. Length
         /\ ~Unstarted(d) /\ ~dma[d].busy => Count(d) = Length
<1>1. DeviceInv(d) /\ dma[d] \in Device
  BY Known
<1>2. CASE Unstarted(d)
  BY <1>2, Sizes DEF Count
<1>3. CASE ~Unstarted(d) /\ ~dma[d].busy
  <2>1. Count(d) = NDescriptors * DescriptorWords + 0
    BY <1>1, <1>3 DEF Count, DeviceInv, AtEnd, WordIndex
  <2>2. Length \in Nat /\ NDescriptors * DescriptorWords + 0 = Length
    BY Sizes
  <2>. QED BY <1>3, <2>1, <2>2
<1>4. CASE ~Unstarted(d) /\ dma[d].busy
  <2>1. Running(d)
    BY <1>4, PendingOnly
  <2>2. WordIndex(dma[d]) \in 0 .. Length - 1
    BY <1>1, <2>1, MovedIs DEF Running, Stage, InterruptBits
  <2>. QED BY <1>4, <2>2, Sizes DEF Count
<1>. QED BY <1>2, <1>3, <1>4

\* Neither the program nor the handler move a word; a call starts to count when its
\* devices point at the first, and counts no more when it returns.
LEMMA ProgramKeepsCount ==
  ASSUME IInv, NEW d \in Devs, isr = "none", Call \/ (Program /\ ~StopRx)
  PROVE  Count(d)' = Count(d)
<1>1. /\ DeviceInv(d) /\ d \in {"tx", "rx"} /\ dma[d] \in Device
      /\ dma \in [Devs -> Device] /\ dev \in Devs /\ dma[dev] \in Device
      /\ dev \in {"tx", "rx"}
  <2>1. dev \in Devs
    BY Known
  <2>. QED BY <2>1, Known
<1>2. CASE SetUp /\ d = dev
  <2>1. Unstarted(d)
    BY <1>1, <1>2 DEF SetUp, SetupSteps, Unstarted
  <2>2. CASE pc # "run"
    <3>1. Unstarted(d)'
      BY <1>1, <1>2, <2>2 DEF SetUp, SetupSteps, AfterStep, Unstarted
    <3>. QED BY <2>1, <3>1 DEF Count
  <2>3. CASE pc = "run"
    <3>1. /\ dma[d].desc = 0 /\ dma[d].word = 0 /\ dma[d].callback
          /\ dma[d].chain_control = ChainControl
      BY <1>1, <1>2, <2>3 DEF DeviceInv
    <3>2. dma'[d] = Setup("run", dma[d], 0, AsyncControl(dma[d]))
      BY <1>1, <1>2, <2>3 DEF SetUp
    <3>3. dma'[d].desc = 0 /\ dma'[d].word = 0
      BY <1>1, <3>1, <3>2, RunIs
    <3>4. 0 * DescriptorWords + 0 = 0
      BY Sizes
    <3>. QED BY <2>1, <3>3, <3>4 DEF Count, WordIndex
  <2>. QED BY <2>2, <2>3
<1>3. CASE SetUp /\ d # dev
  <2>1. dma'[d] = dma[d]
    BY <1>1, <1>3 DEF SetUp
  <2>2. Unstarted(d)' <=> Unstarted(d)
    <3>1. CASE pc = "run"
      BY <1>1, <1>3, <3>1 DEF SetUp, Unstarted
    <3>2. CASE pc # "run"
      BY <1>1, <1>3, <3>2 DEF SetUp, SetupSteps, AfterStep, Unstarted
    <3>. QED BY <3>1, <3>2
  <2>. QED BY <2>1, <2>2 DEF Count
<1>4. CASE StopTx
  <2>1. dma'[d].desc = dma[d].desc /\ dma'[d].word = dma[d].word
    BY <1>1, <1>4, StopIs DEF StopTx
  <2>2. Unstarted(d)' <=> Unstarted(d)
    BY <1>4 DEF StopTx, Unstarted
  <2>. QED BY <2>1, <2>2 DEF Count, WordIndex
<1>5. CASE ~SetUp /\ ~StopTx
  <2>1. dma' = dma
    BY <1>5 DEF Program, Call, WriteExp, WriteMod, TestBusy, WaitTx, WaitRx, ClearTx, ClearRx
  <2>2. Unstarted(d)' <=> Unstarted(d)
    <3>1. CASE Call \/ WriteExp \/ WriteMod
      BY <1>1, <3>1 DEF Call, WriteExp, WriteMod, Unstarted
    <3>2. CASE TestBusy
      BY <1>1, <3>2, NeverBusy DEF TestBusy, Unstarted
    <3>3. CASE WaitTx \/ WaitRx \/ ClearTx \/ ClearRx
      BY <3>3 DEF WaitTx, WaitRx, ClearTx, ClearRx, Unstarted
    <3>. QED BY <1>5, <3>1, <3>2, <3>3 DEF Program
  <2>. QED BY <2>1, <2>2 DEF Count
<1>. QED BY <1>2, <1>3, <1>4, <1>5

\* See ProgramKeepsCount.
LEMMA HandlerKeepsCount ==
  ASSUME IInv, NEW d \in Devs, Handler
  PROVE  Count(d)' = Count(d)
<1>1. /\ pc' = pc /\ dev' = dev
      /\ dma'[d].desc = dma[d].desc /\ dma'[d].word = dma[d].word
  BY HandlerKeepsDevices
<1>. QED BY <1>1 DEF Count, Unstarted, WordIndex

\* The words on their way stay in step while no word moves.
LEMMA CountsKept ==
  ASSUME StreamInv, Fetched' = Fetched, Stored' = Stored, UNCHANGED <<calls, fifo, stream>>
  PROVE  StreamInv'
  BY DEF StreamInv, Filling, Giving, Part, InputWord, stream, Wrapper!Nothing

\* When as many words have arrived as have left, none is on its way.
Empty ==
  /\ fifo = <<>> /\ received = Wrapper!Nothing
  /\ answer = NoAnswer /\ next = 0 /\ shown = NoAnswer

\* See Empty.
LEMMA NothingOnItsWay ==
  ASSUME IInv, StreamInv, Fetched = Stored
  PROVE  Empty
<1>1. /\ next \in 0 .. NWords - 1 /\ Len(fifo) \in Nat /\ NWords \in Nat \ {0}
      /\ fifo \in Seq(InputWords)
  <2>1. fifo \in Seq(InputWords) /\ next \in Position
    BY DEF IInv, TypeOK, Contents
  <2>. QED BY <2>1, LenProperties, Sizes DEF Position
<1>2. Stored \in Nat
  BY CountIs, Sizes DEF Stored, Devs
<1>3. PICK b \in Nat : Filling(b) \/ Giving(b)
  BY DEF StreamInv
<1> DEFINE start == b * NWords
<1>4. start \in Nat /\ (b + 1) * NWords = start + NWords
  BY <1>1
<1>5. ~Giving(b)
  <2> SUFFICES ASSUME Giving(b) PROVE FALSE
    OBVIOUS
  <2>1. Stored - Len(fifo) = start + NWords /\ Stored = start + next
    BY <1>4 DEF Giving
  <2>. HIDE DEF start
  <2>. QED BY <1>1, <1>2, <1>4, <2>1
<1>6. Filling(b)
  BY <1>3, <1>5
<1>7. PICK k \in 0 .. NWords : received = Part(calls, b, k) /\ Stored - Len(fifo) = start + k
  BY <1>6 DEF Filling
<1>8. Stored = start
  BY <1>6 DEF Filling
<1>9. k = 0 /\ Len(fifo) = 0
  <2>. HIDE DEF start
  <2>. QED BY <1>1, <1>2, <1>4, <1>7, <1>8
<1>10. received = Wrapper!Nothing
  <2>1. 0 .. 0 - 1 = {}
    OBVIOUS
  <2>. QED BY <1>7, <1>9, <2>1 DEF Part, Wrapper!Nothing
<1>11. fifo = <<>>
  BY <1>1, <1>9, EmptySeq
<1>. QED BY <1>6, <1>10, <1>11 DEF Empty, Filling

\* An empty accelerator is in step with a call that has not started.
LEMMA EmptyInStep == Empty /\ Fetched = 0 /\ Stored = 0 => StreamInv
<1> SUFFICES ASSUME Empty, Fetched = 0, Stored = 0
             PROVE  StreamInv
  OBVIOUS
<1>1. Len(fifo) = 0
  BY DEF Empty
<1>2. received = Part(calls, 0, 0)
  <2>1. 0 .. 0 - 1 = {}
    OBVIOUS
  <2>. QED BY <2>1 DEF Part, Empty, Wrapper!Nothing
<1>3. Filling(0)
  <2>1. 0 \in 0 .. NWords /\ 0 * NWords + 0 = 0 /\ 0 * NWords = 0
    BY Sizes
  <2>. QED BY <1>1, <1>2, <2>1 DEF Filling, Empty
<1>. QED BY <1>1, <1>3 DEF StreamInv

\* An engine that moves a word counts it; the other device's count stays.
LEMMA EngineCounts ==
  ASSUME IInv, NEW c \in Devs, dma[c].busy, dma' = [dma EXCEPT ![c] = Moved(@, Descriptor)],
         UNCHANGED <<host, isr>>
  PROVE  /\ Count(c) = WordIndex(dma[c]) /\ Count(c) \in 0 .. Length - 1
         /\ Count(c)' = Count(c) + 1
         /\ \A d \in Devs \ {c} : Count(d)' = Count(d)
<1>1. \A d \in Devs : d # c => dma'[d] = dma[d]
  BY EngineKeepsDevices
<1>2. /\ WordIndex(dma[c]) \in 0 .. Length - 1 /\ ~Unstarted(c)
      /\ WordIndex(dma'[c]) = WordIndex(dma[c]) + 1
  BY EngineKeepsDevices
<1>3. \A d \in Devs : Unstarted(d)' <=> Unstarted(d)
  BY DEF host, Unstarted
<1>. QED BY <1>1, <1>2, <1>3 DEF Count

\* Transmit: the word that leaves the input buffer goes behind those in the FIFO.
LEMMA TransmitInStep ==
  ASSUME IInv, StreamInv, Transmit
  PROVE  StreamInv'
<1>1. /\ fifo \in Seq(InputWords) /\ fifo' = Append(fifo, InputWord(calls, WordIndex(dma["tx"])))
      /\ InputWord(calls, WordIndex(dma["tx"])) \in InputWords
  BY TransmitTypes DEF IInv, Contents
<1>2. /\ Fetched = WordIndex(dma["tx"]) /\ Fetched \in Int /\ Fetched' = Fetched + 1
      /\ Stored' = Stored
  BY EngineCounts DEF Transmit, Devs, Fetched, Stored
<1>3. UNCHANGED <<calls, received, answer, next, shown>>
  BY DEF Transmit, host, stream
<1> DEFINE w == InputWord(calls, Fetched)
<1>4. fifo' = Append(fifo, w) /\ w \in InputWords
  BY <1>1, <1>2
<1> HIDE DEF w
<1>5. /\ Len(fifo) \in Nat /\ Len(fifo') = Len(fifo) + 1
      /\ \A j \in 1 .. Len(fifo) : fifo'[j] = fifo[j]
      /\ fifo'[Len(fifo) + 1] = w
  BY <1>1, <1>4, AppendProperties, LenProperties
<1>6. Fetched' - Len(fifo') = Fetched - Len(fifo)
  BY <1>2, <1>5
<1>7. ASSUME NEW j \in 1 .. Len(fifo')
      PROVE  fifo'[j] = InputWord(calls, Fetched' - Len(fifo') + j - 1)
  <2>1. CASE j \in 1 .. Len(fifo)
    BY <1>5, <1>6, <2>1 DEF StreamInv
  <2>2. CASE j = Len(fifo) + 1
    <3>1. Fetched - Len(fifo) + j - 1 = Fetched
      BY <1>2, <1>5, <2>2
    <3>. QED BY <1>5, <1>6, <2>2, <3>1 DEF w
  <2>. QED BY <1>5, <2>1, <2>2
<1>8. \E b \in Nat : Filling(b)' \/ Giving(b)'
  BY <1>2, <1>3, <1>6 DEF StreamInv, Filling, Giving, Part, InputWord, Wrapper!Nothing
<1>. QED BY <1>3, <1>7, <1>8 DEF StreamInv

\* A range of positions has one length.
LEMMA RangeLength ==
  ASSUME NEW j \in Nat, NEW k \in Nat, 0 .. j - 1 = 0 .. k - 1
  PROVE  j = k
<1>1. CASE j < k
  <2>1. j \in 0 .. k - 1 /\ j \notin 0 .. j - 1
    BY <1>1
  <2>. QED BY <2>1
<1>2. CASE k < j
  <2>1. k \in 0 .. j - 1 /\ k \notin 0 .. k - 1
    BY <1>2
  <2>. QED BY <2>1
<1>. QED BY <1>1, <1>2

\* Feed: the word that the accelerator takes is the next of its block.
LEMMA FeedInStep ==
  ASSUME IInv, StreamInv, Feed
  PROVE  StreamInv'
<1>1. PICK k \in Position :
        /\ DOMAIN received = 0 .. k - 1
        /\ received' = [p \in 0 .. k |-> IF p = k THEN fifo[1] ELSE received[p]]
  BY FeedTypes
<1>2. /\ fifo # <<>> /\ Len(fifo') = Len(fifo) - 1 /\ answer = NoAnswer
      /\ \A j \in 1 .. Len(fifo') : fifo'[j] = fifo[j + 1]
      /\ UNCHANGED <<host, isr, dma, answer, next, shown>>
      /\ fifo \in Seq(InputWords)
  BY FeedTypes DEF IInv, Contents
<1>3. Len(fifo) \in Nat \ {0}
  BY <1>2, LenProperties, EmptySeq
<1>4. /\ Fetched' = Fetched /\ Stored' = Stored /\ calls' = calls
      /\ Fetched \in Int
  <2>1. Fetched \in 0 .. Length
    BY CountIs DEF Fetched, Devs
  <2>. QED BY <1>2, <2>1, Sizes DEF host, Fetched, Stored, Count, Unstarted
<1>5. PICK b \in Nat : Filling(b) \/ Giving(b)
  BY DEF StreamInv
<1>6. Filling(b)
  BY <1>2, <1>5 DEF Giving
<1>7. PICK n \in 0 .. NWords : received = Part(calls, b, n) /\ Fetched - Len(fifo) = b * NWords + n
  BY <1>6 DEF Filling
<1>8. n = k /\ k + 1 \in 0 .. NWords /\ (k + 1) - 1 = k /\ k \in Nat
  <2>1. k \in Nat /\ n \in Nat /\ k + 1 \in 0 .. NWords /\ (k + 1) - 1 = k
    BY Sizes DEF Position
  <2>2. 0 .. k - 1 = 0 .. n - 1
    BY <1>1, <1>7 DEF Part
  <2>. QED BY <2>1, <2>2, RangeLength
<1>9. fifo[1] = InputWord(calls, b * NWords + k)
  <2>1. fifo[1] = InputWord(calls, Fetched - Len(fifo) + 1 - 1)
    BY <1>3 DEF StreamInv
  <2>2. Fetched - Len(fifo) + 1 - 1 = Fetched - Len(fifo)
    BY <1>3, <1>4
  <2>. QED BY <1>7, <1>8, <2>1, <2>2
<1>10. received' = Part(calls, b, k + 1)
  <2>1. ASSUME NEW p \in 0 .. k
        PROVE  received'[p] = InputWord(calls, b * NWords + p)
    <3>1. CASE p = k
      BY <1>1, <1>9, <3>1
    <3>2. CASE p # k
      <4>1. p \in 0 .. n - 1
        BY <1>8, <3>2
      <4>. QED BY <1>1, <1>7, <3>2, <4>1 DEF Part
    <3>. QED BY <3>1, <3>2
  <2>2. received' = [p \in 0 .. k |-> received'[p]]
    BY <1>1
  <2>. QED BY <1>8, <2>1, <2>2 DEF Part
<1>11. Fetched' - Len(fifo') = b * NWords + (k + 1)
  <2>. DEFINE start == b * NWords
  <2>1. start \in Int /\ Fetched - Len(fifo) = start + k
    BY <1>7, <1>8, Sizes
  <2>2. Fetched' - Len(fifo') = start + (k + 1)
    <3>. HIDE DEF start
    <3>. QED BY <1>2, <1>3, <1>4, <1>8, <2>1
  <2>. QED BY <2>2
<1>12. Filling(b)'
  BY <1>2, <1>4, <1>6, <1>8, <1>10, <1>11 DEF Filling, Part, InputWord
<1>13. ASSUME NEW j \in 1 .. Len(fifo')
       PROVE  fifo'[j] = InputWord(calls, Fetched' - Len(fifo') + j - 1)
  <2>1. /\ j + 1 \in 1 .. Len(fifo)
        /\ Fetched - Len(fifo) + (j + 1) - 1 = Fetched' - Len(fifo') + j - 1
    BY <1>2, <1>3, <1>4
  <2>. QED BY <1>2, <2>1 DEF StreamInv
<1>. QED BY <1>4, <1>12, <1>13 DEF StreamInv

\* Start and Present: the complete block becomes an answer, word by word.
LEMMA AccelerateInStep ==
  ASSUME IInv, StreamInv, Accelerate
  PROVE  StreamInv'
<1>1. UNCHANGED <<host, isr, dma, fifo, next>>
  BY DEF Accelerate, Wrapper!Start, Wrapper!Present
<1>2. Fetched' = Fetched /\ Stored' = Stored /\ calls' = calls
  BY <1>1 DEF host, Fetched, Stored, Count, Unstarted
<1>3. PICK b \in Nat : Filling(b) \/ Giving(b)
  BY DEF StreamInv
<1>4. \A j \in 1 .. Len(fifo') : fifo'[j] = InputWord(calls', Fetched' - Len(fifo') + j - 1)
  BY <1>1, <1>2 DEF StreamInv
<1>5. CASE Wrapper!Start
  <2>1. /\ answer = NoAnswer /\ DOMAIN received = 0 .. NWords - 1
        /\ answer' = [data |-> received, exp |-> exp, mod |-> mod]
        /\ received' = Wrapper!Nothing /\ shown' = shown
    BY <1>5 DEF Wrapper!Start, Wrapper!Position, Wrapper!Nothing
  <2>2. Filling(b)
    BY <1>3, <2>1 DEF Giving
  <2>3. PICK k \in 0 .. NWords : received = Part(calls, b, k)
                                 /\ Fetched - Len(fifo) = b * NWords + k
    BY <2>2 DEF Filling
  <2>4. k = NWords
    <3>1. 0 .. k - 1 = 0 .. NWords - 1 /\ k \in Nat /\ NWords \in Nat
      BY <2>1, <2>3, Sizes DEF Part
    <3>. QED BY <3>1, RangeLength
  <2>5. (b + 1) * NWords = b * NWords + NWords /\ b * NWords + 0 = b * NWords
    BY Sizes
  <2>6. answer' # NoAnswer
    <3>1. answer' \in Answers
      <4>1. PICK n \in 0 .. NWords : received \in [0 .. n - 1 -> InputWords]
        BY DEF IInv, Contents
      <4>2. received \in [Position -> InputWords]
        BY <2>1, <4>1 DEF Position
      <4>3. exp \in Params /\ mod \in Params
        BY DEF IInv, TypeOK
      <4>. QED BY <2>1, <4>2, <4>3 DEF Answers
    <3>. QED BY <3>1, NoAnswerAssumption
  <2>7. Giving(b)'
    BY <1>1, <1>2, <2>1, <2>2, <2>3, <2>4, <2>5, <2>6 DEF Giving, Filling, Part, InputWord, Wrapper!Nothing
  <2>. QED BY <1>4, <2>7 DEF StreamInv
<1>6. CASE Wrapper!Present
  <2>1. answer # NoAnswer /\ shown' = <<answer, next>> /\ UNCHANGED <<received, answer, next>>
    BY <1>6 DEF Wrapper!Present
  <2>2. Giving(b)
    BY <1>3, <2>1 DEF Filling
  <2>3. Giving(b)'
    BY <1>1, <1>2, <2>1, <2>2 DEF Giving, Part, InputWord, Wrapper!Nothing
  <2>. QED BY <1>4, <2>3 DEF StreamInv
<1>. QED BY <1>5, <1>6 DEF Accelerate

\* Receive: the word shown is the next of the answer, and after the last the accelerator
\* is ready for the next block.
LEMMA ReceiveInStep ==
  ASSUME IInv, StreamInv, Receive
  PROVE  StreamInv' /\ \E b \in Nat : Giving(b) /\ shown = <<answer, next>>
<1>1. /\ dma["rx"].busy /\ dma' = [dma EXCEPT !["rx"] = Moved(@, Descriptor)]
      /\ UNCHANGED <<host, isr, fifo, received>> /\ shown # NoAnswer
      /\ \/ next = NWords - 1 /\ answer' = NoAnswer /\ next' = 0
         \/ next # NWords - 1 /\ next' = next + 1 /\ answer' = answer
      /\ shown' = NoAnswer
  BY DEF Receive, Wrapper!Emit
<1>2. Stored \in Int /\ Stored' = Stored + 1 /\ Fetched' = Fetched
  BY <1>1, EngineCounts DEF Devs, Fetched, Stored
<1>3. calls' = calls
  BY <1>1 DEF host
<1>4. PICK b \in Nat : Giving(b)
  BY <1>1 DEF StreamInv, Filling
<1>5. /\ (b + 1) * NWords = b * NWords + NWords /\ (b + 1) * NWords + 0 = (b + 1) * NWords
      /\ b * NWords \in Int /\ next \in Int /\ NWords \in Nat /\ b + 1 \in Nat
      /\ 0 \in 0 .. NWords
  <2>1. next \in Position
    BY DEF IInv, TypeOK
  <2>. QED BY <2>1, Sizes DEF Position
<1>6. CASE next = NWords - 1
  <2>1. Stored' = (b + 1) * NWords
    <3>. DEFINE start == b * NWords
    <3>1. Stored = start + next /\ start \in Int /\ (b + 1) * NWords = start + NWords
      BY <1>4, <1>5 DEF Giving
    <3>. HIDE DEF start
    <3>. QED BY <1>2, <1>5, <1>6, <3>1
  <2>2. Fetched' - Len(fifo') = (b + 1) * NWords + 0
    BY <1>1, <1>2, <1>4, <1>5 DEF Giving
  <2>3. received' = Part(calls', b + 1, 0)
    <3>1. 0 .. 0 - 1 = {}
      OBVIOUS
    <3>. QED BY <1>1, <1>4, <3>1 DEF Giving, Part, Wrapper!Nothing
  <2>4. Filling(b + 1)'
    BY <1>1, <1>5, <1>6, <2>1, <2>2, <2>3 DEF Filling, Part, InputWord
  <2>. QED BY <1>1, <1>2, <1>3, <1>4, <1>5, <2>4 DEF StreamInv, Giving
<1>7. CASE next # NWords - 1
  <2>1. Stored' = b * NWords + next'
    <3>. DEFINE start == b * NWords
    <3>1. Stored = start + next /\ start \in Int /\ next' = next + 1
      BY <1>1, <1>4, <1>5, <1>7 DEF Giving
    <3>2. Stored' = start + next'
      <4>. HIDE DEF start
      <4>. QED BY <1>2, <1>5, <3>1
    <3>. QED BY <3>2
  <2>2. Giving(b)'
    BY <1>1, <1>2, <1>3, <1>4, <1>7, <2>1 DEF Giving, Part, InputWord, Wrapper!Nothing
  <2>. QED BY <1>1, <1>2, <1>3, <1>4, <2>2 DEF StreamInv, Giving
<1>. QED BY <1>6, <1>7

\* What is left of a call before it returns: both engines have moved all their words.
LEMMA AllMoved ==
  ASSUME IInv, pc \in {"clear_tx", "clear_rx", "stop_tx", "stop_rx"}
  PROVE  Fetched = Length /\ Stored = Length
<1>1. ASSUME NEW d \in Devs
      PROVE  Count(d) = Length
  <2>1. DeviceInv(d) /\ d \in {"tx", "rx"}
    BY Known
  <2>2. ~Unstarted(d) /\ (Waited(d) \/ Cleared(d))
    BY <2>1 DEF Unstarted, Waited, Cleared
  <2>3. ~dma[d].busy
    BY <2>1, <2>2 DEF DeviceInv, Stage
  <2>. QED BY <2>2, <2>3, CountIs
<1>. QED BY <1>1 DEF Fetched, Stored, Devs

\* Every step keeps the words in step.
LEMMA NextStream == IInv /\ StreamInv /\ [Next]_vars => StreamInv'
<1> SUFFICES ASSUME IInv, StreamInv, [Next]_vars PROVE StreamInv'
  OBVIOUS
<1>1. CASE Main /\ Call /\ UNCHANGED isr
  <2>1. Fetched = 0 /\ Stored = 0
    BY <1>1 DEF Call, Fetched, Stored, Count, Unstarted
  <2>2. Empty
    BY <2>1, NothingOnItsWay
  <2>3. Empty'
    BY <1>1, <2>2 DEF Call, Empty, stream, Wrapper!Nothing
  <2>4. Fetched' = 0 /\ Stored' = 0
    BY <1>1, <2>1, ProgramKeepsCount DEF Main, Fetched, Stored, Devs
  <2>5. (Empty /\ Fetched = 0 /\ Stored = 0)'
    BY <2>3, <2>4
  <2>. QED BY <2>5, EmptyInStep, PTL
<1>2. CASE Program /\ StopRx
  <2>1. Empty
    BY <1>2, AllMoved, NothingOnItsWay DEF StopRx
  <2>2. Empty'
    BY <1>2, <2>1 DEF StopRx, Empty, stream, Wrapper!Nothing
  <2>3. Fetched' = 0 /\ Stored' = 0
    BY <1>2 DEF StopRx, Fetched, Stored, Count, Unstarted
  <2>4. (Empty /\ Fetched = 0 /\ Stored = 0)'
    BY <2>2, <2>3
  <2>. QED BY <2>4, EmptyInStep, PTL
<1>3. CASE Program /\ ~StopRx
  <2>1. Fetched' = Fetched /\ Stored' = Stored
    BY <1>3, ProgramKeepsCount DEF Program, Main, Fetched, Stored, Devs
  <2>2. UNCHANGED <<calls, fifo, stream>>
    BY <1>3 DEF Program, WriteExp, WriteMod, TestBusy, SetUp, WaitTx, WaitRx, ClearTx, ClearRx, StopTx
  <2>. QED BY <2>1, <2>2, CountsKept
<1>4. CASE Handler
  <2>1. Fetched' = Fetched /\ Stored' = Stored
    BY <1>4, HandlerKeepsCount DEF Fetched, Stored, Devs
  <2>2. UNCHANGED <<calls, fifo, stream>>
    BY <1>4 DEF Handler, Interrupt, transmit_callback_function, receive_callback_function, host
  <2>. QED BY <2>1, <2>2, CountsKept
<1>5. CASE UNCHANGED vars
  <2>1. Fetched' = Fetched /\ Stored' = Stored /\ UNCHANGED <<calls, fifo, stream>>
    BY <1>5 DEF vars, host, Fetched, Stored, Count, Unstarted
  <2>. QED BY <2>1, CountsKept
<1>. QED BY <1>1, <1>2, <1>3, <1>4, <1>5, TransmitInStep, FeedInStep, ReceiveInStep,
            AccelerateInStep DEF Next

\* The invariant of the words on their way.
THEOREM WordsInStep == Spec => [](IInv /\ StreamInv)
<1>1. Init => StreamInv
  <2> SUFFICES ASSUME Init PROVE StreamInv
    OBVIOUS
  <2>1. Empty
    BY DEF Init, Empty, Wrapper!Init
  <2>2. Fetched = 0 /\ Stored = 0
    BY DEF Init, Fetched, Stored, Count, Unstarted
  <2>. QED BY <2>1, <2>2, EmptyInStep
<1>. QED BY <1>1, InitIInv, NextIInv, NextStream, PTL DEF Spec

-----------------------------------------------------------------------------
(***************************************************************************)
(* The parameters and the output, for programs that fill the registers.    *)
(***************************************************************************)

\* The words that a call writes fill the registers of the accelerator, once or more:
\* the two sides are made for one key size.
Filled == CallWords % NWords = 0

\* Quotient and remainder.
LEMMA DivMod ==
  ASSUME NEW n \in Nat \ {0}, NEW x \in Nat
  PROVE  /\ x % n \in 0 .. n - 1 /\ x \div n \in Nat
         /\ x = n * (x \div n) + (x % n)
  OBVIOUS

\* A number that differs from r by a multiple of n has the remainder r, and its
\* multiple is the quotient.
LEMMA RemainderIs ==
  ASSUME NEW n \in Nat \ {0}, NEW q \in Nat, NEW r \in 0 .. n - 1
  PROVE  (n * q + r) % n = r /\ (n * q + r) \div n = q
<1> DEFINE x == n * q + r
           q1 == x \div n
           r1 == x % n
<1>1. x \in Nat
  OBVIOUS
<1>2. r1 \in 0 .. n - 1 /\ q1 \in Nat /\ n * q + r = n * q1 + r1
  BY <1>1, DivMod
<1> HIDE DEF q1, r1
<1>3. CASE q < q1
  <2>1. n * (q1 - q) >= n
    BY <1>2, <1>3
  <2>. QED BY <1>2, <2>1
<1>4. CASE q > q1
  <2>1. n * (q - q1) >= n
    BY <1>2, <1>4
  <2>. QED BY <1>2, <2>1
<1>5. CASE q = q1
  <2>1. r = r1
    BY <1>2, <1>5
  <2>. QED BY <1>5, <2>1 DEF q1, r1
<1>. QED BY <1>2, <1>3, <1>4, <1>5

\* A pointer into the registers has the number of words written so far as its value,
\* as far as the registers go.
LEMMA AfterIs ==
  ASSUME NEW n \in Nat
  PROVE  /\ n % NWords \in Position
         /\ After(n % NWords) = (n + 1) % NWords
         /\ n < NWords => n % NWords = n
<1> DEFINE q == n \div NWords
           r == n % NWords
<1>1. NWords \in Nat \ {0} /\ q \in Nat /\ r \in 0 .. NWords - 1 /\ n = NWords * q + r
  BY DivMod, Sizes
<1>2. n < NWords => n % NWords = n
  <2>1. NWords * 0 + n = n
    BY <1>1
  <2>2. n < NWords => n \in 0 .. NWords - 1
    BY <1>1
  <2>. QED BY <1>1, <2>1, <2>2, RemainderIs
<1>3. After(r) = (n + 1) % NWords
  <2>. HIDE DEF q, r
  <2>1. CASE r + 1 = NWords
    <3>1. n + 1 = NWords * (q + 1) + 0 /\ q + 1 \in Nat /\ 0 \in 0 .. NWords - 1
      BY <1>1, <2>1
    <3>2. (n + 1) % NWords = 0
      BY <1>1, <3>1, RemainderIs
    <3>. QED BY <2>1, <3>2 DEF After
  <2>2. CASE r + 1 # NWords
    <3>1. n + 1 = NWords * q + (r + 1) /\ r + 1 \in 0 .. NWords - 1
      BY <1>1, <2>2
    <3>2. (n + 1) % NWords = r + 1
      BY <1>1, <3>1, RemainderIs
    <3>. QED BY <2>2, <3>2 DEF After
  <2>. QED BY <2>1, <2>2
<1>. QED BY <1>1, <1>2, <1>3 DEF Position

\* The write of a word of the exponent.
LEMMA WriteExpParams ==
  ASSUME IInv, ParamsInv, WriteExp
  PROVE  ParamsInv'
<1>1. /\ pc = "write_exp" /\ pc' = "write_mod" /\ UNCHANGED <<i, calls, mod, mod_cnt>>
      /\ exp' = [exp EXCEPT ![exp_cnt] = calls] /\ exp_cnt' = After(exp_cnt)
  BY DEF WriteExp
<1>2. i \in Nat /\ exp \in Params /\ i < CallWords
  BY <1>1, Sizes DEF IInv, TypeOK, Contents, Writing
<1>3. exp_cnt = i % NWords /\ mod_cnt = i % NWords
  BY <1>1 DEF ParamsInv, Writing, ExpWritten
<1>4. exp_cnt' = (i + 1) % NWords /\ exp_cnt \in Position
  BY <1>1, <1>2, <1>3, AfterIs
<1>5. ASSUME NEW p \in Position
      PROVE  (p < i + 1 => exp'[p] = calls) /\ (p < i => mod[p] = calls)
  <2>1. p \in Nat /\ p < NWords
    BY Sizes DEF Position
  <2>2. exp'[p] = IF p = exp_cnt THEN calls ELSE exp[p]
    BY <1>1, <1>2 DEF Params
  <2>3. (p < i => exp[p] = calls) /\ (p < i => mod[p] = calls)
    BY <1>1 DEF ParamsInv, Writing, ExpWritten
  <2>4. p = i => exp_cnt = p
    BY <1>2, <1>3, <2>1, AfterIs
  <2>. QED BY <1>2, <2>1, <2>2, <2>3, <2>4
<1>. QED BY <1>1, <1>3, <1>4, <1>5 DEF ParamsInv, Writing, ExpWritten

\* The write of a word of the modulus, the last of which fills the registers.
LEMMA WriteModParams ==
  ASSUME Filled, IInv, ParamsInv, WriteMod
  PROVE  ParamsInv'
<1>1. /\ pc = "write_mod" /\ UNCHANGED <<calls, exp, exp_cnt>>
      /\ mod' = [mod EXCEPT ![mod_cnt] = calls] /\ mod_cnt' = After(mod_cnt)
      /\ i' = i + 1
      /\ \/ i + 1 < CallWords /\ pc' = "write_exp"
         \/ ~(i + 1 < CallWords) /\ pc' = "test_busy"
  BY DEF WriteMod
<1>2. i \in Nat /\ mod \in Params /\ i < CallWords
  BY <1>1, Sizes DEF IInv, TypeOK, Contents, Writing
<1>3. exp_cnt = (i + 1) % NWords /\ mod_cnt = i % NWords
  BY <1>1 DEF ParamsInv, Writing, ExpWritten
<1>4. mod_cnt' = (i + 1) % NWords /\ mod_cnt \in Position
  BY <1>1, <1>2, <1>3, AfterIs
<1>5. ASSUME NEW p \in Position
      PROVE  (p < i + 1 => exp[p] = calls) /\ (p < i + 1 => mod'[p] = calls)
  <2>1. p \in Nat /\ p < NWords
    BY Sizes DEF Position
  <2>2. mod'[p] = IF p = mod_cnt THEN calls ELSE mod[p]
    BY <1>1, <1>2 DEF Params
  <2>3. (p < i + 1 => exp[p] = calls) /\ (p < i => mod[p] = calls)
    BY <1>1 DEF ParamsInv, Writing, ExpWritten
  <2>4. p = i => mod_cnt = p
    BY <1>2, <1>3, <2>1, AfterIs
  <2>. QED BY <1>2, <2>1, <2>2, <2>3, <2>4
<1>6. CASE i + 1 < CallWords
  BY <1>1, <1>3, <1>4, <1>5, <1>6 DEF ParamsInv, Writing, ExpWritten
<1>7. CASE ~(i + 1 < CallWords)
  <2>1. i + 1 = CallWords
    BY <1>2, <1>7, Sizes
  <2>2. exp_cnt' = 0 /\ mod_cnt' = 0
    BY <1>1, <1>3, <1>4, <2>1 DEF Filled
  <2>3. NWords <= i + 1
    <3>1. CallWords < NWords => CallWords % NWords = CallWords
      BY AfterIs, Sizes
    <3>. QED BY <2>1, <3>1, Sizes DEF Filled
  <2>4. ASSUME NEW p \in Position
        PROVE  exp'[p] = calls /\ mod'[p] = calls
    <3>1. p < i + 1
      BY <1>2, <2>3, Sizes DEF Position
    <3>. QED BY <1>1, <1>5, <3>1
  <2>. QED BY <1>1, <1>7, <2>2, <2>4 DEF ParamsInv, Writing
<1>. QED BY <1>6, <1>7

\* Every step keeps the invariant of the parameters.
LEMMA NextParams == Filled => (IInv /\ ParamsInv /\ [Next]_vars => ParamsInv')
<1> SUFFICES ASSUME Filled, IInv, ParamsInv, [Next]_vars PROVE ParamsInv'
  OBVIOUS
<1>1. CASE Call
  <2>1. /\ pc = "idle" /\ pc' = "write_exp" /\ i' = 0 /\ UNCHANGED <<exp, mod, exp_cnt, mod_cnt>>
    BY <1>1 DEF Call, params
  <2>2. exp_cnt = 0 /\ mod_cnt = 0
    BY <2>1 DEF ParamsInv, Writing
  <2>3. 0 % NWords = 0
    BY AfterIs, Sizes
  <2>4. ASSUME NEW p \in Position PROVE ~(p < 0)
    BY Sizes DEF Position
  <2>. QED BY <2>1, <2>2, <2>3, <2>4 DEF ParamsInv, Writing, ExpWritten
<1>2. CASE WriteExp
  BY <1>2, WriteExpParams
<1>3. CASE WriteMod
  BY <1>3, WriteModParams
<1>4. ASSUME UNCHANGED params, UNCHANGED calls,
             (UNCHANGED <<pc, i>>) \/ (pc \notin {"idle", "write_exp", "write_mod"}
                                       /\ pc' \notin {"write_exp", "write_mod"})
      PROVE  ParamsInv'
  BY <1>4 DEF ParamsInv, Writing, ExpWritten, params
<1>5. CASE TestBusy \/ SetUp \/ WaitTx \/ WaitRx \/ ClearTx \/ ClearRx \/ StopTx \/ StopRx
  <2>1. UNCHANGED params /\ UNCHANGED calls /\ pc \notin {"idle", "write_exp", "write_mod"}
    BY <1>5 DEF TestBusy, SetUp, WaitTx, WaitRx, ClearTx, ClearRx, StopTx, StopRx, SetupSteps
  <2>2. pc' \notin {"write_exp", "write_mod"}
    BY <1>5 DEF TestBusy, SetUp, WaitTx, WaitRx, ClearTx, ClearRx, StopTx, StopRx, SetupSteps,
                AfterStep
  <2>. QED BY <1>4, <2>1, <2>2
<1>6. CASE Handler \/ Transmit \/ Feed \/ Receive \/ Accelerate \/ UNCHANGED vars
  <2>1. UNCHANGED <<pc, i, calls, params>>
    BY <1>6 DEF Handler, Interrupt, transmit_callback_function, receive_callback_function,
                Transmit, Feed, Receive, Accelerate, vars, host
  <2>. QED BY <1>4, <2>1
<1>. QED BY <1>1, <1>2, <1>3, <1>5, <1>6 DEF Next, Program

\* The accelerator works when the parameters have been written.
LEMMA WorkingAfterWriting ==
  ASSUME IInv, StreamInv, ~Empty
  PROVE  pc \notin {"idle", "write_exp", "write_mod"}
<1> SUFFICES ASSUME pc \in {"idle", "write_exp", "write_mod"} PROVE FALSE
  OBVIOUS
<1>1. Fetched = 0 /\ Stored = 0
  BY DEF Fetched, Stored, Count, Unstarted
<1>. QED BY <1>1, NothingOnItsWay

\* and then all of them have.
LEMMA ParamsWritten ==
  ASSUME IInv, StreamInv, ParamsInv, ~Empty
  PROVE  exp = [p \in Position |-> calls] /\ mod = [p \in Position |-> calls]
<1>1. \A p \in Position : exp[p] = calls /\ mod[p] = calls
  BY WorkingAfterWriting DEF ParamsInv, Writing
<1>2. exp \in Params /\ mod \in Params
  BY DEF IInv, TypeOK
<1>. QED BY <1>1, <1>2 DEF Params

\* The answer in progress is the one to block b of the call.
LEMMA AnswerIs ==
  ASSUME IInv, OutputInv, NEW b \in Nat, Giving(b)
  PROVE  answer = Block(calls, b)
<1>1. /\ answer \in Answers /\ answer.data = [p \in 0 .. NWords - 1 |-> InputWord(calls, b * NWords + p)]
      /\ answer.exp = [p \in Position |-> calls] /\ answer.mod = [p \in Position |-> calls]
  BY DEF IInv, Contents, OutputInv, Giving, Part
<1>2. answer = [data |-> answer.data, exp |-> answer.exp, mod |-> answer.mod]
  BY <1>1 DEF Answers
<1>. QED BY <1>1, <1>2 DEF Block, Position

\* Receive: the word goes where it belongs.
LEMMA ReceiveOutput ==
  ASSUME IInv, StreamInv, OutputInv, Receive
  PROVE  OutputInv'
<1>1. PICK b \in Nat : Giving(b) /\ shown = <<answer, next>>
  BY ReceiveInStep
<1>2. /\ dma["rx"].busy /\ dma' = [dma EXCEPT !["rx"] = Moved(@, Descriptor)]
      /\ UNCHANGED <<host, isr, fifo, received>>
      /\ output' = [output EXCEPT ![WordIndex(dma["rx"])] = shown]
      /\ answer' \in {answer, NoAnswer}
  BY DEF Receive, Wrapper!Emit
<1>3. Stored = WordIndex(dma["rx"]) /\ Stored \in 0 .. Length - 1 /\ Stored' = Stored + 1
  BY <1>2, EngineCounts DEF Devs, Stored
<1>4. shown = AnswerWord(calls, Stored)
  <2>1. next \in 0 .. NWords - 1 /\ NWords \in Nat \ {0}
    BY Sizes DEF IInv, TypeOK, Position
  <2>2. Stored = NWords * b + next
    <3>1. NWords * b = b * NWords
      BY Sizes
    <3>. QED BY <1>1, <3>1 DEF Giving
  <2>3. Stored % NWords = next /\ Stored \div NWords = b
    BY <2>1, <2>2, RemainderIs
  <2>. QED BY <1>1, <2>3, AnswerIs DEF AnswerWord
<1>5. calls' = calls /\ pc' = pc /\ pc # "idle"
  <2>1. ~Empty
    BY <1>1 DEF Giving, Empty
  <2>. QED BY <1>2, <2>1, WorkingAfterWriting DEF host
<1>6. ASSUME NEW k \in 0 .. Length - 1, k < Stored'
      PROVE  output'[k] = AnswerWord(calls, k)
  <2>1. output'[k] = IF k = Stored THEN shown ELSE output[k]
    BY <1>2, <1>3 DEF IInv, TypeOK
  <2>2. CASE k = Stored
    BY <1>4, <2>1, <2>2
  <2>3. CASE k # Stored
    <3>1. k < Stored /\ calls > 0
      <4>1. calls \in Calls
        BY <1>5 DEF IInv, Contents
      <4>. QED BY <1>3, <1>6, <2>3, <4>1 DEF Calls
    <3>. QED BY <2>1, <2>3, <3>1 DEF OutputInv
  <2>. QED BY <2>2, <2>3
<1>7. answer' # NoAnswer => /\ answer'.exp = [p \in Position |-> calls]
                            /\ answer'.mod = [p \in Position |-> calls]
  BY <1>2 DEF OutputInv
<1>. QED BY <1>5, <1>6, <1>7 DEF OutputInv, AnswerWord, Block, InputWord

\* Every step keeps the invariant of the output.
LEMMA NextOutput == IInv /\ StreamInv /\ ParamsInv /\ OutputInv /\ [Next]_vars => OutputInv'
<1> SUFFICES ASSUME IInv, StreamInv, ParamsInv, OutputInv, [Next]_vars PROVE OutputInv'
  OBVIOUS
<1>1. CASE Main /\ Call /\ UNCHANGED isr
  <2>1. Fetched = 0 /\ Stored = 0
    BY <1>1 DEF Call, Fetched, Stored, Count, Unstarted
  <2>2. answer' = NoAnswer
    BY <1>1, <2>1, NothingOnItsWay DEF Empty, Call, stream
  <2>3. Stored' = 0 /\ pc' # "idle"
    BY <1>1, <2>1, ProgramKeepsCount DEF Main, Stored, Devs, Call
  <2>4. ASSUME NEW k \in 0 .. Length - 1 PROVE ~(k < 0)
    BY Sizes
  <2>. QED BY <2>2, <2>3, <2>4 DEF OutputInv
<1>2. ASSUME Stored' = Stored, UNCHANGED <<calls, output, answer>>, pc' = "idle" <=> pc = "idle"
      PROVE  OutputInv'
  BY <1>2 DEF OutputInv, AnswerWord, Block, InputWord
<1>3. CASE Program /\ StopRx
  <2>1. /\ pc = "stop_rx" /\ pc' = "idle" /\ UNCHANGED <<calls, output, answer>>
    BY <1>3 DEF StopRx, stream
  <2>2. Stored = Length
    BY <2>1, AllMoved
  <2>3. ASSUME NEW k \in 0 .. Length - 1 PROVE k < Stored
    BY <2>2, Sizes
  <2>. QED BY <2>1, <2>3 DEF OutputInv, AnswerWord, Block, InputWord
<1>4. CASE Program /\ ~StopRx
  <2>1. Stored' = Stored
    BY <1>4, ProgramKeepsCount DEF Program, Main, Stored, Devs
  <2>2. UNCHANGED <<calls, output, answer>>
    BY <1>4 DEF Program, WriteExp, WriteMod, TestBusy, SetUp, WaitTx, WaitRx, ClearTx, ClearRx,
                StopTx, stream
  <2>3. pc # "idle" /\ pc' # "idle"
    BY <1>4, NeverBusy DEF Program, WriteExp, WriteMod, SetUp, SetupSteps, AfterStep, WaitTx,
                           WaitRx, ClearTx, ClearRx, StopTx
  <2>. QED BY <1>2, <2>1, <2>2, <2>3
<1>5. CASE Handler
  <2>1. Stored' = Stored
    BY <1>5, HandlerKeepsCount DEF Stored, Devs
  <2>2. UNCHANGED <<pc, calls, output, answer>>
    BY <1>5 DEF Handler, Interrupt, transmit_callback_function, receive_callback_function, host,
                stream
  <2>. QED BY <1>2, <2>1, <2>2
<1>6. CASE Transmit
  <2>1. Stored' = Stored
    BY <1>6, EngineCounts DEF Transmit, Stored, Devs
  <2>2. UNCHANGED <<pc, calls, output, answer>>
    BY <1>6 DEF Transmit, host, stream
  <2>. QED BY <1>2, <2>1, <2>2
<1>7. CASE Feed \/ Accelerate \/ UNCHANGED vars
  <2>1. UNCHANGED <<pc, dev, calls, dma, output>>
    BY <1>7 DEF Feed, Accelerate, vars, host
  <2>2. Stored' = Stored
    BY <2>1 DEF Stored, Count, Unstarted
  <2>3. CASE Wrapper!Start
    <3>1. DOMAIN received = Position /\ answer' = [data |-> received, exp |-> exp, mod |-> mod]
      BY <2>3 DEF Wrapper!Start, Wrapper!Position, Position
    <3>2. ~Empty
      <4>1. 0 \in Position
        BY Sizes DEF Position
      <4>. QED BY <3>1, <4>1 DEF Empty, Wrapper!Nothing
    <3>3. exp = [p \in Position |-> calls] /\ mod = [p \in Position |-> calls]
      BY <3>2, ParamsWritten
    <3>. QED BY <2>1, <2>2, <3>1, <3>3 DEF OutputInv, AnswerWord, Block, InputWord
  <2>4. CASE ~Wrapper!Start
    <3>1. answer' = answer
      BY <1>7, <2>4 DEF Feed, Wrapper!Accept, Accelerate, Wrapper!Present, vars, stream
    <3>. QED BY <1>2, <2>1, <2>2, <3>1
  <2>. QED BY <2>3, <2>4
<1>. QED BY <1>1, <1>3, <1>4, <1>5, <1>6, <1>7, ReceiveOutput DEF Next

\* The inductive invariant of the whole.
THEOREM InvariantHolds == Filled => (Spec => []FullInv)
<1> SUFFICES ASSUME Filled PROVE Spec => []FullInv
  OBVIOUS
<1>1. Init => ParamsInv /\ OutputInv
  <2> SUFFICES ASSUME Init PROVE ParamsInv /\ OutputInv
    OBVIOUS
  <2>1. pc = "idle" /\ calls = 0 /\ exp_cnt = 0 /\ mod_cnt = 0 /\ answer = NoAnswer
    BY DEF Init, Wrapper!Init
  <2>. QED BY <2>1 DEF ParamsInv, OutputInv, Writing
<1>2. FullInv /\ [Next]_vars => FullInv'
  BY NextIInv, NextStream, NextParams, NextOutput DEF FullInv
<1>3. Spec => [](IInv /\ StreamInv)
  BY WordsInStep
<1>4. Init => IInv
  BY InitIInv
<1>5. IInv /\ StreamInv /\ ParamsInv /\ OutputInv => FullInv
  BY DEF FullInv
<1>. QED BY <1>1, <1>2, <1>3, <1>4, <1>5, PTL DEF Spec

\* Every call finds the accelerator at its first word: the pointers of exp_reg and
\* mod_reg at 0, and no word of an earlier call in it.
THEOREM AlignmentKept == Filled => (Spec => []AcceleratorAligned)
<1>1. FullInv => AcceleratorAligned
  <2> SUFFICES ASSUME FullInv, pc = "idle"
               PROVE  /\ exp_cnt = 0 /\ mod_cnt = 0 /\ fifo = <<>>
                      /\ received = Wrapper!Nothing /\ answer = NoAnswer
    BY DEF AcceleratorAligned
  <2>1. Empty
    BY WorkingAfterWriting DEF FullInv
  <2>. QED BY <2>1 DEF Empty, FullInv, ParamsInv, Writing
<1>. QED BY <1>1, InvariantHolds, PTL

\* From the first word of a block to the last of its answer the registers hold what
\* this call wrote.
THEOREM ParametersKept == Filled => (Spec => []ParametersSettled)
<1>1. FullInv => ParametersSettled
  <2> SUFFICES ASSUME FullInv, received # Wrapper!Nothing \/ answer # NoAnswer
               PROVE  \A p \in Position : exp[p] = calls /\ mod[p] = calls
    BY DEF ParametersSettled
  <2>1. ~Empty
    BY DEF Empty
  <2>. QED BY <2>1, ParamsWritten DEF FullInv
<1>. QED BY <1>1, InvariantHolds, PTL

-----------------------------------------------------------------------------
(***************************************************************************)
(* Each call is answered with its own blocks.                              *)
(***************************************************************************)

\* Every step is one of RsaCall, or none.
LEMMA StepSimulation == FullInv /\ FullInv' /\ [Next]_vars => [CallOf!Next]_(CallOf!vars)
<1> SUFFICES ASSUME FullInv, FullInv', [Next]_vars
             PROVE  [CallOf!Next]_(CallOf!vars)
  OBVIOUS
<1> USE DEF CallOf!vars
<1>1. CASE Main /\ Call /\ UNCHANGED isr
  <2>1. pc = "idle" /\ pc' = "write_exp" /\ calls' = calls + 1
    BY <1>1 DEF Call
  <2>. QED BY <2>1 DEF CallOf!Next, CallOf!Call
<1>2. ASSUME calls' = calls, pc # "idle", pc' # "idle"
      PROVE  UNCHANGED CallOf!vars
  BY <1>2
<1>3. CASE Program /\ StopRx
  <2>1. pc = "stop_rx" /\ pc' = "idle" /\ calls' = calls
    BY <1>3 DEF StopRx
  <2>2. calls > 0
    BY <2>1 DEF FullInv, IInv, Contents, Calls
  <2>3. output' = [k \in 0 .. Length - 1 |-> AnswerWord(calls, k)]
    <3>1. \A k \in 0 .. Length - 1 : output'[k] = AnswerWord(calls, k)
      BY <2>1, <2>2 DEF FullInv, OutputInv, AnswerWord, Block, InputWord
    <3>2. output' = [k \in 0 .. Length - 1 |-> output'[k]]
      BY DEF FullInv, IInv, Contents
    <3>. QED BY <3>1, <3>2
  <2>. QED BY <2>1, <2>2, <2>3 DEF CallOf!Next, CallOf!Return
<1>4. CASE Program /\ ~StopRx
  <2>1. pc # "idle" /\ pc' # "idle"
    BY <1>4, NeverBusy DEF FullInv, Program, WriteExp, WriteMod, SetUp, SetupSteps, AfterStep,
                           WaitTx, WaitRx, ClearTx, ClearRx, StopTx
  <2>2. calls' = calls
    BY <1>4 DEF Program, WriteExp, WriteMod, TestBusy, SetUp, WaitTx, WaitRx, ClearTx, ClearRx,
                StopTx
  <2>. QED BY <1>2, <2>1, <2>2
<1>5. CASE Handler \/ Transmit \/ Feed \/ Accelerate \/ UNCHANGED vars
  <2>1. UNCHANGED <<pc, calls, output>>
    BY <1>5 DEF Handler, Interrupt, transmit_callback_function, receive_callback_function,
                Transmit, Feed, Accelerate, vars, host
  <2>. QED BY <2>1
<1>6. CASE Receive
  <2>1. UNCHANGED <<pc, calls>>
    BY <1>6 DEF Receive, host
  <2>2. pc # "idle"
    <3>1. dma["rx"].busy
      BY <1>6 DEF Receive
    <3>2. ~Unstarted("rx")
      BY <3>1, PendingOnly DEF FullInv, Devs
    <3>. QED BY <3>2 DEF Unstarted
  <2>. QED BY <1>2, <2>1, <2>2
<1>. QED BY <1>1, <1>3, <1>4, <1>5, <1>6 DEF Next

\* rsa_crypto_hw returns only with a complete output, every word of it the word of the
\* answer to its block, made of the data and parameters of this call.
THEOREM CallsAnswered == Filled => (Spec => CallOf!Safety)
<1> SUFFICES ASSUME Filled PROVE Spec => CallOf!Safety
  OBVIOUS
<1>1. Init => CallOf!Init
  BY DEF Init, CallOf!Init
<1>2. Spec => []FullInv
  BY InvariantHolds
<1>3. FullInv /\ FullInv' /\ [Next]_vars => [CallOf!Next]_(CallOf!vars)
  BY StepSimulation
<1>. QED BY <1>1, <1>2, <1>3, PTL DEF Spec, CallOf!Safety
=============================================================================
