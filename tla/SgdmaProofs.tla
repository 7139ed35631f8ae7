---------------------------- MODULE SgdmaProofs ----------------------------
(***************************************************************************)
(* The SGDMA driver and its client, for chains of any length, with buffers *)
(* of any size, and for any number of transfers.                           *)
(*                                                                         *)
(* That a transfer is not disturbed rests on who may be setting one up:    *)
(* the program or the handler, never both, and only while the engine is    *)
(* idle.  That each chain has its callback rests, further, on what the     *)
(* control register holds: the interrupt bits are there exactly for the    *)
(* chains whose callback is due, and no chain ends while the callback of   *)
(* the one before is outstanding.                                          *)
(***************************************************************************)
EXTENDS SgdmaEnv, TLAPS

\* One of the two sets a transfer up, and the engine is idle then.
SetupAlone ==
  /\ main \in SetupSteps \/ isr \in SetupSteps => ~dma.busy
  /\ isr \in SetupSteps => main = "idle"
  /\ main = "run" \/ isr = "run" => dma.desc = head

\* A running or stopped engine is at a descriptor of the chain, and works for a
\* transfer; the status is clear from before it starts until the chain ends.
EngineInChain ==
  /\ dma.busy => transfer # "none"
  /\ transfer # "none" => dma.desc \in Descriptor /\ ~dma.chain_completed
  /\ {main, isr} \cap {"point", "run"} # {} => ~dma.chain_completed

\* A chain that has ended was started, and a transfer that is set up is one
\* that may be started.
StartedFirst ==
  /\ expected <= started
  /\ transfer # "none" => expected < started
  /\ main \in SetupSteps \cup {"sync_wait"} \/ isr \in SetupSteps => started < MaxTransfers

IInv == TypeOK /\ SetupAlone /\ EngineInChain /\ StartedFirst

InterruptBits == {"ie_global", "ie_chain_completed"}

\* A blocking transfer is made to its end, with interrupts disabled, before
\* do_sync_transfer returns.
Blocking ==
  /\ Paused => "run" \notin dma.control
  /\ blocking => main \in SetupSteps \cup {"sync_busy"}
  /\ main = "sync_busy" => blocking /\ "run" \in dma.control
  /\ transfer = "sync" => main = "sync_busy"
  /\ main = "sync_wait" \/ blocking => "ie_global" \notin dma.control

\* The register holds the interrupt bits while a chain runs that has a callback;
\* nobody sets them before a callback is registered.
BitsForCallback ==
  /\ "ie_global" \in dma.control => dma.callback
  /\ dma.callback => dma.chain_control = ChainControl
  /\ transfer = "async" /\ dma.callback => InterruptBits \subseteq dma.control

\* At most one callback is due, and then nothing else goes on.
OneDue ==
  /\ main # "idle" \/ isr \in SetupSteps \/ transfer # "none" => AllCalled
  /\ dma.irq => dma.callback /\ isr # "callback"
  /\ expected = called + (IF dma.irq \/ isr = "callback" THEN 1 ELSE 0)

CallInv == Blocking /\ BitsForCallback /\ OneDue

-----------------------------------------------------------------------------
(***************************************************************************)
(* What the accesses do to a device.                                       *)
(***************************************************************************)

\* The engine, its interrupt and the callback are left alone.
Steady(d, e) ==
  /\ e \in Device
  /\ e.busy = d.busy /\ e.desc = d.desc /\ e.word = d.word
  /\ e.irq = d.irq /\ e.callback = d.callback /\ e.chain_control = d.chain_control

\* Clearing the run bit or the status does not move the engine.
LEMMA ClearRunIs ==
  ASSUME NEW d \in Device
  PROVE  /\ Steady(d, ClearRun(d))
         /\ ClearRun(d).control = d.control \ {"run"}
         /\ ClearRun(d).chain_completed = d.chain_completed
BY DEF Steady, ClearRun, Device

\* Writing ones to the status register clears its bits and nothing else.
LEMMA ClearStatusIs ==
  ASSUME NEW d \in Device
  PROVE  /\ Steady(d, ClearStatus(d))
         /\ ClearStatus(d).control = d.control
         /\ ~ClearStatus(d).chain_completed
BY DEF Steady, ClearStatus, Device

\* Clearing the request changes nothing else.
LEMMA ClearIrqIs ==
  ASSUME NEW d \in Device
  PROVE  LET e == ClearIrq(d)
         IN  /\ e \in Device /\ ~e.irq
             /\ e.busy = d.busy /\ e.desc = d.desc /\ e.word = d.word
             /\ e.callback = d.callback /\ e.chain_control = d.chain_control
             /\ e.control = d.control /\ e.chain_completed = d.chain_completed
BY DEF ClearIrq, Device

\* Registering a callback changes the callback and its control bits.
LEMMA RegisterIs ==
  ASSUME NEW d \in Device
  PROVE  LET e == RegisterCallback(d, TRUE, ChainControl)
         IN  /\ e \in Device /\ e.callback /\ e.chain_control = ChainControl
             /\ e.busy = d.busy /\ e.desc = d.desc /\ e.word = d.word /\ e.irq = d.irq
             /\ e.control = d.control /\ e.chain_completed = d.chain_completed
BY DEF RegisterCallback, Device, ChainControl, ControlBits

\* What the transfer functions write to the control register is for that register.
LEMMA ControlIs ==
  ASSUME NEW d \in Device
  PROVE  /\ SyncControl(d) \in SUBSET ControlBits
         /\ AsyncControl(d) \in SUBSET ControlBits
         /\ "run" \in SyncControl(d)
         /\ "ie_global" \notin d.control => "ie_global" \notin SyncControl(d)
         /\ ~d.callback => "ie_global" \notin AsyncControl(d)
         /\ d.callback => d.chain_control \subseteq AsyncControl(d)
BY DEF SyncControl, AsyncControl, Device, ControlBits

\* The four accesses that set a transfer up: the last one starts the engine, at
\* the descriptor that the third one has written.
LEMMA SetupIs ==
  ASSUME NEW d \in Device, NEW step \in SetupSteps, NEW i \in Descriptor,
         NEW c \in SUBSET ControlBits
  PROVE  LET e == Setup(step, d, i, c)
         IN  /\ e \in Device
             /\ e.irq = d.irq /\ e.callback = d.callback
             /\ e.chain_control = d.chain_control
             /\ e.busy <=> d.busy \/ step = "run"
             /\ e.desc = IF step = "point" THEN i ELSE d.desc
             /\ e.chain_completed <=> d.chain_completed /\ step # "clear_status"
             /\ step = "run" => e.control = c
             /\ step = "clear_run" => e.control = d.control \ {"run"}
             /\ step \in {"clear_status", "point"} => e.control = d.control
<1> DEFINE e == Setup(step, d, i, c)
<1>1. CASE step = "clear_run"
  <2>1. e = ClearRun(d)
    BY <1>1 DEF Setup
  <2> QED
    BY <1>1, <2>1, ClearRunIs DEF Steady, Device
<1>2. CASE step = "clear_status"
  <2>1. e = ClearStatus(d)
    BY <1>2 DEF Setup
  <2> QED
    BY <1>2, <2>1, ClearStatusIs DEF Steady, Device
<1>3. CASE step = "point"
  <2>1. e = [d EXCEPT !.desc = i, !.word = 0]
    BY <1>3 DEF Setup, PointAt
  <2>2. i \in 0 .. NDescriptors /\ 0 \in 0 .. DescriptorWords - 1
    BY SgdmaAssumption DEF Descriptor
  <2> QED
    BY <1>3, <2>1, <2>2 DEF Device
<1>4. CASE step = "run"
  <2>1. e = [d EXCEPT !.control = c, !.busy = TRUE]
    BY <1>4 DEF Setup, Run
  <2> QED
    BY <1>4, <2>1 DEF Device
<1> QED
  BY <1>1, <1>2, <1>3, <1>4 DEF SetupSteps

\* start() sets the run bit; it wakes the engine when that was stopped in its
\* chain.
LEMMA StartIs ==
  ASSUME NEW d \in Device, NEW descriptors
  PROVE  LET e == Start(d, descriptors)
         IN  /\ e \in Device
             /\ e.irq = d.irq /\ e.callback = d.callback
             /\ e.chain_control = d.chain_control
             /\ e.desc = d.desc /\ e.word = d.word
             /\ e.busy <=> d.busy \/ d.desc \in descriptors
             /\ e.control = d.control \cup {"run"}
             /\ e.chain_completed = d.chain_completed
<1>1. d.control \cup {"run"} \in SUBSET ControlBits
  BY DEF Device, ControlBits
<1>2. CASE d.desc \in descriptors
  BY <1>1, <1>2 DEF Start, Run, Device
<1>3. CASE d.desc \notin descriptors
  BY <1>1, <1>3 DEF Start, Device
<1> QED
  BY <1>2, <1>3

\* A word is moved: the engine goes on to the next one, and is idle when that was
\* the last of the chain or it has been stopped at the end of a descriptor.  Only
\* the end of the chain raises the interrupt, and only if it may.
LEMMA MovedIs ==
  ASSUME NEW d \in Device, d.busy, d.desc \in Descriptor
  PROVE  LET e == Moved(d, chain)
             over == LastWord(d) /\ d.desc + 1 \notin Descriptor
         IN  /\ e \in Device
             /\ e.callback = d.callback /\ e.chain_control = d.chain_control
             /\ e.control = d.control
             /\ WordIndex(e) = WordIndex(d) + 1
             /\ ~over => e.desc \in Descriptor /\ e.irq = d.irq
                         /\ e.chain_completed = d.chain_completed
             /\ ~over => e.busy \/ "run" \notin d.control
             /\ over => /\ ~e.busy /\ e.chain_completed
                        /\ e.irq <=> d.irq \/ InterruptBits \subseteq d.control
<1> DEFINE e == Moved(d, chain)
           over == LastWord(d) /\ d.desc + 1 \notin Descriptor
<1>1. /\ NDescriptors \in Nat \ {0} /\ DescriptorWords \in Nat \ {0}
      /\ d.desc \in 0 .. NDescriptors - 1 /\ d.word \in 0 .. DescriptorWords - 1
  BY SgdmaAssumption DEF Descriptor, Device
<1>2. CASE ~LastWord(d)
  <2>1. e = [d EXCEPT !.word = @ + 1]
    BY <1>2 DEF Moved
  <2>2. d.word + 1 \in 0 .. DescriptorWords - 1
    BY <1>1, <1>2 DEF LastWord
  <2>3. e \in Device /\ e.desc = d.desc /\ e.word = d.word + 1
    BY <2>1, <2>2 DEF Device
  <2>4. WordIndex(e) = WordIndex(d) + 1
    <3>1. d.desc * DescriptorWords \in Int
      BY <1>1
    <3> QED
      BY <1>1, <2>3, <3>1 DEF WordIndex
  <2> QED
    BY <1>1, <1>2, <2>1, <2>3, <2>4 DEF Device
<1>3. CASE LastWord(d)
  <2>1. d.desc + 1 \in 0 .. NDescriptors /\ 0 \in 0 .. DescriptorWords - 1
    BY <1>1
  <2>2. (d.desc + 1) * DescriptorWords = d.desc * DescriptorWords + DescriptorWords
    BY <1>1
  <2>3. CASE d.desc + 1 \notin Descriptor
    <3>1. e = ChainOver(d)
      BY <1>3, <2>3 DEF Moved, chain
    <3>2. e = [d EXCEPT !.desc = @ + 1, !.word = 0, !.busy = FALSE, !.chain_completed = TRUE,
                        !.irq = @ \/ InterruptBits \subseteq d.control]
      BY <3>1 DEF ChainOver, InterruptBits
    <3>3. /\ e \in Device /\ e.desc = d.desc + 1 /\ e.word = 0
          /\ e.callback = d.callback /\ e.chain_control = d.chain_control
          /\ e.control = d.control /\ ~e.busy /\ e.chain_completed
          /\ e.irq = (d.irq \/ InterruptBits \subseteq d.control)
      BY <2>1, <3>2 DEF Device
    <3>4. WordIndex(e) = WordIndex(d) + 1
      <4>1. d.desc * DescriptorWords \in Int
        BY <1>1
      <4> QED
        BY <1>1, <1>3, <2>2, <3>3, <4>1 DEF WordIndex, LastWord
    <3> QED
      BY <1>3, <2>3, <3>3, <3>4
  <2>4. CASE d.desc + 1 \in Descriptor
    <3> DEFINE b == IF "run" \in d.control THEN TRUE ELSE FALSE
    <3>1. e = [d EXCEPT !.desc = @ + 1, !.word = 0, !.busy = b]
      <4>1. e = [d EXCEPT !.desc = @ + 1, !.word = 0, !.busy = "run" \in d.control]
        BY <1>3, <2>4 DEF Moved, chain
      <4>2. CASE "run" \in d.control
        BY <4>1, <4>2
      <4>3. CASE "run" \notin d.control
        <5>1. ("run" \in d.control) = FALSE /\ b = FALSE
          BY <4>3
        <5> QED
          BY <4>1, <5>1, Zenon
      <4> QED
        BY <4>2, <4>3
    <3>2. b \in BOOLEAN /\ (b <=> "run" \in d.control)
      OBVIOUS
    <3> HIDE DEF b
    <3>3. /\ e \in Device /\ e.desc = d.desc + 1 /\ e.word = 0
          /\ e.callback = d.callback /\ e.chain_control = d.chain_control
          /\ e.control = d.control /\ e.busy = b
          /\ e.chain_completed = d.chain_completed /\ e.irq = d.irq
      BY <2>1, <3>1, <3>2 DEF Device
    <3>4. WordIndex(e) = WordIndex(d) + 1
      <4>1. d.desc * DescriptorWords \in Int
        BY <1>1
      <4> QED
        BY <1>1, <1>3, <2>2, <3>3, <4>1 DEF WordIndex, LastWord
    <3> QED
      BY <1>3, <2>4, <3>2, <3>3, <3>4
  <2> QED
    BY <2>3, <2>4
<1> QED
  BY <1>2, <1>3

-----------------------------------------------------------------------------
(***************************************************************************)
(* Who sets transfers up, and where the engine is.                         *)
(***************************************************************************)

\* The controller is idle after the reset, and nothing has been started.
LEMMA InitIInv == Init => IInv
<1> SUFFICES ASSUME Init PROVE IInv
  OBVIOUS
<1>1. dma \in Device
  <2>1. 0 \in 0 .. NDescriptors /\ 0 \in 0 .. DescriptorWords - 1
    BY SgdmaAssumption
  <2> QED
    BY <2>1 DEF Init, Initialized, Device, ControlBits
<1>2. 0 \in Descriptor /\ 0 \in 0 .. MaxTransfers
  BY SgdmaAssumption, ClientAssumption DEF Descriptor
<1>3. TypeOK
  BY <1>1, <1>2 DEF Init, TypeOK
<1> QED
  BY <1>3 DEF Init, Initialized, IInv, SetupAlone, EngineInChain, StartedFirst, SetupSteps

\* Either of the two makes the next access of a transfer it sets up.
LEMMA SetupIInv == IInv /\ (MainSetup \/ IrqSetup) => IInv'
<1> SUFFICES ASSUME IInv, MainSetup \/ IrqSetup PROVE IInv'
  OBVIOUS
<1>1. CASE MainSetup
  <2> DEFINE c == IF blocking THEN SyncControl(dma) ELSE AsyncControl(dma)
  <2>1. /\ main \in SetupSteps /\ dma' = Setup(main, dma, head, c)
        /\ UNCHANGED <<isr, head, blocking, expected, called>>
        /\ isr = "none" /\ ~dma.busy /\ started < MaxTransfers
    BY <1>1 DEF MainSetup, IInv, SetupAlone, StartedFirst, Main
  <2>2. c \in SUBSET ControlBits
    BY ControlIs DEF IInv, TypeOK
  <2>3. dma \in Device /\ head \in Descriptor
    BY DEF IInv, TypeOK
  <2> HIDE DEF c
  <2>4. /\ dma' \in Device /\ (dma'.busy <=> main = "run")
        /\ dma'.desc = IF main = "point" THEN head ELSE dma.desc
        /\ main = "clear_status" => ~dma'.chain_completed
        /\ ~dma.chain_completed => ~dma'.chain_completed
    BY <2>1, <2>2, <2>3, SetupIs
  <2>5. CASE main = "run"
    <3>1. /\ main' \in {"sync_busy", "idle"} /\ transfer' \in {"sync", "async"}
          /\ started' = started + 1
      BY <1>1, <2>5 DEF MainSetup
    <3>2. dma'.desc \in Descriptor /\ ~dma'.chain_completed
      BY <2>4, <2>5 DEF IInv, TypeOK, SetupAlone, EngineInChain
    <3>3. started' \in 0 .. MaxTransfers /\ expected' < started' /\ expected' <= started'
      BY <2>1, <3>1, ClientAssumption DEF IInv, TypeOK, StartedFirst
    <3>4. TypeOK'
      BY <2>1, <2>4, <3>1, <3>3 DEF IInv, TypeOK
    <3>5. SetupAlone' /\ EngineInChain'
      BY <2>1, <3>1, <3>2 DEF SetupAlone, EngineInChain, SetupSteps
    <3>6. StartedFirst'
      BY <2>1, <3>1, <3>3 DEF StartedFirst, SetupSteps
    <3> QED
      BY <3>4, <3>5, <3>6 DEF IInv
  <2>6. CASE main # "run"
    <3>1. main' = AfterStep(main) /\ UNCHANGED <<transfer, started>>
      BY <1>1, <2>6 DEF MainSetup
    <3>2. /\ main' \in SetupSteps
          /\ main' = "run" <=> main = "point"
          /\ main' = "point" <=> main = "clear_status"
      BY <2>1, <2>6, <3>1 DEF AfterStep, SetupSteps
    <3>3. TypeOK'
      BY <2>1, <2>4, <3>1, <3>2 DEF IInv, TypeOK
    <3>4. SetupAlone'
      BY <2>1, <2>4, <2>6, <3>2 DEF SetupAlone, SetupSteps
    <3>5. EngineInChain'
      BY <2>1, <2>4, <2>6, <3>1, <3>2 DEF IInv, TypeOK, EngineInChain, SetupSteps
    <3>6. StartedFirst'
      BY <2>1, <3>1, <3>2 DEF IInv, StartedFirst, SetupSteps
    <3> QED
      BY <3>3, <3>4, <3>5, <3>6 DEF IInv
  <2> QED
    BY <2>5, <2>6
<1>2. CASE IrqSetup
  <2> DEFINE c == AsyncControl(dma)
  <2>1. /\ isr \in SetupSteps /\ dma' = Setup(isr, dma, head, c)
        /\ UNCHANGED <<main, head, blocking, expected, called>>
        /\ main = "idle" /\ ~dma.busy /\ started < MaxTransfers
    BY <1>2 DEF IrqSetup, IInv, SetupAlone, StartedFirst
  <2>2. c \in SUBSET ControlBits
    BY ControlIs DEF IInv, TypeOK
  <2>3. dma \in Device /\ head \in Descriptor
    BY DEF IInv, TypeOK
  <2> HIDE DEF c
  <2>4. /\ dma' \in Device /\ (dma'.busy <=> isr = "run")
        /\ dma'.desc = IF isr = "point" THEN head ELSE dma.desc
        /\ isr = "clear_status" => ~dma'.chain_completed
        /\ ~dma.chain_completed => ~dma'.chain_completed
    BY <2>1, <2>2, <2>3, SetupIs
  <2>5. CASE isr = "run"
    <3>1. /\ isr' \in {"return"} /\ transfer' \in {"sync", "async"}
          /\ started' = started + 1
      BY <1>2, <2>5 DEF IrqSetup
    <3>2. dma'.desc \in Descriptor /\ ~dma'.chain_completed
      BY <2>4, <2>5 DEF IInv, TypeOK, SetupAlone, EngineInChain
    <3>3. started' \in 0 .. MaxTransfers /\ expected' < started' /\ expected' <= started'
      BY <2>1, <3>1, ClientAssumption DEF IInv, TypeOK, StartedFirst
    <3>4. TypeOK'
      BY <2>1, <2>4, <3>1, <3>3 DEF IInv, TypeOK
    <3>5. SetupAlone' /\ EngineInChain'
      BY <2>1, <3>1, <3>2 DEF SetupAlone, EngineInChain, SetupSteps
    <3>6. StartedFirst'
      BY <2>1, <3>1, <3>3 DEF StartedFirst, SetupSteps
    <3> QED
      BY <3>4, <3>5, <3>6 DEF IInv
  <2>6. CASE isr # "run"
    <3>1. isr' = AfterStep(isr) /\ UNCHANGED <<transfer, started>>
      BY <1>2, <2>6 DEF IrqSetup
    <3>2. /\ isr' \in SetupSteps
          /\ isr' = "run" <=> isr = "point"
          /\ isr' = "point" <=> isr = "clear_status"
      BY <2>1, <2>6, <3>1 DEF AfterStep, SetupSteps
    <3>3. TypeOK'
      BY <2>1, <2>4, <3>1, <3>2 DEF IInv, TypeOK
    <3>4. SetupAlone'
      BY <2>1, <2>4, <2>6, <3>2 DEF SetupAlone, SetupSteps
    <3>5. EngineInChain'
      BY <2>1, <2>4, <2>6, <3>1, <3>2 DEF IInv, TypeOK, EngineInChain, SetupSteps
    <3>6. StartedFirst'
      BY <2>1, <3>1, <3>2 DEF IInv, StartedFirst, SetupSteps
    <3> QED
      BY <3>3, <3>4, <3>5, <3>6 DEF IInv
  <2> QED
    BY <2>5, <2>6
<1> QED
  BY <1>1, <1>2

\* do_async_transfer goes past its test, or is refused; do_sync_transfer is called.
LEMMA TransferIInv == IInv /\ (do_async_transfer \/ do_sync_transfer) => IInv'
<1> SUFFICES ASSUME IInv, do_async_transfer \/ do_sync_transfer PROVE IInv'
  OBVIOUS
<1>1. /\ started < MaxTransfers /\ isr = "none" /\ main = "idle"
      /\ UNCHANGED <<dma, blocking, isr, transfer, started, expected, called>>
      /\ head' \in Descriptor
      /\ \/ main' = "idle"
         \/ main' = "clear_run" /\ ~dma.busy
         \/ main' = "sync_wait"
  BY DEF do_async_transfer, do_sync_transfer, MayStart, Main, IInv, TypeOK
<1>2. TypeOK'
  BY <1>1 DEF IInv, TypeOK, SetupSteps
<1>3. SetupAlone'
  BY <1>1 DEF SetupAlone, SetupSteps
<1>4. EngineInChain' /\ StartedFirst'
  BY <1>1 DEF IInv, EngineInChain, StartedFirst
<1> QED
  BY <1>2, <1>3, <1>4 DEF IInv

\* do_sync_transfer goes past its first wait, and past its second.
LEMMA SyncIInv == IInv /\ (SyncProceed \/ SyncReturn) => IInv'
<1> SUFFICES ASSUME IInv, SyncProceed \/ SyncReturn PROVE IInv'
  OBVIOUS
<1>1. CASE SyncProceed
  <2>1. /\ main = "sync_wait" /\ ~dma.busy /\ isr = "none" /\ main' = "clear_run"
        /\ blocking' = TRUE /\ head' \in Descriptor
        /\ UNCHANGED <<dma, isr, transfer, started, expected, called>>
    BY <1>1 DEF SyncProceed, Main
  <2>2. TypeOK'
    BY <2>1 DEF IInv, TypeOK, SetupSteps
  <2>3. SetupAlone'
    BY <2>1 DEF SetupAlone, SetupSteps
  <2>4. EngineInChain' /\ StartedFirst'
    BY <2>1 DEF IInv, EngineInChain, StartedFirst
  <2> QED
    BY <2>2, <2>3, <2>4 DEF IInv
<1>2. CASE SyncReturn
  <2>1. /\ main = "sync_busy" /\ ~dma.busy /\ isr = "none" /\ main' = "idle"
        /\ blocking' = FALSE /\ dma' = ClearStatus(ClearRun(dma)) /\ dma \in Device
        /\ UNCHANGED <<isr, head, transfer, started, expected, called>>
    BY <1>2 DEF SyncReturn, Main, IInv, TypeOK
  <2>2. Steady(dma, ClearRun(dma)) /\ ClearRun(dma) \in Device
    BY <2>1, ClearRunIs DEF Steady
  <2>3. dma' \in Device /\ ~dma'.busy /\ dma'.desc = dma.desc /\ ~dma'.chain_completed
    BY <2>1, <2>2, ClearStatusIs DEF Steady
  <2>4. TypeOK'
    BY <2>1, <2>3 DEF IInv, TypeOK
  <2>5. SetupAlone' /\ EngineInChain' /\ StartedFirst'
    BY <2>1, <2>3 DEF IInv, SetupAlone, EngineInChain, StartedFirst, SetupSteps
  <2> QED
    BY <2>4, <2>5 DEF IInv
<1> QED
  BY <1>1, <1>2

\* The engine is stopped and restarted, a callback registered.
LEMMA OtherCallsIInv == IInv /\ (register_callback \/ start \/ stop) => IInv'
<1> SUFFICES ASSUME IInv, register_callback \/ start \/ stop PROVE IInv'
  OBVIOUS
<1>1. /\ main = "idle" /\ isr = "none" /\ dma \in Device
      /\ UNCHANGED <<main, blocking, isr, head, transfer, started, expected, called>>
  BY DEF register_callback, start, stop, Main, IInv, TypeOK
<1>2. /\ dma' \in Device /\ dma'.desc = dma.desc
      /\ dma'.chain_completed = dma.chain_completed
      /\ dma'.busy => dma.busy \/ transfer # "none"
  <2>1. CASE register_callback
    BY <1>1, <2>1, RegisterIs DEF register_callback
  <2>2. CASE start
    <3> DEFINE descriptors == IF Paused THEN chain ELSE {}
    <3>1. dma' = Start(dma, descriptors)
      BY <2>2 DEF start
    <3>2. descriptors # {} => transfer # "none"
      BY DEF Paused
    <3> HIDE DEF descriptors
    <3> QED
      BY <1>1, <3>1, <3>2, StartIs
  <2>3. CASE stop
    BY <1>1, <2>3, ClearRunIs DEF stop, Stop, Steady
  <2> QED
    BY <2>1, <2>2, <2>3
<1>3. TypeOK'
  BY <1>1, <1>2 DEF IInv, TypeOK
<1>4. SetupAlone' /\ EngineInChain' /\ StartedFirst'
  BY <1>1, <1>2 DEF IInv, SetupAlone, EngineInChain, StartedFirst, SetupSteps
<1> QED
  BY <1>3, <1>4 DEF IInv

\* The handler clears the request, makes the callback and returns.
LEMMA IrqIInv == IInv /\ (IrqClear \/ IrqCallback \/ IrqReturn) => IInv'
<1> SUFFICES ASSUME IInv, IrqClear \/ IrqCallback \/ IrqReturn PROVE IInv'
  OBVIOUS
<1>1. /\ dma' \in Device /\ dma'.busy = dma.busy /\ dma'.desc = dma.desc
      /\ dma'.chain_completed = dma.chain_completed
      /\ UNCHANGED <<main, blocking, transfer, started, expected>>
  BY ClearIrqIs DEF IrqClear, IrqCallback, IrqReturn, IInv, TypeOK
<1>2. isr \notin SetupSteps /\ head' \in Descriptor /\ called' \in Nat
  BY DEF IrqClear, IrqCallback, IrqReturn, IInv, TypeOK, SetupSteps
<1>3. \/ isr' \in {"none", "callback", "return"} /\ head' = head
      \/ isr' = "clear_run" /\ main = "idle" /\ ~dma.busy /\ started < MaxTransfers
  BY DEF IrqClear, IrqCallback, IrqReturn
<1>4. TypeOK'
  BY <1>1, <1>2, <1>3 DEF IInv, TypeOK, SetupSteps
<1>5. SetupAlone'
  BY <1>1, <1>2, <1>3 DEF IInv, SetupAlone, SetupSteps
<1>6. EngineInChain' /\ StartedFirst'
  BY <1>1, <1>2, <1>3 DEF IInv, EngineInChain, StartedFirst, SetupSteps
<1> QED
  BY <1>4, <1>5, <1>6 DEF IInv

\* The engine moves a word.
LEMMA EngineIInv == IInv /\ Engine => IInv'
<1> SUFFICES ASSUME IInv, Engine PROVE IInv'
  OBVIOUS
<1>1. /\ dma \in Device /\ dma.busy /\ dma.desc \in Descriptor /\ transfer # "none"
      /\ ~dma.chain_completed /\ expected < started
      /\ main \notin SetupSteps /\ isr \notin SetupSteps
      /\ dma' = Moved(dma, chain)
      /\ UNCHANGED <<main, blocking, isr, head, started, called>>
  BY DEF Engine, IInv, TypeOK, SetupAlone, EngineInChain, StartedFirst
<1>2. /\ dma' \in Device
      /\ \/ ~dma'.chain_completed /\ dma'.desc \in Descriptor
         \/ dma'.chain_completed /\ ~dma'.busy
  BY <1>1, MovedIs
<1>3. CASE ~dma'.chain_completed
  <2>1. UNCHANGED <<transfer, expected>>
    BY <1>3 DEF Engine
  <2> QED
    BY <1>1, <1>2, <1>3, <2>1 DEF IInv, TypeOK, SetupAlone, EngineInChain, StartedFirst,
                                  SetupSteps
<1>4. CASE dma'.chain_completed
  <2>1. transfer' = "none" /\ (expected' = expected \/ expected' = expected + 1)
    BY <1>4 DEF Engine, IInv, TypeOK
  <2>2. expected' \in 0 .. MaxTransfers /\ expected' <= started'
    BY <1>1, <2>1, ClientAssumption DEF IInv, TypeOK
  <2>3. TypeOK'
    BY <1>1, <1>2, <2>1, <2>2 DEF IInv, TypeOK
  <2>4. SetupAlone' /\ EngineInChain' /\ StartedFirst'
    BY <1>1, <1>2, <1>4, <2>1, <2>2 DEF IInv, SetupAlone, EngineInChain, StartedFirst,
                                        SetupSteps
  <2> QED
    BY <2>3, <2>4 DEF IInv
<1> QED
  BY <1>3, <1>4

\* Every step keeps all of it.
LEMMA NextIInv == IInv /\ [Next]_vars => IInv'
<1>1. IInv /\ UNCHANGED vars => IInv'
  BY DEF vars, IInv, TypeOK, SetupAlone, EngineInChain, StartedFirst
<1> QED
  BY <1>1, SetupIInv, TransferIInv, SyncIInv, OtherCallsIInv, IrqIInv, EngineIInv DEF Next, Irq

\* It holds throughout.
LEMMA Invariance == Spec => []IInv
BY InitIInv, NextIInv, PTL DEF Spec

\* The registers, positions and counters of driver, client and engine stay what
\* they are declared to be: the engine does not leave the chain, and no more
\* chains end than were started.
THEOREM TypeCorrect == Spec => []TypeOK
<1>1. IInv => TypeOK
  BY DEF IInv
<1> QED
  BY <1>1, Invariance, PTL

\* No step points a working engine elsewhere, stops it within a descriptor or
\* gives it to another transfer.
LEMMA StepUndisturbed ==
  ASSUME IInv, Next, dma.busy
  PROVE  \/ WordIndex(dma') = WordIndex(dma) + 1
         \/ WordIndex(dma') = WordIndex(dma) /\ dma'.busy /\ transfer' = transfer
<1>1. dma \in Device /\ dma.desc \in Descriptor /\ main \notin SetupSteps /\ isr \notin SetupSteps
  BY DEF IInv, TypeOK, SetupAlone, EngineInChain
<1>2. CASE Engine
  BY <1>1, <1>2, MovedIs DEF Engine
<1>3. CASE start
  <2>1. dma' = Start(dma, {}) /\ transfer' = transfer
    BY <1>3 DEF start, Paused
  <2>2. /\ dma'.desc = dma.desc /\ dma'.word = dma.word /\ dma'.busy
    BY <1>1, <2>1, StartIs
  <2> QED
    BY <2>1, <2>2 DEF WordIndex
<1>4. CASE stop \/ register_callback \/ IrqClear
  <2>1. /\ dma'.desc = dma.desc /\ dma'.word = dma.word /\ dma'.busy
        /\ transfer' = transfer
    <3>1. CASE stop
      BY <1>1, <3>1, ClearRunIs DEF stop, Stop, Steady
    <3>2. CASE register_callback
      BY <1>1, <3>2, RegisterIs DEF register_callback
    <3>3. CASE IrqClear
      BY <1>1, <3>3, ClearIrqIs DEF IrqClear
    <3>. QED BY <1>4, <3>1, <3>2, <3>3
  <2> QED
    BY <2>1 DEF WordIndex
<1>5. CASE do_async_transfer \/ do_sync_transfer \/ IrqCallback \/ IrqReturn
  BY <1>5 DEF do_async_transfer, do_sync_transfer, IrqCallback, IrqReturn
<1>6. ~MainSetup /\ ~IrqSetup /\ ~SyncProceed /\ ~SyncReturn
  BY <1>1 DEF MainSetup, IrqSetup, SyncProceed, SyncReturn
<1> QED
  BY <1>2, <1>3, <1>4, <1>5, <1>6 DEF Next, Irq

\* A transfer that was accepted is moved from its first descriptor to its last,
\* one word after the other: the two that set transfers up leave a working engine
\* alone (Undisturbed).
THEOREM TransfersUndisturbed == Spec => Undisturbed
<1> DEFINE Kept == dma.busy =>
                     \/ WordIndex(dma') = WordIndex(dma) + 1
                     \/ WordIndex(dma') = WordIndex(dma) /\ dma'.busy /\ transfer' = transfer
<1>1. IInv /\ Next => Kept
  BY StepUndisturbed
<1>2. IInv /\ [Next]_vars => [Kept]_vars
  BY <1>1
<1> QED
  BY <1>2, Invariance, PTL DEF Spec, Undisturbed

-----------------------------------------------------------------------------
(***************************************************************************)
(* One callback for each chain.                                            *)
(***************************************************************************)

\* No callback is registered, and none due.
LEMMA InitCall == Init => CallInv
BY DEF Init, Initialized, CallInv, Blocking, BitsForCallback, OneDue, AllCalled, Paused,
       SetupSteps

\* The program makes the next access of a transfer it sets up.
LEMMA MainSetupCall == IInv /\ CallInv /\ MainSetup => CallInv'
<1> SUFFICES ASSUME IInv, CallInv, MainSetup PROVE CallInv'
  OBVIOUS
<1> DEFINE c == IF blocking THEN SyncControl(dma) ELSE AsyncControl(dma)
<1>1. /\ main \in SetupSteps /\ dma' = Setup(main, dma, head, c)
      /\ isr = "none" /\ UNCHANGED <<isr, head, blocking, expected, called>>
      /\ ~dma.busy /\ dma \in Device /\ head \in Descriptor /\ blocking \in BOOLEAN
      /\ AllCalled /\ transfer # "sync"
  BY DEF MainSetup, Main, IInv, TypeOK, SetupAlone, CallInv, Blocking, OneDue, SetupSteps
<1>2. /\ c \in SUBSET ControlBits
      /\ "run" \in SyncControl(dma)
      /\ "ie_global" \in c => dma.callback
      /\ blocking => "ie_global" \notin c
      /\ ~blocking /\ dma.callback => InterruptBits \subseteq c
  BY <1>1, ControlIs DEF CallInv, Blocking, BitsForCallback, ChainControl, InterruptBits
<1>3. blocking => "run" \in c
  BY <1>2
<1> HIDE DEF c
<1>4. /\ dma'.irq = dma.irq /\ dma'.callback = dma.callback
      /\ dma'.chain_control = dma.chain_control
      /\ dma'.busy <=> main = "run"
      /\ main = "run" => dma'.control = c
      /\ main = "clear_run" => dma'.control = dma.control \ {"run"}
      /\ main \in {"clear_status", "point"} => dma'.control = dma.control
  BY <1>1, <1>2, SetupIs
<1>5. CASE main = "run"
  <2>1. /\ main' = IF blocking THEN "sync_busy" ELSE "idle"
        /\ transfer' = IF blocking THEN "sync" ELSE "async"
    BY <1>5 DEF MainSetup
  <2>2. Blocking'
    BY <1>1, <1>2, <1>3, <1>4, <1>5, <2>1 DEF Blocking, Paused
  <2>3. BitsForCallback'
    BY <1>2, <1>4, <1>5, <2>1 DEF CallInv, BitsForCallback
  <2>4. OneDue'
    BY <1>1, <1>4 DEF CallInv, OneDue, AllCalled
  <2> QED
    BY <2>2, <2>3, <2>4 DEF CallInv
<1>6. CASE main # "run"
  <2>1. main' = AfterStep(main) /\ transfer' = transfer
    BY <1>6 DEF MainSetup
  <2>2. main' \in SetupSteps
    BY <1>1, <1>6, <2>1 DEF AfterStep, SetupSteps
  <2>3. dma'.control \subseteq dma.control /\ ("ie_global" \in dma.control => "ie_global" \in dma'.control)
        /\ (InterruptBits \subseteq dma.control => InterruptBits \subseteq dma'.control)
    BY <1>1, <1>4, <1>6 DEF SetupSteps, InterruptBits
  <2>4. Blocking'
    BY <1>1, <1>4, <1>6, <2>1, <2>2, <2>3 DEF CallInv, Blocking, Paused, SetupSteps
  <2>5. BitsForCallback'
    BY <1>4, <2>1, <2>3 DEF CallInv, BitsForCallback
  <2>6. OneDue'
    BY <1>1, <1>4 DEF CallInv, OneDue, AllCalled
  <2> QED
    BY <2>4, <2>5, <2>6 DEF CallInv
<1> QED
  BY <1>5, <1>6

\* The handler makes the next access of a chain that its callback starts.
LEMMA IrqSetupCall == IInv /\ CallInv /\ IrqSetup => CallInv'
<1> SUFFICES ASSUME IInv, CallInv, IrqSetup PROVE CallInv'
  OBVIOUS
<1> DEFINE c == AsyncControl(dma)
<1>1. /\ isr \in SetupSteps /\ dma' = Setup(isr, dma, head, c)
      /\ main = "idle" /\ UNCHANGED <<main, head, blocking, expected, called>>
      /\ ~dma.busy /\ dma \in Device /\ head \in Descriptor
      /\ ~blocking /\ AllCalled /\ transfer # "sync"
  BY DEF IrqSetup, IInv, TypeOK, SetupAlone, CallInv, Blocking, OneDue, SetupSteps
<1>2. /\ c \in SUBSET ControlBits
      /\ "ie_global" \in c => dma.callback
      /\ dma.callback => InterruptBits \subseteq c
  BY <1>1, ControlIs DEF CallInv, BitsForCallback, ChainControl, InterruptBits
<1> HIDE DEF c
<1>3. /\ dma'.irq = dma.irq /\ dma'.callback = dma.callback
      /\ dma'.chain_control = dma.chain_control
      /\ dma'.busy <=> isr = "run"
      /\ isr = "run" => dma'.control = c
      /\ isr = "clear_run" => dma'.control = dma.control \ {"run"}
      /\ isr \in {"clear_status", "point"} => dma'.control = dma.control
  BY <1>1, <1>2, SetupIs
<1>4. isr' # "callback"
  BY <1>1 DEF IrqSetup, AfterStep, SetupSteps
<1>5. OneDue'
  BY <1>1, <1>3, <1>4 DEF CallInv, OneDue, AllCalled, SetupSteps
<1>6. CASE isr = "run"
  <2>1. transfer' = "async"
    BY <1>6 DEF IrqSetup
  <2>2. Blocking'
    BY <1>1, <1>3, <1>6, <2>1 DEF Blocking, Paused
  <2>3. BitsForCallback'
    BY <1>2, <1>3, <1>6, <2>1 DEF CallInv, BitsForCallback
  <2> QED
    BY <1>5, <2>2, <2>3 DEF CallInv
<1>7. CASE isr # "run"
  <2>1. transfer' = transfer
    BY <1>7 DEF IrqSetup
  <2>2. dma'.control \subseteq dma.control
        /\ (InterruptBits \subseteq dma.control => InterruptBits \subseteq dma'.control)
    BY <1>1, <1>3, <1>7 DEF SetupSteps, InterruptBits
  <2>3. Blocking'
    BY <1>1, <1>3, <1>7, <2>1, <2>2 DEF CallInv, Blocking, Paused
  <2>4. BitsForCallback'
    BY <1>3, <2>1, <2>2 DEF CallInv, BitsForCallback
  <2> QED
    BY <1>5, <2>3, <2>4 DEF CallInv
<1> QED
  BY <1>6, <1>7

\* A transfer function is called, and do_sync_transfer goes past its waits.
LEMMA TransferCall ==
  SyncAfterAsync = FALSE =>
    (IInv /\ CallInv /\ (do_async_transfer \/ do_sync_transfer) => CallInv')
<1> SUFFICES ASSUME SyncAfterAsync = FALSE, IInv, CallInv,
                    do_async_transfer \/ do_sync_transfer
             PROVE  CallInv'
  OBVIOUS
<1>1. /\ AllCalled /\ isr = "none" /\ main = "idle" /\ ~blocking
      /\ UNCHANGED <<dma, blocking, isr, transfer, started, expected, called>>
      /\ \/ main' \in {"idle", "clear_run"}
         \/ main' = "sync_wait" /\ "ie_global" \notin dma.control
  BY DEF do_async_transfer, do_sync_transfer, MayStart, Main, IInv, TypeOK, CallInv, Blocking,
         SetupSteps
<1>2. Blocking'
  BY <1>1 DEF CallInv, Blocking, Paused
<1>3. BitsForCallback' /\ OneDue'
  BY <1>1 DEF CallInv, BitsForCallback, OneDue, AllCalled
<1> QED
  BY <1>2, <1>3 DEF CallInv

\* The synchronous transfer leaves the callbacks of the asynchronous ones alone.
LEMMA SyncCall == IInv /\ CallInv /\ (SyncProceed \/ SyncReturn) => CallInv'
<1> SUFFICES ASSUME IInv, CallInv, SyncProceed \/ SyncReturn PROVE CallInv'
  OBVIOUS
<1>1. CASE SyncProceed
  <2>1. /\ main = "sync_wait" /\ ~dma.busy /\ isr = "none" /\ main' = "clear_run"
        /\ blocking' = TRUE
        /\ UNCHANGED <<dma, isr, transfer, started, expected, called>>
    BY <1>1 DEF SyncProceed, Main
  <2>2. Blocking'
    BY <2>1 DEF CallInv, Blocking, Paused, SetupSteps
  <2>3. BitsForCallback' /\ OneDue'
    BY <2>1 DEF CallInv, BitsForCallback, OneDue, AllCalled
  <2> QED
    BY <2>2, <2>3 DEF CallInv
<1>2. CASE SyncReturn
  <2>1. /\ main = "sync_busy" /\ ~dma.busy /\ isr = "none" /\ main' = "idle"
        /\ blocking' = FALSE /\ dma' = ClearStatus(ClearRun(dma)) /\ dma \in Device
        /\ UNCHANGED <<isr, head, transfer, started, expected, called>>
    BY <1>2 DEF SyncReturn, Main, IInv, TypeOK
  <2>2. Steady(dma, ClearRun(dma)) /\ ClearRun(dma) \in Device
        /\ ClearRun(dma).control = dma.control \ {"run"}
    BY <2>1, ClearRunIs DEF Steady
  <2>3. /\ ~dma'.busy /\ dma'.irq = dma.irq /\ dma'.callback = dma.callback
        /\ dma'.chain_control = dma.chain_control /\ dma'.control = dma.control \ {"run"}
    BY <2>1, <2>2, ClearStatusIs DEF Steady
  <2>4. transfer = "none"
    BY <2>1 DEF CallInv, Blocking, Paused
  <2>5. Blocking' /\ BitsForCallback'
    BY <2>1, <2>3, <2>4 DEF CallInv, Blocking, BitsForCallback, Paused
  <2>6. OneDue'
    BY <2>1, <2>3 DEF CallInv, OneDue, AllCalled
  <2> QED
    BY <2>5, <2>6 DEF CallInv
<1> QED
  BY <1>1, <1>2

\* The engine is stopped and restarted, a callback registered.
LEMMA OtherCallsCall == IInv /\ CallInv /\ (register_callback \/ start \/ stop) => CallInv'
<1> SUFFICES ASSUME IInv, CallInv, register_callback \/ start \/ stop PROVE CallInv'
  OBVIOUS
<1>1. /\ main = "idle" /\ isr = "none" /\ dma \in Device /\ ~blocking /\ transfer # "sync"
      /\ UNCHANGED <<main, blocking, isr, head, transfer, started, expected, called>>
  BY DEF register_callback, start, stop, Main, IInv, TypeOK, CallInv, Blocking, SetupSteps
<1>2. CASE register_callback
  <2>1. /\ transfer = "none"
        /\ dma'.callback /\ dma'.chain_control = ChainControl /\ dma'.irq = dma.irq
        /\ dma'.control = dma.control
    BY <1>1, <1>2, RegisterIs DEF register_callback
  <2>2. Blocking' /\ BitsForCallback'
    BY <1>1, <2>1 DEF CallInv, Blocking, BitsForCallback, Paused
  <2>3. OneDue'
    BY <1>1, <2>1 DEF CallInv, OneDue, AllCalled
  <2> QED
    BY <2>2, <2>3 DEF CallInv
<1>3. CASE start
  <2> DEFINE descriptors == IF Paused THEN chain ELSE {}
  <2>1. dma' = Start(dma, descriptors)
    BY <1>3 DEF start
  <2>2. Paused => dma.desc \in descriptors
    BY DEF IInv, EngineInChain, Paused, chain
  <2> HIDE DEF descriptors
  <2>3. /\ dma'.callback = dma.callback /\ dma'.chain_control = dma.chain_control
        /\ dma'.irq = dma.irq /\ dma'.control = dma.control \cup {"run"}
        /\ dma.busy \/ Paused => dma'.busy
    BY <1>1, <2>1, <2>2, StartIs
  <2>4. Blocking'
    BY <1>1, <2>3 DEF Blocking, Paused
  <2>5. BitsForCallback' /\ OneDue'
    BY <1>1, <2>3 DEF CallInv, BitsForCallback, OneDue, AllCalled
  <2> QED
    BY <2>4, <2>5 DEF CallInv
<1>4. CASE stop
  <2>1. /\ dma'.callback = dma.callback /\ dma'.chain_control = dma.chain_control
        /\ dma'.irq = dma.irq /\ dma'.control = dma.control \ {"run"}
    BY <1>1, <1>4, ClearRunIs DEF stop, Stop, Steady
  <2>2. Blocking'
    BY <1>1, <2>1 DEF Blocking, Paused
  <2>3. BitsForCallback' /\ OneDue'
    BY <1>1, <2>1 DEF CallInv, BitsForCallback, OneDue, AllCalled, InterruptBits
  <2> QED
    BY <2>2, <2>3 DEF CallInv
<1> QED
  BY <1>2, <1>3, <1>4

\* The request that was raised becomes the callback that is made.
LEMMA IrqCall == IInv /\ CallInv /\ (IrqClear \/ IrqCallback \/ IrqReturn) => CallInv'
<1> SUFFICES ASSUME IInv, CallInv, IrqClear \/ IrqCallback \/ IrqReturn PROVE CallInv'
  OBVIOUS
<1>1. /\ dma'.busy = dma.busy /\ dma'.control = dma.control
      /\ dma'.callback = dma.callback /\ dma'.chain_control = dma.chain_control
      /\ UNCHANGED <<main, blocking, transfer, started, expected>>
  BY ClearIrqIs DEF IrqClear, IrqCallback, IrqReturn, IInv, TypeOK
<1>2. Blocking' /\ BitsForCallback'
  BY <1>1 DEF CallInv, Blocking, BitsForCallback, Paused
<1>3. OneDue'
  <2>1. CASE IrqClear
    <3>1. /\ dma.irq /\ isr = "none" /\ ~dma'.irq /\ isr' = "callback" /\ called' = called
      BY <2>1, ClearIrqIs DEF IrqClear, IInv, TypeOK, CallInv, OneDue
    <3> QED
      BY <1>1, <3>1 DEF CallInv, OneDue, AllCalled, SetupSteps
  <2>2. CASE IrqCallback
    <3>1. /\ isr = "callback" /\ called' = called + 1 /\ isr' \in {"clear_run", "return"}
          /\ dma' = dma
      BY <2>2 DEF IrqCallback
    <3>2. ~dma.irq /\ expected = called + 1 /\ called \in Nat
      BY <3>1 DEF IInv, TypeOK, CallInv, OneDue
    <3> QED
      BY <1>1, <3>1, <3>2 DEF CallInv, OneDue, AllCalled
  <2>3. CASE IrqReturn
    BY <1>1, <2>3 DEF IrqReturn, CallInv, OneDue, AllCalled, SetupSteps
  <2> QED
    BY <2>1, <2>2, <2>3
<1> QED
  BY <1>2, <1>3 DEF CallInv

\* The chain that ends raises its request if, and only if, its callback is due.
LEMMA EngineCall == IInv /\ CallInv /\ Engine => CallInv'
<1> SUFFICES ASSUME IInv, CallInv, Engine PROVE CallInv'
  OBVIOUS
<1>1. /\ dma \in Device /\ dma.busy /\ dma.desc \in Descriptor /\ ~dma.chain_completed
      /\ transfer \in {"async", "sync"}
      /\ dma' = Moved(dma, chain)
      /\ UNCHANGED <<main, blocking, isr, head, started, called>>
  BY DEF Engine, IInv, TypeOK, EngineInChain
<1>2. AllCalled /\ ~dma.irq /\ isr # "callback" /\ isr \notin SetupSteps /\ called \in Nat
  BY <1>1 DEF IInv, TypeOK, SetupAlone, CallInv, OneDue, AllCalled
<1>3. /\ dma'.callback = dma.callback /\ dma'.chain_control = dma.chain_control
      /\ dma'.control = dma.control
      /\ \/ ~dma'.chain_completed /\ dma'.irq = dma.irq /\ (dma'.busy \/ "run" \notin dma.control)
         \/ /\ dma'.chain_completed /\ ~dma'.busy
            /\ dma'.irq <=> dma.irq \/ InterruptBits \subseteq dma.control
  BY <1>1, MovedIs
<1>4. CASE ~dma'.chain_completed
  <2>1. UNCHANGED <<transfer, expected>>
    BY <1>4 DEF Engine
  <2>2. Blocking' /\ BitsForCallback'
    BY <1>1, <1>3, <1>4, <2>1 DEF CallInv, Blocking, BitsForCallback, Paused
  <2>3. OneDue'
    BY <1>1, <1>2, <1>3, <1>4, <2>1 DEF CallInv, OneDue, AllCalled
  <2> QED
    BY <2>2, <2>3 DEF CallInv
<1>5. CASE dma'.chain_completed
  <2>1. /\ transfer' = "none"
        /\ expected' = expected + (IF transfer = "async" /\ dma.callback THEN 1 ELSE 0)
    BY <1>5 DEF Engine
  <2>2. Blocking' /\ BitsForCallback'
    BY <1>1, <1>3, <2>1 DEF CallInv, Blocking, BitsForCallback, Paused
  <2>3. InterruptBits \subseteq dma.control <=> transfer = "async" /\ dma.callback
    BY <1>1 DEF CallInv, Blocking, BitsForCallback, InterruptBits
  <2>4. dma'.irq <=> transfer = "async" /\ dma.callback
    BY <1>2, <1>3, <1>5, <2>3
  <2>5. CASE transfer = "async" /\ dma.callback
    <3>1. main = "idle"
      BY <1>1, <2>3, <2>5 DEF IInv, TypeOK, SetupAlone, CallInv, Blocking, InterruptBits
    <3>2. OneDue'
      BY <1>1, <1>2, <1>3, <2>1, <2>4, <2>5, <3>1 DEF CallInv, OneDue, AllCalled
    <3> QED
      BY <2>2, <3>2 DEF CallInv
  <2>6. CASE ~(transfer = "async" /\ dma.callback)
    <3>1. OneDue'
      BY <1>1, <1>2, <1>3, <2>1, <2>4, <2>6 DEF CallInv, OneDue, AllCalled
    <3> QED
      BY <2>2, <3>1 DEF CallInv
  <2> QED
    BY <2>5, <2>6
<1> QED
  BY <1>4, <1>5

\* Every step keeps all of it, if the client makes no blocking transfer once
\* interrupts have been enabled.
LEMMA NextCall == SyncAfterAsync = FALSE => (IInv /\ CallInv /\ [Next]_vars => CallInv')
<1>1. IInv /\ CallInv /\ UNCHANGED vars => CallInv'
  BY DEF vars, CallInv, Blocking, BitsForCallback, OneDue, AllCalled, Paused
<1> QED
  BY <1>1, MainSetupCall, IrqSetupCall, TransferCall, SyncCall, OtherCallsCall, IrqCall,
     EngineCall DEF Next, Irq

\* Each chain that ends has its callback exactly once, none before its chain has
\* ended (CallbackPerTransfer), for a client that makes no blocking transfer once
\* interrupts have been enabled (rsa_crypto_hw makes none at all); the run sgdma_sync shows
\* that the condition is needed.
THEOREM OneCallback ==
  ASSUME SyncAfterAsync = FALSE
  PROVE  Spec => []CallbackPerTransfer
<1>1. IInv /\ CallInv /\ [Next]_vars => CallInv'
  BY NextCall
<1>2. IInv /\ CallInv => CallbackPerTransfer
  BY DEF IInv, TypeOK, CallInv, OneDue, CallbackPerTransfer
<1> QED
  BY InitCall, Invariance, <1>1, <1>2, PTL DEF Spec
=============================================================================
