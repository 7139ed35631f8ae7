-------------------------------- MODULE Sgdma --------------------------------
(***************************************************************************)
(* One SGDMA controller and its driver, altera_avalon_sgdma.c.  A device   *)
(* is a record: the fields of its register file that the driver uses, the  *)
(* position of the engine in the chain of descriptors, the level of its    *)
(* interrupt line, and the callback that register_callback stores.  Every  *)
(* access of the driver is an operator from a device to a device, so that  *)
(* a module can hold one device or several and decide who acts when.       *)
(*                                                                         *)
(* The controller itself is Altera's and not in the repository: what it    *)
(* does (the operators under "Engine") is what the driver relies on.       *)
(* Chains are laid out as create_descriptors.c does it: descriptor i is    *)
(* followed by descriptor i + 1, and the one after the last is not owned   *)
(* by the hardware.                                                        *)
(***************************************************************************)
EXTENDS Integers

CONSTANTS
  NDescriptors,     \* descriptors of a chain (number_of_buffers)
  DescriptorWords   \* words of a descriptor's buffer

ASSUME SgdmaAssumption ==
  /\ NDescriptors \in Nat \ {0}
  /\ DescriptorWords \in Nat \ {0}

ControlBits == {"run", "ie_global", "ie_chain_completed", "park", "stop_dma_er"}

Descriptor == 0 .. NDescriptors - 1

\* The registered chain_control of hardware_setup.c.
ChainControl == {"ie_global", "ie_chain_completed", "park"}

Device == [control : SUBSET ControlBits,
           busy : BOOLEAN,              \* status register: BUSY
           chain_completed : BOOLEAN,   \* and CHAIN_COMPLETED
           desc : 0 .. NDescriptors,    \* the descriptor the engine is at
           word : 0 .. DescriptorWords - 1,
           irq : BOOLEAN,
           callback : BOOLEAN,          \* dev->callback is not NULL
           chain_control : SUBSET ControlBits]

\* The device after the software reset of alt_avalon_sgdma_init.
Initialized == [control |-> {}, busy |-> FALSE, chain_completed |-> FALSE,
                desc |-> 0, word |-> 0, irq |-> FALSE,
                callback |-> FALSE, chain_control |-> {}]

-----------------------------------------------------------------------------
\* Driver.

\* callback is whether the pointer is one: NULL takes the callback away again.
RegisterCallback(dev, callback, bits) ==
  [dev EXCEPT !.callback = callback, !.chain_control = bits]

ClearRun(dev) == [dev EXCEPT !.control = @ \ {"run"}]

ClearStatus(dev) == [dev EXCEPT !.chain_completed = FALSE]

PointAt(dev, desc) == [dev EXCEPT !.desc = desc, !.word = 0]

\* Mutant: the registered bits are not written.
AsyncControlSilent(dev) == dev.control \cup {"run", "stop_dma_er"}

\* What the transfer functions write to the control register.  With a callback the
\* registered bits come on top of what the register holds already; without one
\* the interrupt is masked.
AsyncControl(dev) ==
  LET control == dev.control \cup {"run", "stop_dma_er"}
  IN  IF dev.callback THEN control \cup dev.chain_control
      ELSE control \ {"ie_global"}

SyncControl(dev) == dev.control \cup {"run", "stop_dma_er"}

\* Setting RUN puts the engine to work at the descriptor it points at.
Run(dev, control) == [dev EXCEPT !.control = control, !.busy = TRUE]

\* alt_avalon_sgdma_start; an engine that has reached the end of its chain stays there.
Start(dev, chain) ==
  IF dev.desc \in chain THEN Run(dev, dev.control \cup {"run"})
  ELSE [dev EXCEPT !.control = @ \cup {"run"}]

\* alt_avalon_sgdma_stop; the engine finishes the descriptor it is in.
Stop(dev) == ClearRun(dev)

\* First half of alt_avalon_sgdma_irq; the second calls the callback.
ClearIrq(dev) == [dev EXCEPT !.irq = FALSE]

\* The accesses of do_async_transfer and do_sync_transfer that set a transfer up,
\* in order, and what each does.
SetupSteps == {"clear_run", "clear_status", "point", "run"}

AfterStep(step) ==
  CASE step = "clear_run" -> "clear_status"
    [] step = "clear_status" -> "point"
    [] step = "point" -> "run"
    [] step = "run" -> "started"

Setup(step, dev, desc, control) ==
  CASE step = "clear_run" -> ClearRun(dev)
    [] step = "clear_status" -> ClearStatus(dev)
    [] step = "point" -> PointAt(dev, desc)
    [] step = "run" -> Run(dev, control)

-----------------------------------------------------------------------------
\* Engine.  chain is the set of descriptors owned by the hardware; the park bit
\* keeps them so.

\* Index of the word the engine moves next, in the buffers of the whole chain.
WordIndex(dev) == dev.desc * DescriptorWords + dev.word

\* Mutant: one word too many.
LastWordLate(dev) == dev.word = DescriptorWords

LastWord(dev) == dev.word + 1 = DescriptorWords

\* The chain ends: the engine is idle and raises its interrupt if it may.
ChainOver(dev) ==
  [dev EXCEPT !.desc = @ + 1, !.word = 0, !.busy = FALSE, !.chain_completed = TRUE,
              !.irq = @ \/ {"ie_global", "ie_chain_completed"} \subseteq dev.control]

\* A busy engine after it has moved a word.
Moved(dev, chain) ==
  IF ~LastWord(dev) THEN [dev EXCEPT !.word = @ + 1]
  ELSE IF dev.desc + 1 \notin chain THEN ChainOver(dev)
  ELSE [dev EXCEPT !.desc = @ + 1, !.word = 0, !.busy = "run" \in dev.control]
=============================================================================
