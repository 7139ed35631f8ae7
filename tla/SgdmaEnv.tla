------------------------------ MODULE SgdmaEnv ------------------------------
(***************************************************************************)
(* One SGDMA with a client that uses the driver as its comments invite to: *)
(* the program starts chains with do_async_transfer, is refused while the  *)
(* controller is busy, stops and restarts the engine, and makes blocking   *)
(* transfers; the callback, which runs in the interrupt handler, may start *)
(* the next chain itself.  The program, the interrupt handler and the      *)
(* engine interleave at every access to the registers.                     *)
(*                                                                         *)
(* The client keeps one rule, which rsa_crypto_hw keeps too: it sets up a  *)
(* transfer only when the callbacks of the earlier ones have all been      *)
(* made.  do_async_transfer tests BUSY and then makes four accesses, and a *)
(* callback in between that starts a chain of its own would go unnoticed.  *)
(***************************************************************************)
EXTENDS Sgdma

CONSTANTS
  MaxTransfers,     \* bound: transfers that the client starts
  SyncAfterAsync    \* whether it makes blocking transfers once interrupts have been enabled

ASSUME ClientAssumption == MaxTransfers \in Nat /\ SyncAfterAsync \in BOOLEAN

VARIABLES
  dma,
  main,       \* where the program is
  blocking,   \* whether it is in do_sync_transfer
  isr,        \* where the interrupt handler is
  head,       \* the descriptor of the transfer being set up or made
  transfer,   \* "async", "sync" or "none": who the engine works for
  started,    \* how many transfers were set up
  expected,   \* how many chains ended whose callback is due
  called      \* how many callbacks were made

vars == <<dma, main, blocking, isr, head, transfer, started, expected, called>>

chain == Descriptor

Init ==
  /\ dma = Initialized
  /\ main = "idle"
  /\ blocking = FALSE
  /\ isr = "none"
  /\ head = 0
  /\ transfer = "none"
  /\ started = 0 /\ expected = 0 /\ called = 0

-----------------------------------------------------------------------------
\* An engine that was stopped between two descriptors of a chain.
Paused == transfer # "none" /\ ~dma.busy

AllCalled == called = expected

\* The program runs when the handler does not.
Main == isr = "none"

MayStart == AllCalled /\ ~Paused /\ started < MaxTransfers

register_callback ==
  /\ Main /\ main = "idle" /\ ~dma.callback /\ transfer = "none"
  /\ dma' = RegisterCallback(dma, TRUE, ChainControl)
  /\ UNCHANGED <<main, blocking, isr, head, transfer, started, expected, called>>

\* Mutant: BUSY is not tested.
do_async_transferUntested ==
  /\ Main /\ main = "idle" /\ MayStart
  /\ main' = "clear_run" /\ head' \in Descriptor
  /\ UNCHANGED <<dma, blocking, isr, transfer, started, expected, called>>

\* do_async_transfer up to its test; the busy controller is left alone (-EBUSY).
do_async_transfer ==
  /\ Main /\ main = "idle" /\ MayStart
  /\ IF dma.busy THEN UNCHANGED <<main, head>>
     ELSE main' = "clear_run" /\ head' \in Descriptor
  /\ UNCHANGED <<dma, blocking, isr, transfer, started, expected, called>>

\* The four accesses that set either kind of transfer up.
MainSetup ==
  /\ Main /\ main \in SetupSteps
  /\ dma' = Setup(main, dma, head, IF blocking THEN SyncControl(dma) ELSE AsyncControl(dma))
  /\ IF main = "run"
     THEN /\ main' = IF blocking THEN "sync_busy" ELSE "idle"
          /\ transfer' = IF blocking THEN "sync" ELSE "async"
          /\ started' = started + 1
     ELSE main' = AfterStep(main) /\ UNCHANGED <<transfer, started>>
  /\ UNCHANGED <<isr, head, blocking, expected, called>>

\* do_sync_transfer waits for the transfer before, makes its own and waits for it.
do_sync_transfer ==
  /\ Main /\ main = "idle" /\ MayStart
  /\ SyncAfterAsync \/ "ie_global" \notin dma.control
  /\ main' = "sync_wait"
  /\ UNCHANGED <<dma, blocking, isr, head, transfer, started, expected, called>>

\* Mutant: waits for CHAIN_COMPLETED in place of BUSY.
SyncProceedCompleted ==
  /\ Main /\ main = "sync_wait" /\ dma.chain_completed
  /\ main' = "clear_run"
  /\ blocking' = TRUE
  /\ head' \in Descriptor
  /\ UNCHANGED <<dma, isr, transfer, started, expected, called>>

SyncProceed ==
  /\ Main /\ main = "sync_wait" /\ ~dma.busy
  /\ main' = "clear_run"
  /\ blocking' = TRUE
  /\ head' \in Descriptor
  /\ UNCHANGED <<dma, isr, transfer, started, expected, called>>

\* Clear run, read the status and clear it.
SyncReturn ==
  /\ Main /\ main = "sync_busy" /\ ~dma.busy
  /\ dma' = ClearStatus(ClearRun(dma))
  /\ main' = "idle"
  /\ blocking' = FALSE
  /\ UNCHANGED <<isr, head, transfer, started, expected, called>>

start ==
  /\ Main /\ main = "idle"
  /\ dma' = Start(dma, IF Paused THEN chain ELSE {})
  /\ UNCHANGED <<main, blocking, isr, head, transfer, started, expected, called>>

stop ==
  /\ Main /\ main = "idle"
  /\ dma' = Stop(dma)
  /\ UNCHANGED <<main, blocking, isr, head, transfer, started, expected, called>>

-----------------------------------------------------------------------------
\* alt_avalon_sgdma_irq: the request is cleared, then the callback is called.
IrqClear ==
  /\ dma.irq /\ isr = "none"
  /\ dma' = ClearIrq(dma)
  /\ isr' = IF dma.callback THEN "callback" ELSE "none"
  /\ UNCHANGED <<main, blocking, head, transfer, started, expected, called>>

\* The callback starts the next chain, or not.
IrqCallback ==
  /\ isr = "callback"
  /\ called' = called + 1
  /\ \/ /\ main = "idle" /\ started < MaxTransfers /\ ~dma.busy
        /\ isr' = "clear_run"
        /\ head' \in Descriptor
     \/ isr' = "return" /\ UNCHANGED head
  /\ UNCHANGED <<dma, main, blocking, transfer, started, expected>>

IrqSetup ==
  /\ isr \in SetupSteps
  /\ dma' = Setup(isr, dma, head, AsyncControl(dma))
  /\ IF isr = "run"
     THEN isr' = "return" /\ transfer' = "async" /\ started' = started + 1
     ELSE isr' = AfterStep(isr) /\ UNCHANGED <<transfer, started>>
  /\ UNCHANGED <<main, blocking, head, expected, called>>

\* Mutant: the request is cleared after the callback.
IrqReturnClearing ==
  /\ isr = "return"
  /\ isr' = "none"
  /\ dma' = ClearIrq(dma)
  /\ UNCHANGED <<main, blocking, head, transfer, started, expected, called>>

IrqReturn ==
  /\ isr = "return"
  /\ isr' = "none"
  /\ UNCHANGED <<dma, main, blocking, head, transfer, started, expected, called>>

\* External: the controller.
Engine ==
  /\ dma.busy
  /\ dma' = Moved(dma, chain)
  /\ IF dma'.chain_completed
     THEN /\ transfer' = "none"
          /\ expected' = expected + (IF transfer = "async" /\ dma.callback THEN 1 ELSE 0)
     ELSE UNCHANGED <<transfer, expected>>
  /\ UNCHANGED <<main, blocking, isr, head, started, called>>

Irq == IrqClear \/ IrqCallback \/ IrqSetup \/ IrqReturn
Continue == SyncProceed \/ MainSetup \/ SyncReturn

Next ==
  \/ register_callback \/ do_async_transfer \/ do_sync_transfer
  \/ MainSetup \/ SyncProceed \/ SyncReturn \/ start \/ stop
  \/ Irq \/ Engine

\* The engine works while it has something to do, the processor takes a pending
\* interrupt and goes on with a function it has entered.  Nobody has to start or
\* to restart anything.
Fairness == WF_vars(Engine) /\ WF_vars(Irq) /\ WF_vars(Continue)

Spec == Init /\ [][Next]_vars /\ Fairness

-----------------------------------------------------------------------------
TypeOK ==
  /\ dma \in Device
  /\ main \in {"idle", "sync_wait", "sync_busy"} \cup SetupSteps
  /\ blocking \in BOOLEAN
  /\ isr \in {"none", "callback", "return"} \cup SetupSteps
  /\ head \in Descriptor
  /\ transfer \in {"none", "async", "sync"}
  /\ started \in 0 .. MaxTransfers
  /\ expected \in 0 .. MaxTransfers
  /\ called \in Nat

\* Each chain that ends has its callback exactly once: none is made before its
\* chain ends, and none is lost, also when the callback starts a chain that ends
\* before the handler returns.  The comment in alt_avalon_sgdma_irq gives this
\* as the reason to clear the request first.
CallbackPerTransfer ==
  /\ called <= expected
  /\ called < expected <=> dma.irq \/ isr = "callback"

\* A transfer that was accepted is moved from its first descriptor to its last:
\* while the engine works nobody points it elsewhere or clears its status, and it
\* goes through the words of the chain in order.
Undisturbed ==
  [][dma.busy =>
       \/ WordIndex(dma') = WordIndex(dma) + 1
       \/ WordIndex(dma') = WordIndex(dma) /\ dma'.busy /\ transfer' = transfer]_vars

\* Every transfer that is accepted ends, with its callback, unless the program
\* has stopped the engine; and a blocking transfer returns.
TransfersEnd == []<>(AllCalled /\ (transfer = "none" \/ Paused))
SyncReturns == main = "sync_wait" ~> main = "idle"

\* do_sync_transfer, in its own words, sets the controller up to "disable
\* interrupt generation": no callback is made for a blocking transfer.
SyncIsSilent == called <= expected
=============================================================================
