# RSA accelerator: TLA+ models, checks and proofs

The repository is a system on a Cyclone IV FPGA that computes modular powers in hardware. A
Nios II processor runs the program in `software_workspace/`; it feeds an RSA core
(`hardware_workspace/*.vhd`) through two scatter-gather DMA controllers (SGDMA). This directory
holds TLA+ models of that system, the TLC runs that check them and the theorems that TLAPS has
proved about them. Every definition carries the name of the signal, process, function or register
it models; `PROJECT.json` gives the lines.

## 1. The system

| part | source | state | operations |
|---|---|---|---|
| modular multiplier | `modmult.vhd` | six registers | strobe, one bit per clock, reset |
| modular exponentiator | `rsacypher.vhd` | two multipliers, nine registers, strobes | strobe, round, answer, reset |
| RSA wrapper | `rsa_wrapper.vhd` | exponent, modulus, their write pointers, input block, two position counters, three flags, six-state machine | parameter writes (Avalon-MM), one word in or out (Avalon-ST), reset |
| SGDMA driver | `altera_avalon_sgdma.c` | device structure; the controller's registers | init, register_callback, do_async/do_sync_transfer, start, stop, interrupt handler, descriptor construction, polling |
| hardware RSA call | `rsa_crypto_hw.c` | two flags shared with interrupt handlers | one call: write parameters, start both engines, wait, clean up |
| interrupt set-up | `hardware_setup.c` | `tx_done`, `rx_done`, `milis`, `button_action` | callbacks, timer and button handlers, `init_hardware`, `init_sgdma` |
| interrupt dispatch | `alt_irq_handler.c`, `alt_irq.h`, `alt_iic_isr_register.c` | handler table, enable mask | dispatch by priority, register, disable/enable all |
| descriptors and buffers | `sgdma.c` L230-424, L569-717, `create_descriptors.c`, `create_test_data.c`, `validate_results.c` | heap blocks | allocate and link chains, fill, compare |
| software RSA | `rsa_crypto.c` | generator seed | ModMult, ModularExp, ExpandedEuclid, MillerRabin, RandomPrime |
| test programs | `main.c`, `test.c` | locals | sequential drivers of the above |
| JTAG UART driver | `altera_avalon_jtag_uart_*.c` | two rings, host timeout | read, write, ioctl, close, interrupt handler, timeout alarm |
| system clock, alarms | `alt_tick.c`, `alt_alarm_start.c`, `alt_gettod.c`, `alt_settod.c`, timer driver | tick counter, alarm list | tick, start, stop |
| files and devices | `alt_open.c`, `alt_close.c`, `alt_ioctl.c`, `alt_io_redirect.c`, ... | descriptor table, device lists | open, close, read, write, ioctl with exclusive lock |
| others | `debounce_inv.vhd`, `linear_function.*`, `altera_hostfs.c`, `altera_avalon_uart_*.c`, boot, heap, logging | | section 7 |
| exceptions | `alt_exception_entry.S`, `alt_irq_entry.S`, `alt_exception_muldiv.S` | saved registers | interrupt or emulation of an instruction |

How they interact. `rsa_crypto_hw` writes the exponent and the modulus word by word to two
addresses of the wrapper, which advances a pointer of its own for each. It starts the transmit SGDMA
and then the receive SGDMA (register accesses through the driver) and polls `tx_done` and `rx_done`,
which the callbacks of the two interrupt handlers increment. The transmit engine reads the input
buffers and pushes words into the wrapper's sink; the wrapper collects a block, strobes the
exponentiator, which strobes its two multipliers once a round, and gives the answer word by word to
the receive engine, which fills the output buffers. Everything runs at once: program, handlers, two
engines, and a wrapper whose processes all act at each clock edge.

Below the program lies the hardware abstraction layer. The timer's interrupt handler counts ticks and
calls alarms; one of them belongs to the JTAG UART's driver, whose reads, writes and closes share two
rings of characters with the UART's interrupt handler; standard streams are descriptors of that
device, which the boot code opens, and files of the host are descriptors of a second driver.
`init_hardware` then gives the timer to the application.

What is hard: three layers of strobe/ready handshakes where a strobe at the wrong edge is lost
without a sign; registers that are wide enough by two bits; flags that one process sets and another
reads one edge later; pointers that nothing resets between calls; flags shared with interrupt
handlers; register sequences that an interrupt may split; waits without a timeout. `hazards` in
`PROJECT.json` lists each at its line.

The same holds one layer down: list pointers, interrupt masks and ring indices are shared between
the program and handlers, and every wait depends on a handler or an alarm.

What makes the parts correct: the multiplier and the exponentiator return the right residue for the
operands of the accepted strobe and always do; the wrapper neither loses, repeats, nor mixes words
of blocks; every DMA transfer that is accepted runs undisturbed, ends and has exactly one callback;
every call of `rsa_crypto_hw` returns with the complete output for its own parameters, and leaves the
hardware as the next call needs it; an alarm is called in its tick; no character of the console is
lost or overtaken and no wakeup is; the pool of descriptors loses no entry and a lock is respected.

## 2. Modules

```
StrobedUnit  <- abstract: a unit that answers a strobe          (specification)
ModMult      <- modmult.vhd: registers and clock edge, as operators
  ModMultEnv        one multiplier and a client; properties; implements StrobedUnit
    ModMultProofs, MCModMult
  RsaCypher  <- rsacypher.vhd: two multipliers, four processes
    RsaCypherEnv    client; properties; implements StrobedUnit
      RsaCypherProofs (about RsaCompare too), MCRsaCypher
BlockStream  <- abstract: blocks of words in, answers out       (specification)
  RsaWrapper <- rsa_wrapper.vhd, the core as in StrobedUnit; implements BlockStream
    RsaWrapperProofs, MCRsaWrapper
Sgdma        <- altera_avalon_sgdma.c: driver on a device; the engine (external)
  SgdmaEnv          program, interrupt handler, engine, re-arming callback
    SgdmaProofs, MCSgdma
RsaCall      <- abstract: what a call of rsa_crypto_hw promises (specification)
  RsaSystem  <- rsa_crypto_hw, two Sgdma, handlers, BlockStream; implements RsaCall
    RsaSystemProofs, MCRsaSystem, MCRsaMismatch
DescriptorChain <- construction of descriptors and chains, as operators (used by MCSgdma)
RsaCrypto    <- rsa_crypto.c: the software arithmetic, as functions
  RsaCompare        the exponentiator next to it (used by MCRsaCypher)
  CryptoTests       what test.c makes of a file, as operators (used by MCRsaCypher)
AlarmClock   <- abstract: what alarms promise                    (specification)
  SystemClock <- alt_tick.c, alt_alarm_start.c, alt_irq*.c, timer; implements AlarmClock
    SystemClockProofs, MCSystemClock
TimeOfDay    <- gettimeofday, settimeofday, as operators (used by MCSystemClock)
Exceptions   <- alt_exception_entry.S, alt_exception_muldiv.S, as operators (used by MCSystemClock)
JtagUart     <- altera_avalon_jtag_uart_*.c: calls, rings, handler, alarm, host
    JtagUartProofs, MCJtagUart
Files        <- alt_open.c .. alt_io_redirect.c, altera_hostfs.c: descriptors, devices, locks
    FilesProofs, MCFiles
```

The three abstract specifications form a chain: RsaCypher's answer is what RsaWrapper assumes of
its core, and RsaWrapper's stream is what RsaSystem uses for the accelerator.

Conventions. In the hardware modules a step is one rising clock edge (or the asynchronous reset),
each clocked process is an operator, and one edge is their conjunction, so that all read the values
from before the edge. A number in a register of n bits is a number below 2^n and arithmetic wraps.
In the software modules a step is one access to a shared register or variable. A definition whose
comment starts with "Mutant:" is a deliberately wrong variant of the one after it. No specification
uses it; it shows that the properties notice the difference.

### ModMult, ModMultEnv

The registers of a multiplier are a record `r` of `mpreg, mcreg, modreg1, modreg2, prodreg, first`,
because the exponentiator has two of them. `Prodreg1` .. `Prodreg4`, `Mcreg1`, `Mcreg2`, `product`
and `ready` are the combinational signals, and `Clock(r, ds, mpand, mplier, modulus)` is what `r`
holds after an edge: `Load`, `Shift`, `Idle` or `r` itself are the branches of process `combine`.
`Radix` stands for 2^MPWID. ModMultEnv keeps one multiplier, `mm`. Its client strobes with any
operands below `Radix`, multiplicand below twice the modulus, and may reset at any edge. (The file's
header asks for both operands below the modulus; the registers need less.) A modulus of zero is left
out: the remainder is undefined.

### RsaCypher, RsaCypherEnv

`mngcount`, `setupsqr`, `setupmult` and `crypto` are the processes, `mult` and `sqr` the registers of
the two multipliers, and `Edge` is one clock edge of all six. Two concurrent assignments are folded:
`sqrgo` is `multgo` (L133), and the last assignment in `crypto` wins, so that `multgo` lasts one edge.
The client uses the moduli of the set `Moduli`, which only the run restricts.

### RsaWrapper

`exp_reg` .. `output_cnt_inc` are the registers, `next_state` is the process `streaming_protocol`.
The counters count bits in steps of 32; in the model they count words. The core is abstract
(`CoreSample`, `CoreFinish`, `CoreHold`): it samples its ports at a strobe while ready and later
gives `core_job`, the record of what it has sampled, in place of the power. Data, exponent and
modulus words are symbols. `st_in_ready` is high only in `input_wait`, where the code samples a word if
`st_in_valid`; the sink hands over a word at just that edge. The source's word is taken at the edge
from `output_wait` with `st_out_ready`.

### Sgdma, SgdmaEnv

A device is a record with the control bits, BUSY, CHAIN_COMPLETED, the engine's descriptor and word,
the interrupt line, and the registered callback. Driver functions are operators from device to
device, one per register access, because an interrupt may come between two accesses. The controller
is not in the repository. Its assumed behaviour is what the driver depends on: writing RUN sets BUSY;
the engine moves the words of each descriptor in order; without RUN it stops at the end of a
descriptor; at the first descriptor that the hardware does not own, BUSY falls, CHAIN_COMPLETED is set
and the interrupt rises if both enables are set; the park bit keeps descriptors owned. SgdmaEnv adds
a program (async and blocking transfers, start, stop), the interrupt handler, and a callback that may
start the next chain. No program takes a callback away again
(`register_callback` with NULL). The client's rule: it sets up a transfer only when the callbacks of earlier ones
have been made. `do_async_transfer` alone does not protect against a callback that starts a transfer
between its test of BUSY and its accesses; `rsa_crypto_hw` keeps the rule.

### RsaSystem

`pc` is the position in `rsa_crypto_hw`; `i` its loop variable; `dma` the two devices; `isr` the
handler that runs; `fifo` the words the transmit engine has read ahead; the accelerator is BlockStream.
The lower interrupt number goes first, no handler interrupts another, and the program does not run
while a handler does (`alt_irq_handler`, L128-159: interrupts are disabled). Word k of call c is
`<<c, k>>` and each of its parameter words is c, so that a word from a wrong place or call shows.

### DescriptorChain

Memory is a function from the indices of an array of descriptors, and `Construct` gives its contents
after each of the three groups of writes: the next descriptor disowned, this one filled in, this one
given to the hardware. `Writes` is the loop of `create_descriptors` for one of its chains and `Walk` is the controller that follows it. Lengths are in bytes and cut to `U16`.

### RsaCrypto, RsaCompare

Each function of `rsa_crypto.c` with its loops as recursive functions of the variables they change, in
words of `SoftRadix` values, 2^64 in the code; a pass of the loops of `ModMult` and `ModularExp` is an operator (`AddAndShift`,
`SquareAndMultiply`). Numbers of the generator are any numbers. RsaCompare puts `ModularExp` next to the
exponentiator of RsaCypherEnv on the same job. `SoftRadix` is a constant of its own: the words do not grow
with the key. `InSoftwareRange` are the jobs that the software can do: `ModMult` adds up to twice the modulus
before it reduces, so that moduli above half of the values of a word (2^63) overflow. The products of 31-bit
primes of CryptoTest2 to CryptoTest4 are below; those of the 32-bit primes of CryptoTest1 need not be.
For the modulus 1 and the exponent 0 the two differ: the software answers 1, the hardware 0.

### CryptoTests

A file is a sequence of bytes; `SoftwareTest` and `HardwareTest` give the two files that CryptoTest2 and
CryptoTest4 write. `Message` and `DataBuffer` have the bytes that a short read leaves in memory, and
those that no read touches. Since `CryptoHw` stands for a call of `rsa_crypto_hw` by what RsaSystem
and `HardwareMatchesSoftware` show of it, it means something for blocks below the modulus only.
CryptoTest1 and 3 print what the same functions return.

### Exceptions

An exception as a function of the registers, the words of the stack that are not written to, the
instruction, and whether an interrupt is pending and enabled. The loops of the emulation are recursive
functions of the registers they change. The program of this repository is compiled without these
instructions (`public.mk:122-130`), so that its exceptions are interrupts.

### SystemClock, AlarmClock, TimeOfDay

`cpu` is the interrupt flag, the enable mask with its copy, and the handler table; `links` the list of
alarms; `alarm` their times; `isr` where the handler is; `prog` the program's call. A call is a section:
disabling interrupts, each access, and enabling them are steps, and `Interrupt` may come between any two
of them while the flag is set. A pass of the loop of `alt_tick` is one step (`Visit`), callback included,
for nothing interrupts it; a callback may stop or start another alarm (`CallbackEffects`). The counter
wraps at `W`. What the client must keep to: an interval is at most W - 2 ticks, a set alarm is not
started again, and a callback does not stop the alarm that follows its own in the list, since
`alt_tick` already points to it (L102) and would go round in the removed node for ever. `InitHardware`
re-registers the timer, after which there are no ticks. AlarmClock has only the ticks remaining for
each alarm; the refinement maps time and rollover flag to them. In TimeOfDay only the subtraction and
the two products matter; time zones are left out.

### JtagUart

`rx` and `tx` are the rings; `fifo` and `control` the device; `call` the call in progress with its local
variables; `isr` the handler. Calls take a step for each access to what the handler writes, so the
handler comes between the reading of a pointer and its use. The handler takes a step for each pass over
the control register and one for sending, since the host acts between. Characters are numbers that
count up, so that order and loss show. `ticking` is FALSE if `init_hardware` has been called before,
as `main` does. The driver is the interrupt-driven one, without an operating system, as built.

### Files

`fds` is the pool, `maxFd` the highest entry used, `hostOpen` the files the debugger has open, `ret` the
last error. A call is one action: there is one thread, and no handler opens files. `OpenOutcomes` is
what `open` may do (no such device, no entry, locked, refused by the host, or done), used by the program's
`Open` and by `Redirect`, the boot code's three streams. `close()` releases its entry whatever the driver
answers (`alt_close.c:84-94`); when the host answers an error, its file is closed or still open
(`HostAfterClose`), and in the second case nobody has its handle any more. A name is a sequence of path components.
Mutual exclusion through `alt_fd_list_lock` is empty without an operating system.

## 3. Runs

| run | instance | question |
|---|---|---|
| `modmult` | 3-bit operands, all admissible triples | Does the multiplier compute every product, with strobes and resets at any edge? |
| `rsacypher` | 3-bit keys, moduli 1, 3, 4, 5, 7, all their admissible data and exponents, 3-bit software words | Does the exponentiator compute every power, as the software does, keep its multipliers in step and end? |
| `rsa_wrapper` | blocks of 2 words, 2 word values | Do the processes together implement the block stream under parameter writes at any edge? |
| `sgdma` | chains of 1-3 descriptors of 2 words, 3 transfers | Are transfers undisturbed, ended, and called back exactly once? |
| `sgdma_sync` | same, blocking transfers after async ones | finding 1 |
| `rsa_system` | 3 calls, 2 buffers of 3 words, 2-word blocks, FIFO of 4 | Does every call return with its complete output and leave the system as found? |
| `files` | 6 descriptors, 4 names, 2 files of the host | Does the pool lose entries, are locks respected, is a file of the host shared, used after its close, or lost without a word? |
| `file_lock` | same | finding 3 |
| `alarms` | 2 alarms, counter of 5, intervals 0, 1, 3 | Is each alarm called in its tick, across interrupts, callbacks and the wrap? |
| `jtag_uart` | rings of 3 slots, FIFOs of 1, calls of 1-2, timeout 2 s | Are characters kept in order, is every wakeup kept, do writes end? |
| `console_hang` | same | finding 4 |
| `rsa_mismatch` | 8-word registers, 2 words written, 2 calls | finding 2 |

Properties:

* `PartialProduct` (ModMultEnv): partial product plus remaining bits times the multiplicand is
  congruent to the product. `MultiplierSpec`: refinement of StrobedUnit, liveness included.
* `Lockstep`, `OperandsAdmissible`, `RoundInvariant` (RsaCypherEnv): neither multiplier is strobed
  while it runs; at each strobe the operands are such as ModMult needs; the square-and-multiply
  invariant at the end of each round; `HardwareMatchesSoftware` (RsaCompare): the answer is the one
  `rsa_crypto.c` computes, where it does not overflow. `ExponentiatorSpec`: refinement of StrobedUnit.
* `FlagsInStep`, `StrobeAnswered` (RsaWrapper): flags and counters fit the state machine; no strobe
  is lost and no stale answer taken. `StreamSpec`: refinement of BlockStream.
* `CallbackPerTransfer`, `Undisturbed`, `TransfersEnd`, `SyncReturns` (SgdmaEnv).
* `NothingLeftOver`, `AcceleratorAligned`, `ParametersSettled` (RsaSystem): no residue of one call in
  the next; parameters constant under a block. `CallSpec`: refinement of RsaCall: every call returns,
  with the complete output for its own data and parameters.

* `OneLockHolder`, `LockRespected`: locks across opens, closes and locks in any order; `HandlesOwned`: a
  descriptor of a host file has one of its own that the host has open; `LossReported`: a host file is left
  without a descriptor only by a `close()` that returns the host's error; `PoolKept`: failed opens leave no trace.
* `HandlersExclusive`: no handler or section with interrupts enabled, nested sections included;
  `ListWellFormed`: a doubly linked ring whenever `alt_tick` may look; `TickReturns`: it gets through the
  list; `ImplementsAlarmClock`: refinement of AlarmClock, safety (ticks may be lost: a second request of
  the timer is not seen while the first is pending).
* `InOrder`, `Armed`: what is between writer and host, and keyboard and reader, is what was
  written or typed, in order; characters that nobody is about to handle have their interrupt enabled.
  `CallsReturn`: writes and closes end, host or no host, while the alarm is called. That a writer may give up
  earlier than the timeout (`altera_avalon_jtag_uart_write.c:187`) no property forbids.

Pure functions are checked in the assumptions of the MC modules, which TLC evaluates before a run:
`ChainsComplete` and `ChainGrows` (MCSgdma: a chain built on any heap is followed exactly, a controller
that polls it sees a prefix at each moment, and from 16384 words on a length does not fit),
`MillerRabinIsSound` and `KeysInvert` (MCRsaCypher: no prime below 62 is rejected and at most a quarter of
the bases pass a composite, but `RandomPrime` may return one; keys made from two primes invert each
other), `SoftwareRange` (MCRsaCypher: with words of four bits `ModMult` is right for exactly the moduli up to
half of the values of a word, and a key with a larger one does not decrypt), `SoftwareTestDecrypts` and `HardwareTestDecrypts` (MCRsaCypher: the file that the tests decrypt
begins with the file they read, if every block is below the modulus; a block more than needed is
processed; what the heap held may exceed the modulus; encrypt.txt lacks the highest bytes and is no
encryption), `TimeIsKept` (MCSystemClock: a time that is set is read again while the microseconds since tick
0 fit in 32 bits, 71 minutes, and later not always), `EmulationIsRight` and `ExceptionIsInvisible`
(MCSystemClock: every operation on all operands of four bits, and every choice of registers).

Why the bounds are enough. Three bits include a carry into each of the two extra bits, reduction by
0, 1 and 2 moduli, and exponents with every pattern of bits over several rounds; the moduli are 1, a
power of two, whose residues may vanish, and odd ones, one of them the largest of the width. The software's
words have the width of the keys, as 64-bit keys on `uint64_t` would: 4 is its largest modulus. The
proofs do not depend on width or moduli. Two words per block make first word, last word and the wrap of each counter
distinct positions; again the proofs hold for every length. Three transfers let a callback start a
chain whose callback starts another. In `rsa_system` a block lies across two descriptors, the input
is longer than FIFO and accelerator together can hold, and three calls have calls both before and
after. In `files` there are descriptors below and above any that is locked, and more names than free
entries. In `alarms` five counter values and intervals up to the longest let deadlines lie before, at
and after the wrap; two alarms let one's callback meet the other in both list orders. In `jtag_uart` a
call of two characters meets a ring that is empty, full or wrapped; `Vals` exceeds the characters on
their way, so equal numbers are never confused. Bounds in guards: `MaxTransfers` (SgdmaEnv) and `MaxCalls` (RsaSystem), after which the program
may stop: `CHECK_DEADLOCK FALSE` is in those configurations only.

## 4. Fairness

* `WF(Work)`, `WF(Compute)`: the clock does not stop. Nothing obliges a client to strobe.
* RsaWrapper: the clock does not stop; the taker of the output is ready again and again (the receive
  engine has a descriptor until the last word); the core ends (checked in `rsacypher`). Nobody has to
  send words, so a block may stay incomplete.
* SgdmaEnv and RsaSystem: the processor goes on with a function it has entered and takes pending
  interrupts; an engine that can move a word does. Nobody has to call, start or restart.

* SystemClock: a handler that has been entered goes on. Nothing obliges the program or the devices.
* JtagUart: program and handler go on (a spinning call is scheduled; the handler preempts it), and the
  alarm is called while `ticking`. Nothing is assumed of the host. A read may wait for ever.

## 5. Theorems

Proved by TLAPS for every value of the constants, under the named assumptions of the modules.

* `ModMultProofs` (assumption `RadixAssumption`: a natural number above 1, not necessarily a power of
  two). `PartialProduct` is not inductive alone: that the differences have the right sign bits needs
  `prodreg` below the modulus, `mcreg` below twice the modulus, and the modulus registers to be those
  of the job. This is `JobHeld`, and the invariant is `TypeOK /\ JobHeld /\ PartialProductQ`, the last
  being `PartialProduct` with the quotient of the congruence as a witness instead of two remainders.
  The facts about one edge are lemmas about any register record and modulus (`Held`, `Sums`): `Prodreg4`
  reduces a sum below three moduli to a remainder; `Mcreg2` is the multiplicand less at most one modulus;
  `Load`, `Shift` and `Idle` keep `Held`, and the sum of product and rest congruent. `ImplementsMultiplier` is the safety part of
  `MultiplierSpec`: the initial state maps to an initial state of StrobedUnit and each step to one of
  its steps.
* `RsaCypherProofs` (assumptions `RadixAssumption`, `ModuliAssumption`: nonzero words), in three layers.
  `Lockstep`, `OperandsAdmissible` and type correctness. `OperandsAdmissible` is not inductive alone: the
  operands of a round are the products of the round before, which are remainders only if both multipliers
  have worked modulo the job's modulus since. `Computing` says so, and the invariant is
  `TypeOK /\ Lockstep /\ Computing`. Both multipliers get the lemmas of `ModMultProofs`, through an instance.
  `RoundInvariant` and `ImplementsExponentiator`, the safety part of `ExponentiatorSpec`. `RoundInvariant`
  speaks only of the edges between rounds; `Rounds` says what holds in a round as well: the two products that are
  being computed, t and s, are such that t times s to the power of `count` is the power asked for. At the
  end of a round the bus shows their remainders, and `NextRound` says that the next round's products
  fit again. `Answered` says what `cypher` holds. `Power` is a recursive function, and its laws
  (`PowerOfSquare`, `PowerByBit`, `PowerOfRemainder`) are proved by induction: a set of numbers that has 0 and with
  each number the next has them all, because what it lacked would have a least element. That such
  functions exist at all is the lemma `Recursion`: a function defined by its value at a smaller argument.
  `SoftwareAgrees`: `HardwareMatchesSoftware` for every key size and every size of the software's words
  (assumption `SoftRadixAssumption`: not zero). It speaks of moduli from 2 to half of the values of a word, as
  `InSoftwareRange` says; above, from 2^63 + 1 on, the software is wrong (`SoftwareRange`) and nothing is proved.
  The loops of `rsa_crypto.c` are functions too (`Loop`), and a loop returns what any other function with
  the same equation gives on arguments that no pass leaves (`LoopInvariant`). `SoftPass` and `SoftExpPass`
  are these equations: no sum in `ModMult` overflows for those moduli, the modulus itself may come up as the
  multiplicand and is harmless, even if its double wraps to 0, and a pass of `ModularExp` keeps b times the power of the next square.
* `RsaWrapperProofs` (assumption `WrapperAssumption`). `FlagsInStep`, `StrobeAnswered` and type
  correctness need each other and one more fact, that while the answer is given out `cypher` is the
  core's last job; their conjunction is the invariant. `ImplementsBlockStream` is the safety part of
  `StreamSpec`: for every block length, an edge in each state of the machine is exactly one of Accept,
  Start, Present, Emit or a stutter, with a parameter write at the same edge.

* `FilesProofs` (assumption `FilesAssumption`): every property of Files, for every size of the
  pool. `OneLockHolder` is not inductive, as a lock skips the highest descriptor, `maxFd`:
  the invariant is that a descriptor which shares its device with the holder of the lock lies above
  the holder (`LockOrder`), for which entries in use must lie below `maxFd` (`Pool`) and flags and
  devices must fit (`Kinds`). `HandlesOwned` and `LossReported` need that the standard streams never belong
  to a file of the host (`Owned`): the console is registered before they are redirected, so the redirection
  neither loses a handle nor doubles one. A refused `close()` may lose one, and is the only step that does.
* `SystemClockProofs` (assumption `ClockAssumption`), in three layers.
  `HandlersExclusive`: the strengthening says what the saved status of a section is. A call begins with
  interrupts enabled, so that its end may enable them, and in a handler `prog.at` is 0, so that the
  sections of callbacks restore a flag that is off. `Registration` says that a handler is in the table
  before its interrupt is enabled.
  `ListWellFormed`, for lists of any length: `ListInv` says that the list is a ring (`Ring`: next and
  previous are inverse to each other, nodes that are not on it point to themselves or nowhere), and
  what it is in the middle of an insertion or a removal, whose four writes are two steps. Which nodes
  are on the list is a smallest closed set (`Reached`), so that nothing is said by recursion; the lemmas
  say what an insertion and a removal do to it.
  `ImplementsAlarmClock`: `TimesSound` relates an alarm's rollover flag to the counter, across the wrap;
  `WaitingAhead` says that `alt_tick` cannot get to the end of the list without visiting every alarm that
  is due or whose flag is stale, whatever the callbacks stop and start on the way; `DeadlineSet` says that
  no tick comes between reading the counter and the insertion. Each step is then one of AlarmClock, or a
  stutter.
* `JtagUartProofs` (assumption `UartAssumption`): `InOrder` and `Armed`, for every size of rings, FIFOs
  and calls. The invariant places the characters by number: those between writer and host are the FIFO
  and, behind it, the ring (`TransmitOrder`), those between keyboard and reader the ring and then the
  FIFO (`ReceiveOrder`). Program and handler copy by lengths they computed from indices that have moved
  since: `CallFits` and `SpaceFits` say that such a length is still at most what is free, or held.
  `Enabled` is the strengthening for `Armed`: control register and `irq_enable` agree, and the interrupt
  for a ring that waits for it is off only while a call is on its way to enable it.
* `SgdmaProofs` (assumptions `SgdmaAssumption`, `ClientAssumption`): `Undisturbed`, an action property,
  follows from `SetupAlone` (program or handler sets a transfer up, not both, and only beside an idle
  engine) and `EngineInChain`. `CallbackPerTransfer` needs `CallInv` too: the interrupt bits are in the
  control register exactly while a chain runs that has a callback, and at most one callback is due. It is
  proved for clients that make no blocking transfer after asynchronous ones (`SyncAfterAsync = FALSE`),
  as `rsa_crypto_hw`; finding 1 shows that it does not hold for the others.
* `RsaSystemProofs` (assumptions `SgdmaAssumption`, `SystemAssumption`, `NoAnswerAssumption`): the whole
  call, for every size of blocks, chains and FIFO and every number of calls. `DeviceInv` follows each device
  through a call: between start and the test of its flag it is in one of four stages (working,
  requesting its interrupt, in its callback, flag set), before and after in none. `NothingLeftOver` and
  type correctness follow. `StreamInv` counts words: those read from the input buffer and those written to
  the output buffer determine what FIFO and accelerator hold, in both halves of a block (`WordsInStep`).
  `ParamsInv` and `OutputInv` say how far the parameters have been written and which words of the output
  are final. These two, and so `AcceleratorAligned`, `ParametersSettled` and `CallsAnswered`, have the
  hypothesis `Filled`: the words that a call writes fill the parameter registers, as when program and
  hardware are made for one key size. Finding 2 is what happens otherwise. `CallsAnswered` is the safety
  part of `CallSpec`: the end of each call maps to RsaCall's Return, with the complete output.

Only model-checked: all liveness (fairness and ENABLED are beyond the prover), so that the hardware
answers, calls, transfers and writes end, and a tick returns; and the pure functions in the assumptions of
the MC modules. Every other invariant and action property that a passing run checks is a theorem, for the two
of `rsa_system` under the hypothesis `Filled`.

## 6. Disagreements

1. `sgdma_sync`. The comment in `alt_avalon_sgdma_do_sync_transfer` (L201-203) says the set-up
   disables interrupt generation. The code ORs RUN and STOP_DMA_ER into the control register and
   clears no enable. After an async transfer the enables are set, and a blocking transfer interrupts
   and calls the callback. This program makes no blocking transfer.
2. `rsa_mismatch`. `nios_system.qsys:703` builds the wrapper with BITSIZE 256; `test.c:27` passes 64.
   A call then writes two of eight words and leaves the write pointers in the middle; the second call
   writes behind the first and the accelerator computes with the first call's low words. With equal
   sizes (the default of `rsa_wrapper.vhd:7`) the run `rsa_system` shows that this cannot happen.

3. `file_lock`. The comment of `alt_fd_lock` (L43-45) says the lock is granted if no other descriptor
   refers to the device. The loop stops one short of `alt_max_fd`, the highest descriptor used, which
   `alt_file_locked` in `alt_open.c` includes. With the device open there as well the lock is granted.
   Two holders are still impossible (`OneLockHolder`).
4. `console_hang`. The comment of `altera_avalon_jtag_uart_close` (L227-230) says it waits until all is
   sent unless the host is inactive for too long. The timeout is counted by an alarm, and after
   `init_hardware` the timer's handler no longer calls `alt_tick`. Without a host a close with characters
   left never returns, nor does a write into a full ring.

Two more are facts about functions, so that an assumption states what the code does and not a run. The
comment of `alt_exception_muldiv.S` (L58-70) says that the emulation matches the instructions but for three
limitations, none of which is sp as a source, or gp or et as the destination; the slot of sp holds the
handler's stack pointer (L139, L154) and those of gp and et are not loaded again (L563-566), so these are wrong
(`ExceptionIsInvisible`). The comment of `alt_settod.c` is that of `TimeIsKept` above.

## 7. Not modelled

* Read-back of the parameter registers: no program uses it.
* `alt_avalon_sgdma_open`, `check_descriptor_status`: they change no state.
* Heap errors of `test.c` (L421-422 free and store outside the table): what they do is undefined. Without
  damage the second call finds the buffers it is given, as in CryptoTests.
* `altera_hostfs.c`: what the debugger does with a call; its answers are any, and a close it answers with an
  error may or may not have closed the file. `altera_avalon_uart_*.c`:
  no such device in the system. Boot code, logging, profiling, cache and `sbrk`: assembly, formatting and vendored support, most of the repository's lines.
* The state of the random generator, which the timer handler advances too, in several accesses.
* `debounce_inv.vhd`: filters the push buttons in the schematic top level, one counter per button; nothing
  of the accelerator or its drivers waits for it. The timestamp timer
  (`altera_avalon_timer_ts.c`) and `alt_times.c`: no second timer in the system, and a read of the counter.
* Descriptor polling and memory-to-memory descriptors: no caller.
* `linear_function.*`: an earlier accelerator, built only under LINEAR_TEST.

## 8. Plan

1. Proofs: that `Construct` and `Writes` of `DescriptorChain` leave a chain that a controller follows
   exactly, for every length; that `ExpandedEuclid` returns an inverse where there is one.
2. A second engine run of SgdmaEnv in which the program extends a chain while the controller polls it,
   with the writes of `DescriptorChain` as steps.
3. The generator with the timer handler's access to it: can a torn state become zero, from which
   `RandomPrime` does not return?
