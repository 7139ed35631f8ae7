------------------------------ MODULE JtagUart ------------------------------
(***************************************************************************)
(* The driver of the JTAG UART, the console of the system: two rings of    *)
(* characters between the program's calls and the interrupt handler, the   *)
(* FIFOs of the device between the handler and the host, and an alarm that *)
(* asks once a second whether the host is still there.                     *)
(*                                                                         *)
(* The program's calls are steps at the granularity of their accesses to   *)
(* what the handler changes.  The handler's steps cannot be interleaved    *)
(* with the program's, but with the host's.  Characters are numbered       *)
(* modulo Vals, in the order in which they are written or typed.           *)
(***************************************************************************)
EXTENDS Integers, Sequences

CONSTANTS
  BufLen,     \* ALTERA_AVALON_JTAG_UART_BUF_LEN, 2048 in the code
  Depth,      \* depth of the FIFOs of the device, 64 in system.h
  Vals,       \* numbers of characters: more than are ever on their way
  MaxCount,   \* length of a call's buffer (bound)
  IntMax,     \* INT_MAX
  DefaultTimeout,   \* ALTERA_AVALON_JTAG_UART_DEFAULT_TIMEOUT, 10 in the code
  Timeouts    \* arguments of TIOCSTIMEOUT

ASSUME UartAssumption ==
  /\ {BufLen, Depth, Vals, MaxCount, IntMax, DefaultTimeout} \subseteq Nat \ {0}
  /\ BufLen > 1 /\ Vals > BufLen - 1 + Depth
  /\ 2 <= DefaultTimeout /\ DefaultTimeout <= IntMax - 2
  /\ Timeouts \subseteq Int

VARIABLES
  fifo,       \* the FIFOs of the device, from and to the host (external)
  control,    \* its control register: RE, WE and AC
  enable,     \* irq_enable
  rx, tx,     \* the rings: buffer, in, out
  inactive,   \* host_inactive, seconds
  timeout,
  ticking,    \* the system clock still calls its alarms
  isr,        \* the handler: idle, at its loop, or to send with this space
  call,       \* the program's call
  seqno       \* next number to be written, shown, typed and read

vars == <<fifo, control, enable, rx, tx, inactive, timeout, ticking, isr, call, seqno>>

Slots == 0 .. BufLen - 1
Num == 0 .. Vals - 1
Ring == [buf : [Slots -> Num], in : Slots, out : Slots]
EmptyRing == [buf |-> [i \in Slots |-> 0], in |-> 0, out |-> 0]

\* The locals of a call: what remains to be done of its buffer, whether some is
\* done, the pointer of the other side it has read, the length to copy.
NoCall == [at |-> "idle", count |-> 0, some |-> FALSE, nonblock |-> FALSE, seen |-> 0, n |-> 0]

Places == {"idle", "write", "put", "kick", "space", "read", "get", "arm", "data", "close"}
Locals == [at : Places, count : 0 .. MaxCount, some : BOOLEAN, nonblock : BOOLEAN,
           seen : Slots, n : Slots]

NoIsr == [at |-> "none", space |-> 0]
Loop == [at |-> "poll", space |-> 0]

TypeOK ==
  /\ fifo \in [rx : Seq(Num), tx : Seq(Num)]
  /\ Len(fifo.rx) <= Depth /\ Len(fifo.tx) <= Depth
  /\ control \subseteq {"RE", "WE", "AC"} /\ enable \subseteq {"RE", "WE"}
  /\ rx \in Ring /\ tx \in Ring
  /\ inactive \in 0 .. IntMax - 2
  /\ timeout \in 2 .. IntMax - 1
  /\ ticking \in BOOLEAN
  /\ isr \in [at : {"none", "poll", "send"}, space : 0 .. Depth]
  /\ call \in Locals
  /\ seqno \in [{"written", "shown", "typed", "read"} -> Num]

\* altera_avalon_jtag_uart_init() is over.  alt_alarm_start() has succeeded: the
\* system clock is initialised before the UART.  A program that calls
\* init_hardware(), as main() does first, has given the timer another handler.
Init ==
  /\ fifo = [rx |-> <<>>, tx |-> <<>>]
  /\ control = {"RE"} /\ enable = {"RE"}
  /\ rx = EmptyRing /\ tx = EmptyRing
  /\ inactive = 0 /\ timeout = DefaultTimeout
  /\ ticking \in BOOLEAN
  /\ isr = NoIsr
  /\ call = NoCall
  /\ seqno = [x \in {"written", "shown", "typed", "read"} |-> 0]

-----------------------------------------------------------------------------
\* The rings.

Lesser(m, n) == IF m <= n THEN m ELSE n

\* Mutant: the index does not wrap.
AdvanceStraight(i, n) == i + n

Advance(i, n) == (i + n) % BufLen
Held(r) == (r.in - r.out) % BufLen
Full(r) == Advance(r.in, 1) = r.out
Contents(r) == [i \in 1 .. Held(r) |-> r.buf[Advance(r.out, i - 1)]]

\* How far a slot is behind the next one to be filled.
Behind(r, i) == (i - r.in) % BufLen

\* Puts the characters s into the ring from its in on.
Put(r, s) ==
  [buf |-> [i \in Slots |-> IF Behind(r, i) < Len(s) THEN s[Behind(r, i) + 1] ELSE r.buf[i]],
   in |-> Advance(r.in, Len(s)), out |-> r.out]

Numbers(from, n) == [i \in 1 .. n |-> (from + i - 1) % Vals]

\* What can be read at once: up to the end of the buffer.
ReadLength(in, out) == IF in >= out THEN in - out ELSE BufLen - out

\* Mutant: the slot that keeps a full ring from looking empty is used.
WriteLengthFull(in, out) == IF in < out THEN out - 1 - in ELSE BufLen - in

\* What can be written at once.  One slot stays free.
WriteLength(in, out) ==
  IF in < out THEN out - 1 - in
  ELSE IF out > 0 THEN BufLen - in ELSE BufLen - 1 - in

-----------------------------------------------------------------------------
\* The program.

SetEnable(e) == enable' = e /\ control' = e \cup (control \cap {"AC"})

Call(at, count, nonblock) ==
  /\ call.at = "idle" /\ isr = NoIsr
  /\ call' = [NoCall EXCEPT !.at = at, !.count = count, !.nonblock = nonblock]
  /\ UNCHANGED <<fifo, control, enable, rx, tx, inactive, timeout, ticking, isr, seqno>>

At(x) == call.at = x /\ isr = NoIsr
Return == call' = NoCall

\* write: the free space, with a pointer that the handler may move on.
WriteLoad ==
  /\ At("write")
  /\ LET n == IF call.count = 0 THEN 0 ELSE Lesser(WriteLength(tx.in, tx.out), call.count)
     IN  call' = [call EXCEPT !.n = n, !.seen = IF call.count > n THEN tx.out ELSE 0,
                              !.at = IF n = 0 THEN "kick" ELSE "put"]
  /\ UNCHANGED <<fifo, control, enable, rx, tx, inactive, timeout, ticking, isr, seqno>>

WriteCopy ==
  /\ At("put")
  /\ tx' = Put(tx, Numbers(seqno["written"], call.n))
  /\ seqno' = [seqno EXCEPT !["written"] = (@ + call.n) % Vals]
  /\ call' = [call EXCEPT !.count = @ - call.n, !.n = 0, !.seen = 0, !.at = "write"]
  /\ UNCHANGED <<fifo, control, enable, rx, inactive, timeout, ticking, isr>>

\* The handler is made to run, in a section of its own.  With something left a
\* call that may block waits for space.
WriteKick ==
  /\ At("kick")
  /\ SetEnable(enable \cup {"WE"})
  /\ IF call.count = 0 \/ call.nonblock THEN Return ELSE call' = [call EXCEPT !.at = "space"]
  /\ UNCHANGED <<fifo, rx, tx, inactive, timeout, ticking, isr, seqno>>

\* The call ends early if the host has been inactive for a second.
WriteWait ==
  /\ At("space")
  /\ tx.out # call.seen \/ inactive >= timeout
  /\ IF inactive # 0 THEN Return ELSE call' = [call EXCEPT !.seen = 0, !.at = "write"]
  /\ UNCHANGED <<fifo, control, enable, rx, tx, inactive, timeout, ticking, isr, seqno>>

ReadLoad ==
  /\ At("read")
  /\ LET n == Lesser(ReadLength(rx.in, rx.out), call.count)
     IN  IF n > 0 THEN call' = [call EXCEPT !.n = n, !.at = "get"]
         ELSE IF call.some THEN call' = [call EXCEPT !.at = "arm"]
         ELSE IF call.nonblock THEN Return
         ELSE call' = [call EXCEPT !.seen = rx.in, !.at = "data"]
  /\ UNCHANGED <<fifo, control, enable, rx, tx, inactive, timeout, ticking, isr, seqno>>

ReadCopy ==
  /\ At("get")
  /\ rx' = [rx EXCEPT !.out = Advance(@, call.n)]
  /\ seqno' = [seqno EXCEPT !["read"] = (@ + call.n) % Vals]
  /\ call' = [call EXCEPT !.count = @ - call.n, !.n = 0, !.some = TRUE,
                          !.at = IF call.count = call.n THEN "arm" ELSE "read"]
  /\ UNCHANGED <<fifo, control, enable, tx, inactive, timeout, ticking, isr>>

\* There is space in the ring: the handler may run again.
ReadArm ==
  /\ At("arm")
  /\ SetEnable(enable \cup {"RE"})
  /\ Return
  /\ UNCHANGED <<fifo, rx, tx, inactive, timeout, ticking, isr, seqno>>

ReadWait ==
  /\ At("data")
  /\ rx.in # call.seen \/ inactive >= timeout
  /\ IF rx.in = call.seen THEN Return ELSE call' = [call EXCEPT !.seen = 0, !.at = "read"]
  /\ UNCHANGED <<fifo, control, enable, rx, tx, inactive, timeout, ticking, isr, seqno>>

\* close waits until everything has been given to the device.
CloseWait ==
  /\ At("close")
  /\ tx.in = tx.out \/ inactive >= timeout \/ call.nonblock
  /\ Return
  /\ UNCHANGED <<fifo, control, enable, rx, tx, inactive, timeout, ticking, isr, seqno>>

\* ioctl(TIOCSTIMEOUT): what is not a timeout means almost for ever.
SetTimeout ==
  /\ At("idle")
  /\ \E t \in Timeouts : timeout' = IF 2 <= t /\ t < IntMax THEN t ELSE IntMax - 1
  /\ UNCHANGED <<fifo, control, enable, rx, tx, inactive, ticking, isr, call, seqno>>

-----------------------------------------------------------------------------
\* Interrupts.

\* The requests of the device (external).
RI == "RE" \in control /\ fifo.rx # <<>>
WI == "WE" \in control /\ Len(fifo.tx) < Depth

\* The handler is entered at a request and reads the control register until
\* nothing is requested.  It empties the FIFO into the ring; with something left
\* there the ring is full, and read interrupts are turned off.
Poll ==
  /\ isr = Loop \/ (isr = NoIsr /\ (RI \/ WI))
  /\ isr' = IF WI THEN [at |-> "send", space |-> Depth - Len(fifo.tx)]
            ELSE IF RI THEN Loop ELSE NoIsr
  /\ IF RI
     THEN LET n == Lesser(BufLen - 1 - Held(rx), Len(fifo.rx))
          IN  /\ rx' = Put(rx, SubSeq(fifo.rx, 1, n))
              /\ fifo' = [fifo EXCEPT !.rx = SubSeq(@, n + 1, Len(@))]
              /\ SetEnable(IF n < Len(fifo.rx) THEN enable \ {"RE"} ELSE enable)
     ELSE UNCHANGED <<rx, fifo, enable, control>>
  /\ UNCHANGED <<tx, inactive, timeout, ticking, call, seqno>>

\* Mutant: write interrupts are turned off although characters are left.
NothingLeftAlways(space, n) == TRUE

\* Space is left in the FIFO, so the ring is empty.
NothingLeft(space, n) == n < space

\* It sends no more than there was space for when it read the register.
Send ==
  /\ isr.at = "send"
  /\ LET n == Lesser(isr.space, Held(tx))
     IN  /\ fifo' = [fifo EXCEPT !.tx = @ \o SubSeq(Contents(tx), 1, n)]
         /\ tx' = [tx EXCEPT !.out = Advance(@, n)]
         /\ SetEnable(IF NothingLeft(isr.space, n) THEN enable \ {"WE"} ELSE enable)
  /\ isr' = Loop
  /\ UNCHANGED <<rx, inactive, timeout, ticking, call, seqno>>

\* Mutant: AC is not among the bits written, and so stays as it is.
AcknowledgeNot(e) == e \cup (control \cap {"AC"})

\* What the control register holds when irq_enable | AC is written to it.
Acknowledge(e) == e

\* The alarm, called by the system clock's handler every second.
Second ==
  /\ ticking /\ isr = NoIsr
  /\ IF "AC" \in control
     THEN control' = Acknowledge(enable) /\ inactive' = 0
     ELSE /\ inactive' = IF inactive < IntMax - 2 THEN inactive + 1 ELSE inactive
          /\ UNCHANGED control
  /\ UNCHANGED <<fifo, enable, rx, tx, timeout, ticking, isr, call, seqno>>

-----------------------------------------------------------------------------
\* The host's terminal, if there is one, shows a character and may send one that
\* was typed (external).
HostAccess(types) ==
  /\ control' = control \cup {"AC"}
  /\ types => Len(fifo.rx) < Depth
  /\ fifo' = [rx |-> IF types THEN Append(fifo.rx, seqno["typed"]) ELSE fifo.rx,
              tx |-> IF fifo.tx = <<>> THEN <<>> ELSE Tail(fifo.tx)]
  /\ seqno' = [seqno EXCEPT !["typed"] = IF types THEN (@ + 1) % Vals ELSE @,
                            !["shown"] = IF fifo.tx = <<>> THEN @ ELSE (@ + 1) % Vals]
  /\ UNCHANGED <<enable, rx, tx, inactive, timeout, ticking, isr, call>>

Begin == \E b \in BOOLEAN :
  \/ \E op \in {"write", "read"}, n \in 1 .. MaxCount : Call(op, n, b)
  \/ Call("close", 0, b)

Writing == WriteLoad \/ WriteCopy \/ WriteKick \/ WriteWait
Reading == ReadLoad \/ ReadCopy \/ ReadArm \/ ReadWait
Handler == Poll \/ Send
Host == \E types \in BOOLEAN : HostAccess(types)

Next ==
  \/ Begin \/ Writing \/ Reading \/ CloseWait \/ SetTimeout
  \/ Handler \/ Second \/ Host

\* The program and the handler run, and seconds pass.  Nothing is assumed of the
\* host, which may go away at any time; but a terminal that looks at the device
\* shows what is there.
Spec ==
  /\ Init /\ [][Next]_vars
  /\ WF_vars(Writing \/ Reading \/ CloseWait) /\ WF_vars(Handler) /\ WF_vars(Second)

-----------------------------------------------------------------------------
\* Between write() and the host, and between the keyboard and read(), no
\* character is lost, doubled or overtaken, whatever the calls, the handler and
\* the host do meanwhile.
Transmitting == fifo.tx \o Contents(tx)
Receiving == Contents(rx) \o fifo.rx

InOrder ==
  /\ Transmitting = Numbers(seqno["shown"], (seqno["written"] - seqno["shown"]) % Vals)
  /\ Receiving = Numbers(seqno["read"], (seqno["typed"] - seqno["read"]) % Vals)

\* No wakeup is lost: a character in the ring that the program has finished
\* writing has its interrupt enabled, and so has the receiver unless its ring is
\* full, which the program sees at its next read.
Armed ==
  /\ enable = control \ {"AC"}
  /\ Held(tx) > 0 => "WE" \in enable \/ call.at \in {"write", "put", "kick"}
  /\ ~Full(rx) => "RE" \in enable \/ call.at \in {"read", "get", "arm"}

InWrite == call.at \in {"write", "put", "kick", "space", "close"}

\* A write or a close comes to an end, host or no host, as long as the alarm is
\* called and the timeout has not been switched off.
CallsReturn == InWrite ~> call.at = "idle" \/ ~ticking \/ timeout = IntMax - 1

\* The comment of altera_avalon_jtag_uart_close(): it waits until everything is
\* sent "unless a timeout from host-activity occurs".  After init_hardware() none
\* does.
CloseTimesOut == call.at = "close" ~> call.at = "idle" \/ timeout = IntMax - 1
=============================================================================
