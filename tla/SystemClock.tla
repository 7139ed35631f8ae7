---------------------------- MODULE SystemClock ----------------------------
(***************************************************************************)
(* The system clock of the HAL: the interrupt flag of the processor and    *)
(* the critical sections made with it, the registration and dispatch of    *)
(* interrupt handlers, the timer's handler, the tick counter and the list  *)
(* of alarms that alt_tick() goes through (alt_tick.c, alt_alarm_start.c,  *)
(* alt_llist.h, altera_avalon_timer_sc.c, alt_irq_handler.c, alt_iic.c).   *)
(*                                                                         *)
(* The program and the handlers share the list.  The program's operations  *)
(* on it are steps, which an interrupt can fall between when the flag      *)
(* allows; a pass of the loop of alt_tick() is one step, its callback      *)
(* included, for a handler is not interrupted.                             *)
(***************************************************************************)
EXTENDS Integers, FiniteSetsExt

CONSTANTS
  Alarms,      \* the alarm structures of the program
  Head,        \* alt_alarm_list
  Null,        \* the pointers of an alarm that was never started
  W,           \* the tick counter counts modulo W, 2^32 in the code
  Intervals    \* the values of nticks the program starts alarms with

ASSUME ClockAssumption ==
  /\ W \in Nat /\ W > 2
  /\ Head \notin Alarms /\ Null \notin Alarms /\ Null # Head
  /\ {"none", "poll"} \cap Alarms = {}
  /\ Intervals \subseteq 0 .. W - 2

Irqs == {1, 2}   \* push buttons and timer; the lower number goes first
Buttons == 1
Timer == 2
Handlers == {"none", "tick", "millis", "buttons"}
Nodes == Alarms \cup {Head}

VARIABLES
  cpu,        \* status.PIE, IENABLE, its copy alt_irq_active, the table alt_irq
  lines,      \* interrupt requests of the devices
  rate,       \* _alt_tick_rate has been set
  nticks,     \* _alt_nticks
  links,      \* the next and previous pointers of the list
  alarm,      \* time and rollover of the alarms
  isr,        \* "none", "poll" (alt_irq_handler), or the alarm alt_tick() is at
  prog        \* the program's call: its operands, its position, saved status

vars == <<cpu, lines, rate, nticks, links, alarm, isr, prog>>

Idle == [op |-> "idle", arg |-> Null, val |-> 0, at |-> 0, ctx |-> FALSE]

TypeOK ==
  /\ cpu \in [pie : BOOLEAN, ienable : SUBSET Irqs, active : SUBSET Irqs,
              handler : [Irqs -> Handlers]]
  /\ lines \subseteq Irqs
  /\ rate \in BOOLEAN
  /\ nticks \in 0 .. W - 1
  /\ links \in [next : [Nodes -> Nodes \cup {Null}], prev : [Nodes -> Nodes \cup {Null}]]
  /\ alarm \in [Alarms -> [time : 0 .. W - 1, rollover : BOOLEAN]]
  /\ isr \in Alarms \cup {"none", "poll"}
  /\ prog.op \in {"idle", "start", "stop", "register"} /\ prog.at \in 0 .. 4
  /\ prog.ctx \in BOOLEAN

\* alt_irq_init() is over, alt_sys_init() is next.
Init ==
  /\ cpu = [pie |-> TRUE, ienable |-> {}, active |-> {},
            handler |-> [i \in Irqs |-> "none"]]
  /\ lines = {}
  /\ rate = FALSE
  /\ nticks = 0
  /\ links = LET empty == [x \in Nodes |-> IF x = Head THEN Head ELSE Null]
             IN  [next |-> empty, prev |-> empty]
  /\ alarm = [a \in Alarms |-> [time |-> 0, rollover |-> FALSE]]
  /\ isr = "none"
  /\ prog = Idle

-----------------------------------------------------------------------------
\* Interrupt flag and mask.

\* Mutant: the flag stays as it is.
DisableAllNot(c) == c

DisableAll(c) == [c EXCEPT !.pie = FALSE]

\* Mutant: interrupts are enabled whatever the context says.
EnableAllAlways(c, ctx) == [c EXCEPT !.pie = TRUE]

\* The flag becomes what it was at the matching alt_irq_disable_all(): in a
\* nested section interrupts stay disabled.
EnableAll(c, ctx) == [c EXCEPT !.pie = ctx]

\* alt_irq_enable, a section of its own.
IrqEnable(c, id) ==
  LET active == c.active \cup {id}
  IN  EnableAll([DisableAll(c) EXCEPT !.active = active, !.ienable = active], c.pie)

-----------------------------------------------------------------------------
\* The doubly linked list.  A node is inserted behind the head.

LinkEntry(l, a) == [next |-> [l.next EXCEPT ![a] = l.next[Head]],
                    prev |-> [l.prev EXCEPT ![a] = Head]]
LinkList(l, a)  == [next |-> [l.next EXCEPT ![Head] = a],
                    prev |-> [l.prev EXCEPT ![l.next[Head]] = a]]

Unlink(l, a) == [next |-> [l.next EXCEPT ![l.prev[a]] = l.next[a]],
                 prev |-> [l.prev EXCEPT ![l.next[a]] = l.prev[a]]]

\* So that a further alt_llist_remove() is harmless.
SelfPoint(l, a) == [next |-> [l.next EXCEPT ![a] = a], prev |-> [l.prev EXCEPT ![a] = a]]

Insert(l, a) == LinkList(LinkEntry(l, a), a)
Remove(l, a) == SelfPoint(Unlink(l, a), a)

\* The nodes that the links lead to from the head: those of every set that has
\* its successor and the successors of its own nodes.  (Of every pointer, if they
\* lead to Null: no set of nodes is closed then.)
Reached(l) ==
  LET closed == {s \in SUBSET Nodes : l.next[Head] \in s /\ \A x \in s : l.next[x] \in s}
  IN  {x \in Nodes \cup {Null} : \A s \in closed : x \in s}

Startable(a) == links.next[a] \in {Null, a}   \* never started, or removed

-----------------------------------------------------------------------------
\* The time of an alarm.

\* Mutant: the sum is compared as if it could not wrap.
DeadlineNoRollover(from, n) == [time |-> (from + n) % W, rollover |-> FALSE]

\* An alarm n ticks after from, with the flag for "after the counter wraps".
\* The comparison is with _alt_nticks, which both callers have in from or which
\* equals it: an alarm is called at its time.
Deadline(from, n) == [time |-> (from + n) % W, rollover |-> (from + n) % W < nticks]

-----------------------------------------------------------------------------
\* The program: alt_alarm_start, alt_alarm_stop, alt_ic_isr_register, the
\* initialisation of the clock (alt_sys_init) and init_hardware().

Begin(op, arg, val) ==
  /\ prog = Idle /\ isr = "none"
  /\ prog' = [op |-> op, arg |-> arg, val |-> val, at |-> 0, ctx |-> FALSE]

CallStart(a, n) ==
  /\ rate /\ Startable(a)          \* without a clock: ENOTSUP
  /\ Begin("start", a, n)
  /\ UNCHANGED <<cpu, lines, rate, nticks, links, alarm, isr>>

CallStop(a) ==
  /\ links.next[a] # Null
  /\ Begin("stop", a, 0)
  /\ UNCHANGED <<cpu, lines, rate, nticks, links, alarm, isr>>

TimerInit ==
  /\ ~rate /\ rate' = TRUE
  /\ Begin("register", Timer, "tick")
  /\ UNCHANGED <<cpu, lines, nticks, links, alarm, isr>>

\* The application measures milliseconds with the timer of the system clock:
\* from here on there are no ticks.
InitHardware ==
  /\ Timer \in cpu.ienable
  /\ \/ cpu.handler[Buttons] = "none" /\ Begin("register", Buttons, "buttons")
     \/ /\ cpu.handler[Buttons] # "none" /\ cpu.handler[Timer] = "tick"
        /\ Begin("register", Timer, "millis")
  /\ UNCHANGED <<cpu, lines, rate, nticks, links, alarm, isr>>

At(op, n) == prog.op = op /\ prog.at = n /\ isr = "none"
Step == prog' = [prog EXCEPT !.at = @ + 1]

Enter ==
  /\ prog # Idle /\ At(prog.op, 0)
  /\ cpu' = DisableAll(cpu)
  /\ prog' = [prog EXCEPT !.at = 1, !.ctx = cpu.pie]
  /\ UNCHANGED <<lines, rate, nticks, links, alarm, isr>>

SetDeadline ==
  /\ At("start", 1) /\ Step
  /\ alarm' = [alarm EXCEPT ![prog.arg] = Deadline(nticks, prog.val + 1)]
  /\ UNCHANGED <<cpu, lines, rate, nticks, links, isr>>

Relink ==
  /\ links' = CASE At("start", 2) -> LinkEntry(links, prog.arg)
                [] At("start", 3) -> LinkList(links, prog.arg)
                [] At("stop", 1) -> Unlink(links, prog.arg)
                [] At("stop", 2) -> SelfPoint(links, prog.arg)
                [] OTHER -> links
  /\ At("start", 2) \/ At("start", 3) \/ At("stop", 1) \/ At("stop", 2)
  /\ Step
  /\ UNCHANGED <<cpu, lines, rate, nticks, alarm, isr>>

Register ==
  /\ \/ At("register", 1) /\ cpu' = [cpu EXCEPT !.handler[prog.arg] = prog.val]
     \/ At("register", 2) /\ cpu' = IrqEnable(cpu, prog.arg)
  /\ Step
  /\ UNCHANGED <<lines, rate, nticks, links, alarm, isr>>

Leave ==
  /\ At("start", 4) \/ At("stop", 3) \/ At("register", 3)
  /\ cpu' = EnableAll(cpu, prog.ctx)
  /\ prog' = Idle
  /\ UNCHANGED <<lines, rate, nticks, links, alarm, isr>>

-----------------------------------------------------------------------------
\* Interrupts.

\* The timer runs from its initialisation on.  A request that is still pending
\* hides the next one: ticks are lost then.
TimerExpires ==
  /\ rate /\ lines' = lines \cup {Timer}
  /\ UNCHANGED <<cpu, rate, nticks, links, alarm, isr, prog>>

ButtonPressed ==
  /\ cpu.handler[Buttons] # "none" \/ prog.arg = Buttons
  /\ lines' = lines \cup {Buttons}
  /\ UNCHANGED <<cpu, rate, nticks, links, alarm, isr, prog>>

Pending == lines \cap cpu.ienable

Interrupt ==
  /\ isr = "none" /\ cpu.pie /\ Pending # {}
  /\ cpu' = DisableAll(cpu) /\ isr' = "poll"
  /\ UNCHANGED <<lines, rate, nticks, links, alarm, prog>>

\* Mutant: the loop does not compare with the head.
PositionPast(x) == x

\* Where alt_tick() is when its pointer is x: at an alarm, or over.
Position(x) == IF x = Head THEN "poll" ELSE x

\* alt_irq_handler() calls the handler of the lowest pending request.
Dispatch ==
  /\ isr = "poll" /\ Pending # {}
  /\ LET i == Min(Pending)
     IN  /\ lines' = lines \ {i}
         /\ IF cpu.handler[i] = "tick"
            THEN nticks' = (nticks + 1) % W /\ isr' = Position(links.next[Head])
            ELSE UNCHANGED <<nticks, isr>>
  /\ UNCHANGED <<cpu, rate, links, alarm, prog>>

\* No request is pending: the processor restores its status register.
Return ==
  /\ isr = "poll" /\ Pending = {}
  /\ isr' = "none" /\ cpu' = [cpu EXCEPT !.pie = TRUE]
  /\ UNCHANGED <<lines, rate, nticks, links, alarm, prog>>

\* Mutant: the successor is read when the callback has returned.
SuccessorLate(before, after, a) == after.next[a]

\* alt_tick() reads it before the callback.
Successor(before, after, a) == before.next[a]

\* What a callback of a does to the list and the alarms: nothing, stop an alarm,
\* or start one.  It must not stop the alarm that follows a, which alt_tick()
\* already points to, nor start one that is set or that the program is starting.
CallbackEffects(a) ==
  {[list |-> links, alarm |-> alarm]}
  \cup {[list |-> Remove(links, b), alarm |-> alarm] :
          b \in {x \in Alarms : links.next[x] # Null /\ x # links.next[a]}}
  \cup {[list |-> Insert(links, b), alarm |-> [alarm EXCEPT ![b] = Deadline(nticks, n + 1)]] :
          b \in {x \in Alarms : Startable(x) /\ x # prog.arg}, n \in Intervals}

\* The callback is made, returns r, and its sections leave the flag as it was.
MakeCallback(a, cleared) ==
  \E e \in CallbackEffects(a), r \in Intervals :
    /\ links' = IF r = 0 THEN Remove(e.list, a) ELSE e.list
    /\ alarm' = IF r = 0 THEN [e.alarm EXCEPT ![a] = cleared]
                ELSE [e.alarm EXCEPT ![a] = Deadline(cleared.time, r)]
    /\ cpu' = IF e.list = links /\ r # 0 THEN cpu ELSE EnableAll(DisableAll(cpu), cpu.pie)

\* One pass of the loop of alt_tick().
Visit(a) ==
  /\ isr = a
  /\ LET cleared == IF nticks = 0 THEN [alarm[a] EXCEPT !.rollover = FALSE] ELSE alarm[a]
     IN  IF cleared.time <= nticks /\ ~cleared.rollover
         THEN MakeCallback(a, cleared)
         ELSE alarm' = [alarm EXCEPT ![a] = cleared] /\ UNCHANGED <<links, cpu>>
  /\ isr' = Position(Successor(links, links', a))
  /\ UNCHANGED <<lines, rate, nticks, prog>>

-----------------------------------------------------------------------------
Program ==
  \/ TimerInit \/ InitHardware
  \/ \E a \in Alarms : CallStop(a) \/ \E n \in Intervals : CallStart(a, n)
  \/ Enter \/ SetDeadline \/ Relink \/ Register \/ Leave

Next ==
  \/ Program
  \/ TimerExpires \/ ButtonPressed
  \/ Interrupt \/ Dispatch \/ Return \/ \E a \in Alarms : Visit(a)

\* The processor does not stop in a handler.
Spec == Init /\ [][Next]_vars /\ WF_vars(Dispatch) /\ WF_vars(\E a \in Alarms : Visit(a))

-----------------------------------------------------------------------------
\* While a handler runs, and while the program is between its
\* alt_irq_disable_all() and alt_irq_enable_all(), interrupts are disabled, the
\* nested sections of callbacks and of alt_irq_enable() included; and an
\* enabled interrupt has a handler.
HandlersExclusive ==
  /\ isr # "none" \/ prog.at > 0 => ~cpu.pie
  /\ isr # "none" => prog.at = 0
  /\ cpu.ienable = cpu.active /\ \A i \in cpu.ienable : cpu.handler[i] # "none"

\* Whenever alt_tick() may look at the list, it is a ring: next and previous
\* are each other's inverse on the nodes reached from the head, and an alarm
\* that is not on it points to itself or was never started.
ListWellFormed ==
  prog.at = 0 =>
    LET ring == Reached(links)
    IN  /\ Head \in ring /\ Null \notin ring
        /\ \A x \in ring : links.prev[links.next[x]] = x /\ links.next[links.prev[x]] = x
        /\ \A a \in Alarms \ ring : links.next[a] = links.prev[a] /\ Startable(a)
        /\ isr \in Alarms => isr \in ring

\* alt_tick() gets through the list, whatever its callbacks stop and start.
TickReturns == isr \in Alarms ~> isr = "poll"

\* The alarms keep the promise of AlarmClock: calls at their tick, none missed
\* and none early, across the wrap of the counter.
Remaining ==
  LET ring == Reached(links)
  IN  [a \in Alarms |->
         IF a \notin ring THEN -1
         ELSE IF alarm[a].rollover /\ nticks # 0 THEN alarm[a].time + W - nticks
         ELSE alarm[a].time - nticks]

Clock == INSTANCE AlarmClock WITH MaxTicks <- W - 2, remaining <- Remaining

ImplementsAlarmClock == Clock!Spec
=============================================================================
