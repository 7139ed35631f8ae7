------------------------- MODULE SystemClockProofs -------------------------
(***************************************************************************)
(* For any alarms, intervals and width of the tick counter: that the       *)
(* interrupt flag protects what it is meant to protect (only the flag, the *)
(* table of handlers, and where the program and the handler are matter for *)
(* it), that the list stays a ring, and that the alarms are called when    *)
(* AlarmClock says.                                                        *)
(***************************************************************************)
EXTENDS SystemClock, TLAPS

Cpus == [pie : BOOLEAN, ienable : SUBSET Irqs, active : SUBSET Irqs,
         handler : [Irqs -> Handlers]]

Calls == [op : {"idle", "start", "stop", "register"}, arg : Alarms \cup Irqs \cup {Null},
          val : Intervals \cup Handlers \cup {0}, at : Nat, ctx : BOOLEAN]

\* A registration is for an interrupt, with a handler, which is in the table
\* before the interrupt is enabled.
Registration ==
  prog.op = "register" =>
    /\ prog.arg \in Irqs
    /\ prog.val \in {"tick", "millis", "buttons"}
    /\ prog.at > 1 => cpu.handler[prog.arg] # "none"

IInv ==
  /\ cpu \in Cpus
  /\ prog \in Calls
  /\ Registration
  /\ HandlersExclusive

-----------------------------------------------------------------------------
\* The nested sections of callbacks, alt_irq_enable() included, leave the
\* interrupt flag as they found it.
LEMMA NestedSection ==
  ASSUME NEW c \in Cpus
  PROVE  EnableAll(DisableAll(c), c.pie) = c
BY DEF EnableAll, DisableAll, Cpus

\* Setting or clearing the flag changes nothing else.
LEMMA FlagEffect ==
  ASSUME NEW c \in Cpus, NEW b \in BOOLEAN
  PROVE  LET d == [c EXCEPT !.pie = b]
         IN  /\ d \in Cpus /\ d.pie = b
             /\ d.ienable = c.ienable /\ d.active = c.active /\ d.handler = c.handler
BY DEF Cpus

\* alt_irq_enable() changes the mask and its copy only.
LEMMA IrqEnableEffect ==
  ASSUME NEW c \in Cpus, NEW id \in Irqs
  PROVE  /\ IrqEnable(c, id) \in Cpus
         /\ IrqEnable(c, id).pie = c.pie
         /\ IrqEnable(c, id).handler = c.handler
         /\ IrqEnable(c, id).ienable = c.active \cup {id}
         /\ IrqEnable(c, id).active = c.active \cup {id}
BY DEF IrqEnable, EnableAll, DisableAll, Cpus

\* Interrupts are enabled and nothing runs to begin with.
LEMMA Initially == Init => IInv
BY DEF Init, IInv, Cpus, Calls, Registration, HandlersExclusive, Idle, Handlers, Irqs

\* A call begins without a change to the processor's state.
LEMMA BeginPreserves ==
  ASSUME IInv, NEW op \in {"start", "stop"}, NEW arg \in Alarms,
         NEW val \in Intervals \cup {0}, Begin(op, arg, val), UNCHANGED <<cpu, isr>>
  PROVE  IInv'
BY DEF IInv, Begin, Cpus, Calls, Registration, HandlersExclusive, Idle

\* A call of the program registers a handler for an interrupt, or none.
LEMMA BeginRegistration ==
  ASSUME IInv, NEW id \in Irqs, NEW h \in {"tick", "millis", "buttons"},
         Begin("register", id, h), UNCHANGED <<cpu, isr>>
  PROVE  IInv'
BY DEF IInv, Begin, Cpus, Calls, Registration, HandlersExclusive, Idle, Handlers

-----------------------------------------------------------------------------
\* Every step keeps the flag and the registrations as they must be.
LEMMA Inductive == IInv /\ [Next]_vars => IInv'
<1> SUFFICES ASSUME IInv, [Next]_vars PROVE IInv'
  OBVIOUS
<1>1. CASE UNCHANGED vars
  BY <1>1 DEF vars, IInv, Registration, HandlersExclusive
<1>2. CASE TimerInit
  BY <1>2, BeginRegistration DEF TimerInit, Irqs, Timer
<1>3. CASE InitHardware
  BY <1>3, BeginRegistration DEF InitHardware, Irqs, Timer, Buttons
<1>4. ASSUME NEW a \in Alarms, CallStop(a) PROVE IInv'
  BY <1>4, BeginPreserves DEF CallStop
<1>5. ASSUME NEW a \in Alarms, NEW n \in Intervals, CallStart(a, n) PROVE IInv'
  BY <1>5, BeginPreserves DEF CallStart
<1>6. CASE Enter
  <2>1. cpu' = [cpu EXCEPT !.pie = FALSE] /\ cpu \in Cpus
    BY <1>6 DEF Enter, DisableAll, IInv
  <2>2. /\ cpu' \in Cpus /\ ~cpu'.pie /\ cpu'.handler = cpu.handler
        /\ cpu'.ienable = cpu.ienable /\ cpu'.active = cpu.active
    BY <2>1, FlagEffect
  <2>3. prog' = [prog EXCEPT !.at = 1, !.ctx = cpu.pie] /\ isr = "none" /\ isr' = isr
    BY <1>6 DEF Enter, At
  <2>4. prog' \in Calls /\ prog'.at = 1 /\ prog'.op = prog.op /\ prog'.arg = prog.arg
        /\ prog'.val = prog.val
    BY <2>1, <2>3 DEF IInv, Calls, Cpus
  <2> QED
    BY <2>2, <2>3, <2>4 DEF IInv, Registration, HandlersExclusive
<1>7. CASE SetDeadline
  BY <1>7 DEF SetDeadline, At, Step, IInv, Calls, Registration, HandlersExclusive
<1>8. CASE Relink
  BY <1>8 DEF Relink, At, Step, IInv, Calls, Registration, HandlersExclusive
<1>9. CASE Register
  <2>1. CASE At("register", 1) /\ cpu' = [cpu EXCEPT !.handler[prog.arg] = prog.val]
    BY <1>9, <2>1 DEF Register, At, Step, IInv, Cpus, Calls, Registration,
                      HandlersExclusive, Handlers, Irqs
  <2>2. CASE At("register", 2) /\ cpu' = IrqEnable(cpu, prog.arg)
    <3>1. prog.arg \in Irqs /\ cpu \in Cpus /\ prog.at = 2 /\ prog.op = "register"
          /\ isr = "none" /\ isr' = isr /\ prog' = [prog EXCEPT !.at = @ + 1]
          /\ cpu.handler[prog.arg] # "none" /\ ~cpu.pie
      BY <1>9, <2>2 DEF Register, At, Step, IInv, Registration, HandlersExclusive
    <3>2. /\ cpu' \in Cpus /\ ~cpu'.pie /\ cpu'.handler = cpu.handler
          /\ cpu'.ienable = cpu.active \cup {prog.arg}
          /\ cpu'.active = cpu.active \cup {prog.arg}
      BY <2>2, <3>1, IrqEnableEffect
    <3>3. /\ prog' \in Calls /\ prog'.at = 3 /\ prog'.op = prog.op
          /\ prog'.arg = prog.arg /\ prog'.val = prog.val
      BY <3>1 DEF IInv, Calls
    <3>4. Registration'
      BY <3>1, <3>2, <3>3 DEF IInv, Registration
    <3>5. HandlersExclusive'
      BY <3>1, <3>2, <3>3 DEF IInv, HandlersExclusive
    <3> QED
      BY <3>2, <3>3, <3>4, <3>5 DEF IInv
  <2> QED
    BY <1>9, <2>1, <2>2 DEF Register
<1>10. CASE Leave
  BY <1>10 DEF Leave, At, EnableAll, IInv, Cpus, Calls, Registration, HandlersExclusive, Idle
<1>11. CASE TimerExpires \/ ButtonPressed
  BY <1>11 DEF TimerExpires, ButtonPressed, IInv, Registration, HandlersExclusive
<1>12. CASE Interrupt
  <2>1. cpu' = [cpu EXCEPT !.pie = FALSE] /\ cpu \in Cpus
    BY <1>12 DEF Interrupt, DisableAll, IInv
  <2>2. /\ cpu' \in Cpus /\ ~cpu'.pie /\ cpu'.handler = cpu.handler
        /\ cpu'.ienable = cpu.ienable /\ cpu'.active = cpu.active
    BY <2>1, FlagEffect
  <2>3. prog' = prog /\ isr = "none" /\ cpu.pie
    BY <1>12 DEF Interrupt
  <2>4. ~(prog.at > 0)
    BY <2>3 DEF IInv, HandlersExclusive
  <2>5. prog.at = 0
    BY <2>4 DEF IInv, Calls
  <2> QED
    BY <2>2, <2>3, <2>4, <2>5 DEF IInv, Registration, HandlersExclusive
<1>13. CASE Dispatch
  BY <1>13 DEF Dispatch, IInv, Registration, HandlersExclusive
<1>14. CASE Return
  <2>1. cpu' = [cpu EXCEPT !.pie = TRUE] /\ cpu \in Cpus
    BY <1>14 DEF Return, IInv
  <2>2. /\ cpu' \in Cpus /\ cpu'.handler = cpu.handler
        /\ cpu'.ienable = cpu.ienable /\ cpu'.active = cpu.active
    BY <2>1, FlagEffect
  <2>3. prog' = prog /\ isr' = "none" /\ prog.at = 0
    BY <1>14 DEF Return, IInv, HandlersExclusive
  <2> QED
    BY <2>2, <2>3 DEF IInv, Registration, HandlersExclusive
<1>15. ASSUME NEW a \in Alarms, Visit(a) PROVE IInv'
  <2>1. cpu' = cpu
    BY <1>15, NestedSection DEF Visit, MakeCallback, IInv
  <2>2. isr = a /\ a # "none" /\ prog' = prog
    BY <1>15, ClockAssumption DEF Visit
  <2>3. ~cpu.pie /\ prog.at = 0
    BY <2>2 DEF IInv, HandlersExclusive
  <2> QED
    BY <2>1, <2>2, <2>3 DEF IInv, Registration, HandlersExclusive
<1> QED
  BY <1>1, <1>2, <1>3, <1>4, <1>5, <1>6, <1>7, <1>8, <1>9, <1>10, <1>11, <1>12, <1>13,
     <1>14, <1>15 DEF Next, Program

\* Handlers and the program's critical sections exclude each other and are not
\* interrupted, and no interrupt is enabled without a handler (alt_irq.h,
\* alt_iic_isr_register.c, alt_tick.c): property HandlersExclusive, whatever the
\* alarms are and whatever their callbacks do.
THEOREM SectionsExclusive == Spec => []HandlersExclusive
<1>1. IInv => HandlersExclusive
  BY DEF IInv
<1> QED
  BY Initially, Inductive, <1>1, PTL DEF Spec

-----------------------------------------------------------------------------
(***************************************************************************)
(* The list, for any number of alarms.                                     *)
(***************************************************************************)

Links == [next : [Nodes -> Nodes \cup {Null}], prev : [Nodes -> Nodes \cup {Null}]]

Linked(l, x) == l.next[x] # Null
Spare(l, a) == l.next[a] \in {Null, a}

\* next and previous are each other's inverse on the nodes that have been linked.
Paired(l) ==
  /\ Linked(l, Head)
  /\ \A x \in Nodes : ~Linked(l, x) => l.prev[x] = Null
  /\ \A x \in Nodes : Linked(l, x) => l.prev[x] \in Nodes /\ l.next[l.prev[x]] = x
  /\ \A x \in Nodes : Linked(l, x) => Linked(l, l.next[x]) /\ l.prev[l.next[x]] = x

\* The list between two operations on it.
Ring(l) ==
  /\ l \in Links
  /\ Paired(l)
  /\ Head \in Reached(l)
  /\ \A a \in Alarms \ Reached(l) : Spare(l, a)

\* The sets that Reached is the smallest of.
Closed(l, s) == l.next[Head] \in s /\ \A x \in s : l.next[x] \in s

\* A node is reached if it is in every closed set.
LEMMA ReachedIs ==
  ASSUME NEW l
  PROVE  /\ \A s \in SUBSET Nodes : Closed(l, s) => Reached(l) \subseteq s
         /\ \A x \in Nodes : (\A s \in SUBSET Nodes : Closed(l, s) => x \in s) => x \in Reached(l)
BY DEF Reached, Closed

\* In a well-formed list the nodes that are reached are a closed set of linked
\* nodes.
LEMMA ReachedClosed ==
  ASSUME NEW l \in Links, Paired(l)
  PROVE  /\ Reached(l) \in SUBSET Nodes
         /\ Closed(l, Reached(l))
         /\ \A x \in Reached(l) : Linked(l, x)
         /\ Null \notin Reached(l)
<1> DEFINE members == {x \in Nodes : Linked(l, x)}
<1>1. members \in SUBSET Nodes /\ Closed(l, members)
  <2>1. \A x \in Nodes : Linked(l, x) => l.next[x] \in Nodes /\ Linked(l, l.next[x])
    BY DEF Linked, Paired, Links
  <2>2. Head \in Nodes /\ Linked(l, Head)
    BY DEF Nodes, Paired
  <2> QED
    BY <2>1, <2>2 DEF Closed
<1>2. Reached(l) \subseteq members
  BY <1>1, ReachedIs
<1>3. Null \notin Nodes
  BY ClockAssumption DEF Nodes
<1>4. Closed(l, Reached(l))
  <2>1. l.next[Head] \in Reached(l)
    BY <1>1, ReachedIs DEF Closed
  <2>2. ASSUME NEW x \in Reached(l) PROVE l.next[x] \in Reached(l)
    <3>1. l.next[x] \in Nodes
      BY <1>1, <1>2 DEF Closed
    <3>2. \A s \in SUBSET Nodes : Closed(l, s) => l.next[x] \in s
      BY ReachedIs DEF Closed
    <3> QED
      BY <3>1, <3>2, ReachedIs
  <2> QED
    BY <2>1, <2>2 DEF Closed
<1> QED
  BY <1>2, <1>3, <1>4

\* Nobody points to an alarm that is spare, so that it is not reached.
LEMMA SpareAlone ==
  ASSUME NEW l \in Links, Paired(l), NEW a \in Alarms, Spare(l, a)
  PROVE  /\ \A x \in Nodes \ {a} : l.next[x] # a
         /\ a \notin Reached(l)
<1>1. a \in Nodes /\ a # Head /\ Head \in Nodes /\ Null \notin Nodes
  BY ClockAssumption DEF Nodes
<1>2. l.prev[a] \in {Null, a}
  <2>1. CASE l.next[a] = Null
    BY <1>1, <2>1 DEF Paired, Linked
  <2>2. CASE l.next[a] = a
    BY <1>1, <2>2 DEF Paired, Linked
  <2> QED
    BY <2>1, <2>2 DEF Spare
<1>3. ASSUME NEW x \in Nodes \ {a}, l.next[x] = a PROVE FALSE
  <2>1. Linked(l, x)
    BY <1>1, <1>3 DEF Linked
  <2>2. l.prev[a] = x
    BY <1>3, <2>1 DEF Paired
  <2> QED
    BY <1>1, <1>2, <2>2
<1>4. Reached(l) \in SUBSET Nodes /\ Closed(l, Reached(l))
  BY ReachedClosed
<1>5. Reached(l) \ {a} \in SUBSET Nodes /\ Closed(l, Reached(l) \ {a})
  BY <1>1, <1>3, <1>4 DEF Closed
<1>6. Reached(l) \subseteq Reached(l) \ {a}
  BY <1>5, ReachedIs
<1> QED
  BY <1>3, <1>6

\* The first half of an insertion writes the links of the new node.
LEMMA LinkEntryIs ==
  ASSUME NEW l \in Links, NEW a \in Alarms
  PROVE  LET k == LinkEntry(l, a)
         IN  /\ k \in Links
             /\ \A x \in Nodes : k.next[x] = IF x = a THEN l.next[Head] ELSE l.next[x]
             /\ \A x \in Nodes : k.prev[x] = IF x = a THEN Head ELSE l.prev[x]
<1>1. a \in Nodes /\ Head \in Nodes
  BY DEF Nodes
<1> QED
  BY <1>1 DEF LinkEntry, Links

\* The second half writes those of its neighbours.
LEMMA LinkListIs ==
  ASSUME NEW l \in Links, NEW a \in Alarms
  PROVE  LET k == LinkList(l, a)
         IN  /\ k \in Links
             /\ \A x \in Nodes : k.next[x] = IF x = Head THEN a ELSE l.next[x]
             /\ \A x \in Nodes : k.prev[x] = IF x = l.next[Head] THEN a ELSE l.prev[x]
<1>1. a \in Nodes /\ Head \in Nodes
  BY DEF Nodes
<1> QED
  BY <1>1 DEF LinkList, Links

\* A removal writes the links of the neighbours, and then makes the node point to
\* itself.
LEMMA UnlinkIs ==
  ASSUME NEW l \in Links, NEW a \in Alarms
  PROVE  LET k == Unlink(l, a)
         IN  /\ k \in Links
             /\ \A x \in Nodes : k.next[x] = IF x = l.prev[a] THEN l.next[a] ELSE l.next[x]
             /\ \A x \in Nodes : k.prev[x] = IF x = l.next[a] THEN l.prev[a] ELSE l.prev[x]
<1>1. a \in Nodes
  BY DEF Nodes
<1> QED
  BY <1>1 DEF Unlink, Links

\* Pointing a node to itself.
LEMMA SelfPointIs ==
  ASSUME NEW l \in Links, NEW a \in Alarms
  PROVE  LET k == SelfPoint(l, a)
         IN  /\ k \in Links
             /\ \A x \in Nodes : k.next[x] = IF x = a THEN a ELSE l.next[x]
             /\ \A x \in Nodes : k.prev[x] = IF x = a THEN a ELSE l.prev[x]
<1>1. a \in Nodes
  BY DEF Nodes
<1> QED
  BY <1>1 DEF SelfPoint, Links

\* Together: a node that was spare is behind the head.
LEMMA InsertIs ==
  ASSUME NEW l \in Links, NEW a \in Alarms
  PROVE  LET k == Insert(l, a)
             h == l.next[Head]
         IN  /\ k \in Links
             /\ \A x \in Nodes : k.next[x] = IF x = Head THEN a ELSE IF x = a THEN h ELSE l.next[x]
             /\ \A x \in Nodes : k.prev[x] = IF x = h THEN a ELSE IF x = a THEN Head ELSE l.prev[x]
<1> DEFINE e == LinkEntry(l, a)
<1>1. /\ e \in Links
      /\ \A x \in Nodes : e.next[x] = IF x = a THEN l.next[Head] ELSE l.next[x]
      /\ \A x \in Nodes : e.prev[x] = IF x = a THEN Head ELSE l.prev[x]
  BY LinkEntryIs
<1>2. Head \in Nodes /\ Head # a
  BY ClockAssumption DEF Nodes
<1>3. e.next[Head] = l.next[Head]
  BY <1>1, <1>2
<1>4. Insert(l, a) = LinkList(e, a)
  BY DEF Insert
<1> HIDE DEF e
<1>5. /\ LinkList(e, a) \in Links
      /\ \A x \in Nodes : LinkList(e, a).next[x] = IF x = Head THEN a ELSE e.next[x]
      /\ \A x \in Nodes : LinkList(e, a).prev[x] = IF x = e.next[Head] THEN a ELSE e.prev[x]
  BY <1>1, LinkListIs
<1> QED
  BY <1>1, <1>3, <1>4, <1>5

\* A node that is removed points to itself, and its neighbours to each other.
LEMMA RemoveIs ==
  ASSUME NEW l \in Links, NEW a \in Alarms
  PROVE  LET k == Remove(l, a)
             p == l.prev[a]
             n == l.next[a]
         IN  /\ k \in Links
             /\ \A x \in Nodes : k.next[x] = IF x = a THEN a ELSE IF x = p THEN n ELSE l.next[x]
             /\ \A x \in Nodes : k.prev[x] = IF x = a THEN a ELSE IF x = n THEN p ELSE l.prev[x]
<1> DEFINE u == Unlink(l, a)
<1>1. /\ u \in Links
      /\ \A x \in Nodes : u.next[x] = IF x = l.prev[a] THEN l.next[a] ELSE l.next[x]
      /\ \A x \in Nodes : u.prev[x] = IF x = l.next[a] THEN l.prev[a] ELSE l.prev[x]
  BY UnlinkIs
<1>2. Remove(l, a) = SelfPoint(u, a)
  BY DEF Remove
<1> HIDE DEF u
<1>3. /\ SelfPoint(u, a) \in Links
      /\ \A x \in Nodes : SelfPoint(u, a).next[x] = IF x = a THEN a ELSE u.next[x]
      /\ \A x \in Nodes : SelfPoint(u, a).prev[x] = IF x = a THEN a ELSE u.prev[x]
  BY <1>1, SelfPointIs
<1> QED
  BY <1>1, <1>2, <1>3

\* An insertion keeps the list well-formed and adds its node to it.
LEMMA InsertRing ==
  ASSUME NEW l, Ring(l), NEW a \in Alarms, Spare(l, a)
  PROVE  LET k == Insert(l, a)
         IN  /\ Ring(k)
             /\ Reached(k) = Reached(l) \cup {a}
             /\ Linked(k, a)
             /\ \A x \in Nodes : Linked(l, x) => Linked(k, x)
             /\ \A x \in Alarms \ {a} : k.next[x] = l.next[x]
<1> DEFINE k == Insert(l, a)
           h == l.next[Head]
           r == Reached(l)
<1>1. l \in Links /\ Paired(l) /\ Head \in r /\ \A x \in Alarms \ r : Spare(l, x)
  BY DEF Ring
<1>2. /\ k \in Links
      /\ \A x \in Nodes : k.next[x] = IF x = Head THEN a ELSE IF x = a THEN h ELSE l.next[x]
      /\ \A x \in Nodes : k.prev[x] = IF x = h THEN a ELSE IF x = a THEN Head ELSE l.prev[x]
  BY <1>1, InsertIs
<1>3. /\ a \in Nodes /\ Head \in Nodes /\ a # Head /\ Null \notin Nodes
      /\ h \in Nodes /\ Linked(l, h) /\ Linked(l, Head) /\ l.prev[h] = Head
  BY <1>1, ClockAssumption DEF Nodes, Paired, Linked, Links
<1>4. /\ \A x \in Nodes \ {a} : l.next[x] # a
      /\ a \notin r
  BY <1>1, SpareAlone
<1>5. h # a
  BY <1>3, <1>4
<1>6. r \in SUBSET Nodes /\ Closed(l, r)
  BY <1>1, ReachedClosed
<1> HIDE DEF k, h, r
<1>7. \A x \in Nodes : Linked(l, x) => Linked(k, x)
  BY <1>2, <1>3 DEF Linked
<1>8. Linked(k, a)
  BY <1>2, <1>3 DEF Linked
<1>9. Paired(k)
  <2>1. Linked(k, Head)
    BY <1>3, <1>7
  <2>2. ASSUME NEW x \in Nodes, ~Linked(k, x) PROVE k.prev[x] = Null
    BY <1>1, <1>2, <1>3, <1>7, <1>8, <2>2 DEF Paired, Linked
  <2>3. ASSUME NEW x \in Nodes, Linked(k, x)
        PROVE  k.prev[x] \in Nodes /\ k.next[k.prev[x]] = x
    <3>1. CASE x = h \/ x = a
      BY <1>2, <1>3, <1>5, <3>1
    <3>2. CASE x # h /\ x # a
      <4>1. k.prev[x] = l.prev[x]
        BY <1>2, <3>2
      <4>2. Linked(l, x)
        BY <1>2, <1>3, <2>3, <3>2 DEF Linked
      <4>3. l.prev[x] \in Nodes /\ l.next[l.prev[x]] = x
        BY <1>1, <4>2 DEF Paired
      <4>4. l.prev[x] # Head /\ l.prev[x] # a
        BY <1>3, <1>4, <1>5, <3>2, <4>3, <1>1 DEF Spare, h
      <4> QED
        BY <1>2, <4>1, <4>3, <4>4
    <3> QED
      BY <3>1, <3>2
  <2>4. ASSUME NEW x \in Nodes, Linked(k, x)
        PROVE  Linked(k, k.next[x]) /\ k.prev[k.next[x]] = x
    <3>1. CASE x = Head \/ x = a
      BY <1>2, <1>3, <1>5, <1>7, <1>8, <3>1
    <3>2. CASE x # Head /\ x # a
      <4>1. k.next[x] = l.next[x]
        BY <1>2, <3>2
      <4>2. Linked(l, x)
        BY <2>4, <4>1 DEF Linked
      <4>3. l.next[x] \in Nodes /\ Linked(l, l.next[x]) /\ l.prev[l.next[x]] = x
        BY <1>1, <4>2 DEF Paired, Linked, Links
      <4>4. l.next[x] # h /\ l.next[x] # a
        BY <1>3, <1>4, <3>2, <4>3
      <4> QED
        BY <1>2, <1>7, <4>1, <4>3, <4>4
    <3> QED
      BY <3>1, <3>2
  <2> QED
    BY <2>1, <2>2, <2>3, <2>4 DEF Paired
<1>10. Reached(k) = r \cup {a}
  <2>1. r \cup {a} \in SUBSET Nodes /\ Closed(k, r \cup {a})
    BY <1>1, <1>2, <1>3, <1>6 DEF Closed, h
  <2>2. Reached(k) \subseteq r \cup {a}
    BY <2>1, ReachedIs
  <2>3. ASSUME NEW s \in SUBSET Nodes, Closed(k, s) PROVE a \in s /\ r \subseteq s
    <3>1. a \in s /\ h \in s
      BY <1>2, <1>3, <2>3 DEF Closed
    <3>2. s \ {a} \in SUBSET Nodes /\ Closed(l, s \ {a})
      <4>1. ASSUME NEW x \in s \ {a} PROVE l.next[x] \in s \ {a}
        <5>1. CASE x = Head
          BY <1>5, <3>1, <5>1 DEF h
        <5>2. CASE x # Head
          BY <1>2, <1>4, <2>3, <4>1, <5>2 DEF Closed
        <5> QED
          BY <5>1, <5>2
      <4> QED
        BY <1>5, <3>1, <4>1 DEF Closed, h
    <3>3. r \subseteq s \ {a}
      BY <3>2, ReachedIs DEF r
    <3> QED
      BY <3>1, <3>3
  <2>4. r \cup {a} \subseteq Reached(k)
    BY <1>3, <1>6, <2>3, ReachedIs
  <2> QED
    BY <2>2, <2>4
<1>11. Ring(k)
  <2>1. \A x \in Alarms \ Reached(k) : Spare(k, x)
    BY <1>1, <1>2, <1>10, ClockAssumption DEF Spare, Nodes
  <2> QED
    BY <1>1, <1>2, <1>9, <1>10, <2>1 DEF Ring
<1>12. \A x \in Alarms \ {a} : k.next[x] = l.next[x]
  BY <1>2, ClockAssumption DEF Nodes
<1> QED
  BY <1>7, <1>8, <1>10, <1>11, <1>12 DEF k, r

\* The removal of a node that points to itself changes nothing.
LEMMA RemoveSpare ==
  ASSUME NEW l \in Links, Paired(l), NEW a \in Alarms, l.next[a] = a
  PROVE  Remove(l, a) = l
<1> DEFINE k == Remove(l, a)
<1>1. a \in Nodes /\ Null \notin Nodes
  BY ClockAssumption DEF Nodes
<1>2. l.prev[a] = a
  BY <1>1 DEF Paired, Linked
<1>3. /\ k \in Links
      /\ \A x \in Nodes : k.next[x] = l.next[x] /\ k.prev[x] = l.prev[x]
  BY <1>1, <1>2, RemoveIs
<1> HIDE DEF k
<1>4. k.next = l.next /\ k.prev = l.prev
  BY <1>3 DEF Links
<1> QED
  BY <1>3, <1>4 DEF Links, k

\* A node that is removed from the list has two neighbours, which may be one.
LEMMA RemovalIs ==
  ASSUME NEW l, Ring(l), NEW a \in Alarms, Linked(l, a), l.next[a] # a
  PROVE  LET k == Remove(l, a)
             p == l.prev[a]
             n == l.next[a]
         IN  /\ p \in Nodes \ {a} /\ n \in Nodes \ {a} /\ l.next[p] = a /\ l.prev[n] = a
             /\ Linked(l, p) /\ Linked(l, n)
             /\ \A x \in Nodes \ {p} : l.next[x] # a
             /\ a \in Reached(l)
             /\ k.next[a] = a /\ k.next[p] = n /\ k.prev[a] = a /\ k.prev[n] = p
             /\ \A x \in Nodes \ {a, p} : k.next[x] = l.next[x]
             /\ \A x \in Nodes \ {a, n} : k.prev[x] = l.prev[x]
<1> DEFINE p == l.prev[a]
           n == l.next[a]
<1>1. l \in Links /\ Paired(l) /\ \A x \in Alarms \ Reached(l) : Spare(l, x)
  BY DEF Ring
<1>2. a \in Nodes /\ Null \notin Nodes
  BY ClockAssumption DEF Nodes
<1>3. p \in Nodes /\ l.next[p] = a /\ n \in Nodes /\ l.prev[n] = a /\ Linked(l, n)
  BY <1>1, <1>2 DEF Paired, Linked, Links
<1>4. p # a /\ n # a /\ Linked(l, p)
  BY <1>2, <1>3 DEF Linked
<1>5. a \in Reached(l)
  BY <1>1 DEF Spare, Linked
<1>6. ASSUME NEW x \in Nodes \ {p}, l.next[x] = a PROVE FALSE
  BY <1>1, <1>2, <1>6 DEF Paired, Linked
<1> QED
  BY <1>1, <1>2, <1>3, <1>4, <1>5, <1>6, RemoveIs

\* A removal keeps the list well-formed and takes its node, and no other, from it.
LEMMA RemoveRing ==
  ASSUME NEW l, Ring(l), NEW a \in Alarms, Linked(l, a)
  PROVE  LET k == Remove(l, a)
         IN  /\ Ring(k)
             /\ Reached(k) = Reached(l) \ {a}
             /\ k.next[a] = a
             /\ \A x \in Nodes : Linked(l, x) => Linked(k, x)
             /\ \A x \in Alarms : Spare(l, x) => Spare(k, x)
             /\ \A x \in Alarms \ {a} : l.next[x] # a => k.next[x] = l.next[x]
<1> DEFINE k == Remove(l, a)
           p == l.prev[a]
           n == l.next[a]
           r == Reached(l)
<1>1. l \in Links /\ Paired(l) /\ Head \in r /\ \A x \in Alarms \ r : Spare(l, x)
  BY DEF Ring
<1>2. CASE n = a
  <2>1. k = l
    BY <1>1, <1>2, RemoveSpare
  <2>2. a \notin r
    BY <1>1, <1>2, SpareAlone DEF Spare
  <2> QED
    BY <1>1, <1>2, <2>1, <2>2 DEF Ring
<1>3. CASE n # a
  <2>1. /\ p \in Nodes \ {a} /\ n \in Nodes \ {a} /\ l.next[p] = a /\ l.prev[n] = a
        /\ Linked(l, p) /\ Linked(l, n)
        /\ \A x \in Nodes \ {p} : l.next[x] # a
        /\ a \in r
        /\ k.next[a] = a /\ k.next[p] = n /\ k.prev[a] = a /\ k.prev[n] = p
        /\ \A x \in Nodes \ {a, p} : k.next[x] = l.next[x]
        /\ \A x \in Nodes \ {a, n} : k.prev[x] = l.prev[x]
    BY <1>3, RemovalIs
  <2>2. /\ a \in Nodes /\ Head \in Nodes /\ a # Head /\ Null \notin Nodes
    BY ClockAssumption DEF Nodes
  <2>3. k \in Links
    BY <1>1, RemoveIs
  <2>4. r \in SUBSET Nodes /\ Closed(l, r)
    BY <1>1, ReachedClosed
  <2>5. n = l.next[a]
    OBVIOUS
  <2> HIDE DEF k, p, n, r
  <2>6. \A x \in Nodes : Linked(l, x) <=> Linked(k, x)
    BY <1>3, <2>1, <2>2, <2>5 DEF Linked
  <2>7. Paired(k)
    <3>1. Linked(k, Head)
      BY <1>1, <2>2, <2>6 DEF Paired
    <3>2. ASSUME NEW x \in Nodes, ~Linked(k, x) PROVE k.prev[x] = Null
      <4>1. ~Linked(l, x)
        BY <2>6, <3>2
      <4>2. x # a /\ x # n
        BY <2>1, <2>6, <3>2, <4>1
      <4> QED
        BY <1>1, <2>1, <4>1, <4>2 DEF Paired
    <3>3. ASSUME NEW x \in Nodes, Linked(k, x)
          PROVE  k.prev[x] \in Nodes /\ k.next[k.prev[x]] = x
      <4>1. CASE x = a \/ x = n
        BY <2>1, <2>2, <4>1
      <4>2. CASE x # a /\ x # n
        <5>1. k.prev[x] = l.prev[x] /\ l.prev[x] \in Nodes /\ l.next[l.prev[x]] = x
          BY <1>1, <2>1, <2>6, <3>3, <4>2 DEF Paired
        <5>2. l.prev[x] # p /\ l.prev[x] # a
          BY <2>1, <2>5, <4>2, <5>1
        <5> QED
          BY <2>1, <5>1, <5>2
      <4> QED
        BY <4>1, <4>2
    <3>4. ASSUME NEW x \in Nodes, Linked(k, x)
          PROVE  Linked(k, k.next[x]) /\ k.prev[k.next[x]] = x
      <4>1. CASE x = a \/ x = p
        BY <2>1, <2>2, <2>6, <3>4, <4>1
      <4>2. CASE x # a /\ x # p
        <5>1. k.next[x] = l.next[x] /\ Linked(l, x)
          BY <2>1, <2>6, <3>4, <4>2
        <5>2. l.next[x] \in Nodes /\ Linked(l, l.next[x]) /\ l.prev[l.next[x]] = x
          BY <1>1, <5>1 DEF Paired, Linked, Links
        <5>3. l.next[x] # n /\ l.next[x] # a
          BY <2>1, <4>2, <5>2
        <5> QED
          BY <2>1, <2>6, <5>1, <5>2, <5>3
      <4> QED
        BY <4>1, <4>2
    <3> QED
      BY <3>1, <3>2, <3>3, <3>4 DEF Paired
  <2>8. Reached(k) = r \ {a}
    <3>1. r \ {a} \in SUBSET Nodes /\ Closed(k, r \ {a})
      <4>1. \A x \in Nodes \ {p} : l.next[x] # a
        BY <2>1
      <4>2. ASSUME NEW x \in (r \ {a}) \cup {Head} PROVE k.next[x] \in r \ {a}
        <5>1. x \in Nodes \ {a} /\ l.next[x] \in r
          BY <2>2, <2>4 DEF Closed
        <5>2. CASE x = p
          BY <2>1, <2>4, <2>5, <5>2 DEF Closed
        <5>3. CASE x # p
          BY <2>1, <5>1, <5>3
        <5> QED
          BY <5>2, <5>3
      <4> QED
        BY <2>4, <4>2 DEF Closed
    <3>2. Reached(k) \subseteq r \ {a}
      BY <3>1, ReachedIs
    <3>3. ASSUME NEW s \in SUBSET Nodes, Closed(k, s) PROVE r \subseteq s \cup {a}
      <4>1. CASE n \in s
        <5>1. s \cup {a} \in SUBSET Nodes /\ Closed(l, s \cup {a})
          <6>1. ASSUME NEW x \in s \cup {a, Head} PROVE l.next[x] \in s \cup {a}
            <7>1. CASE x = a
              BY <2>5, <4>1, <7>1
            <7>2. CASE x = p
              BY <2>1, <7>2
            <7>3. CASE x # a /\ x # p
              BY <2>1, <2>2, <3>3, <7>3 DEF Closed
            <7> QED
              BY <7>1, <7>2, <7>3
          <6> QED
            BY <2>2, <6>1 DEF Closed
        <5> QED
          BY <5>1, ReachedIs DEF r
      <4>2. CASE n \notin s
        <5>1. s \ {a} \in SUBSET Nodes /\ Closed(l, s \ {a})
          <6>1. p \notin s /\ p # Head
            BY <2>1, <3>3, <4>2 DEF Closed
          <6>2. ASSUME NEW x \in (s \ {a}) \cup {Head} PROVE l.next[x] \in s \ {a}
            BY <2>1, <2>2, <3>3, <6>1 DEF Closed
          <6> QED
            BY <6>2 DEF Closed
        <5> QED
          BY <5>1, ReachedIs DEF r
      <4> QED
        BY <4>1, <4>2
    <3>4. r \ {a} \subseteq Reached(k)
      BY <2>4, <3>3, ReachedIs
    <3> QED
      BY <3>2, <3>4
  <2>9. Head \in Reached(k)
    BY <1>1, <2>2, <2>8
  <2>10. \A x \in Alarms : Spare(l, x) => Spare(k, x)
    BY <2>1, <2>2 DEF Spare, Nodes
  <2>11. \A x \in Alarms \ Reached(k) : Spare(k, x)
    BY <1>1, <2>1, <2>8, <2>10 DEF Spare, r
  <2>12. \A x \in Alarms \ {a} : l.next[x] # a => k.next[x] = l.next[x]
    BY <2>1 DEF Nodes
  <2>13. Ring(k)
    BY <2>3, <2>7, <2>9, <2>11 DEF Ring
  <2> QED
    BY <2>1, <2>6, <2>8, <2>10, <2>12, <2>13 DEF k, r
<1> QED
  BY <1>2, <1>3

-----------------------------------------------------------------------------
(***************************************************************************)
(* The operations of the program and of the handler on the list.           *)
(***************************************************************************)

\* The operands and the position of the program's call, and the times.
Values ==
  /\ lines \subseteq Irqs /\ rate \in BOOLEAN /\ nticks \in 0 .. W - 1
  /\ alarm \in [Alarms -> [time : 0 .. W - 1, rollover : BOOLEAN]]
  /\ isr \in Alarms \cup {"none", "poll"}
  /\ prog.op = "idle" => prog = Idle
  /\ prog.op = "start" => prog.at \in 0 .. 4 /\ prog.arg \in Alarms /\ prog.val \in Intervals
  /\ prog.op = "stop" => prog.at \in 0 .. 3 /\ prog.arg \in Alarms
  /\ prog.op = "register" => prog.at \in 0 .. 3

\* Inside alt_llist_insert() and alt_llist_remove() the list is on the way from one
\* well-formed list to another; interrupts are disabled there.
Inserting == prog.op = "start" /\ prog.at = 3
Removing == prog.op = "stop" /\ prog.at = 2

ListInv ==
  /\ Inserting => \E l \in Links :
                    Ring(l) /\ Spare(l, prog.arg) /\ links = LinkEntry(l, prog.arg)
  /\ Removing => \E l \in Links :
                   Ring(l) /\ Linked(l, prog.arg) /\ links = Unlink(l, prog.arg)
  /\ ~Inserting /\ ~Removing => Ring(links)
  /\ prog.op = "start" /\ prog.at < 3 => Spare(links, prog.arg)
  /\ prog.op = "stop" /\ prog.at < 2 => Linked(links, prog.arg)
  /\ isr \in Alarms => isr \in Reached(links)

FullInv == IInv /\ Values /\ ListInv

\* What IInv says of where the two are.
LEMMA Places ==
  ASSUME IInv
  PROVE  /\ prog.op \in {"idle", "start", "stop", "register"} /\ prog.at \in Nat
         /\ isr # "none" => prog.at = 0
         /\ "none" \notin Alarms /\ "poll" \notin Alarms /\ Head \notin Alarms /\ Null \notin Alarms
BY ClockAssumption DEF IInv, Calls, HandlersExclusive

\* A callback does nothing to the list, removes an alarm other than the next one,
\* or inserts one.
LEMMA EffectIs ==
  ASSUME NEW a, NEW e \in CallbackEffects(a)
  PROVE  \/ e = [list |-> links, alarm |-> alarm]
         \/ \E b \in Alarms :
              /\ Linked(links, b) /\ b # links.next[a]
              /\ e = [list |-> Remove(links, b), alarm |-> alarm]
         \/ \E b \in Alarms, n \in Intervals :
              /\ Spare(links, b) /\ b # prog.arg
              /\ e = [list |-> Insert(links, b),
                      alarm |-> [alarm EXCEPT ![b] = Deadline(nticks, n + 1)]]
BY DEF CallbackEffects, Linked, Spare, Startable

\* A deadline is a time of the counter.
LEMMA DeadlineIs ==
  ASSUME NEW from \in 0 .. W - 1, NEW n \in 0 .. W
  PROVE  Deadline(from, n) \in [time : 0 .. W - 1, rollover : BOOLEAN]
<1>1. W \in Nat \ {0} /\ from + n \in Nat
  BY ClockAssumption
<1>2. (from + n) % W \in 0 .. W - 1
  BY <1>1
<1> HIDE DEF Deadline
<1>3. Deadline(from, n) = [time |-> (from + n) % W, rollover |-> (from + n) % W < nticks]
  BY DEF Deadline
<1> QED
  BY <1>2, <1>3

\* A list that a callback of a has worked on is well-formed, and the node that
\* follows a is still on it.
LEMMA EffectRing ==
  ASSUME FullInv, NEW a \in Alarms, isr = a, NEW e \in CallbackEffects(a)
  PROVE  /\ Ring(e.list)
         /\ e.alarm \in [Alarms -> [time : 0 .. W - 1, rollover : BOOLEAN]]
         /\ Linked(e.list, a)
         /\ links.next[a] \in Reached(e.list)
         /\ links.next[a] # a
         /\ prog.op = "start" => Spare(e.list, prog.arg)
         /\ prog.op = "stop" => Linked(e.list, prog.arg)
<1>1. /\ prog.at = 0 /\ Ring(links) /\ a \in Reached(links) /\ Head \notin Alarms
      /\ prog.op = "start" => Spare(links, prog.arg) /\ prog.arg \in Alarms
      /\ prog.op = "stop" => Linked(links, prog.arg) /\ prog.arg \in Alarms
      /\ nticks \in 0 .. W - 1
      /\ alarm \in [Alarms -> [time : 0 .. W - 1, rollover : BOOLEAN]]
  BY Places DEF FullInv, Values, ListInv, Inserting, Removing
<1>2. /\ Closed(links, Reached(links)) /\ Linked(links, a)
      /\ Reached(links) \in SUBSET Nodes
  BY <1>1, ReachedClosed DEF Ring
<1>3. links.next[a] \in Reached(links) /\ links.next[a] # a
  BY <1>1, <1>2, SpareAlone DEF Closed, Ring, Spare
<1>4. Alarms \subseteq Nodes
  BY DEF Nodes
<1>5. CASE e = [list |-> links, alarm |-> alarm]
  BY <1>1, <1>2, <1>3, <1>5
<1>6. ASSUME NEW b \in Alarms, Linked(links, b), b # links.next[a],
             e = [list |-> Remove(links, b), alarm |-> alarm]
      PROVE  /\ Ring(e.list)
             /\ e.alarm \in [Alarms -> [time : 0 .. W - 1, rollover : BOOLEAN]]
             /\ Linked(e.list, a)
             /\ links.next[a] \in Reached(e.list)
             /\ prog.op = "start" => Spare(e.list, prog.arg)
             /\ prog.op = "stop" => Linked(e.list, prog.arg)
  <2>1. /\ Ring(Remove(links, b)) /\ Reached(Remove(links, b)) = Reached(links) \ {b}
        /\ \A x \in Nodes : Linked(links, x) => Linked(Remove(links, b), x)
        /\ \A x \in Alarms : Spare(links, x) => Spare(Remove(links, b), x)
    BY <1>1, <1>6, RemoveRing
  <2> QED
    BY <1>1, <1>2, <1>3, <1>4, <1>6, <2>1
<1>7. ASSUME NEW b \in Alarms, NEW n \in Intervals, Spare(links, b), b # prog.arg,
             e = [list |-> Insert(links, b),
                  alarm |-> [alarm EXCEPT ![b] = Deadline(nticks, n + 1)]]
      PROVE  /\ Ring(e.list)
             /\ e.alarm \in [Alarms -> [time : 0 .. W - 1, rollover : BOOLEAN]]
             /\ Linked(e.list, a)
             /\ links.next[a] \in Reached(e.list)
             /\ prog.op = "start" => Spare(e.list, prog.arg)
             /\ prog.op = "stop" => Linked(e.list, prog.arg)
  <2>1. /\ Ring(Insert(links, b)) /\ Reached(Insert(links, b)) = Reached(links) \cup {b}
        /\ \A x \in Nodes : Linked(links, x) => Linked(Insert(links, b), x)
        /\ \A x \in Alarms \ {b} : Insert(links, b).next[x] = links.next[x]
    BY <1>1, <1>7, InsertRing
  <2>2. n + 1 \in 0 .. W
    BY ClockAssumption
  <2>3. Deadline(nticks, n + 1) \in [time : 0 .. W - 1, rollover : BOOLEAN]
    BY <1>1, <2>2, DeadlineIs
  <2>4. e.alarm \in [Alarms -> [time : 0 .. W - 1, rollover : BOOLEAN]]
    BY <1>1, <1>7, <2>3
  <2>5. e.list = Insert(links, b)
    BY <1>7
  <2> QED
    BY <1>1, <1>2, <1>3, <1>4, <1>7, <2>1, <2>4, <2>5 DEF Spare
<1> QED
  BY <1>3, <1>5, <1>6, <1>7, EffectIs

\* The list that alt_alarm_init() leaves is empty.
LEMMA InitFull == Init => FullInv
<1> SUFFICES ASSUME Init PROVE FullInv
  OBVIOUS
<1>1. IInv
  BY Initially
<1>2. /\ Head \in Nodes /\ Null \notin Nodes /\ Head # Null /\ Head \notin Alarms
      /\ "none" \notin Alarms /\ W \in Nat /\ W > 2
  BY ClockAssumption DEF Nodes
<1>3. /\ links \in Links
      /\ \A x \in Nodes : links.next[x] = IF x = Head THEN Head ELSE Null
      /\ \A x \in Nodes : links.prev[x] = IF x = Head THEN Head ELSE Null
  BY <1>2 DEF Init, Links
<1>4. Paired(links)
  BY <1>2, <1>3 DEF Paired, Linked
<1>5. Head \in Reached(links)
  BY <1>2, <1>3, ReachedIs DEF Closed
<1>6. Ring(links)
  BY <1>2, <1>3, <1>4, <1>5 DEF Ring, Spare, Nodes
<1>7. /\ prog.op = "idle" /\ prog = Idle /\ prog.at = 0 /\ isr = "none" /\ lines = {} /\ rate = FALSE
      /\ nticks = 0 /\ alarm = [a \in Alarms |-> [time |-> 0, rollover |-> FALSE]]
  BY DEF Init, Idle
<1>8. Values
  <2>1. 0 \in 0 .. W - 1 /\ alarm \in [Alarms -> [time : 0 .. W - 1, rollover : BOOLEAN]]
    BY <1>2, <1>7
  <2> QED
    BY <1>7, <2>1 DEF Values
<1>9. ListInv
  BY <1>2, <1>6, <1>7 DEF ListInv, Inserting, Removing
<1> QED
  BY <1>1, <1>8, <1>9 DEF FullInv

\* A call begins.
LEMMA BeginList ==
  ASSUME FullInv,
         \/ TimerInit \/ InitHardware
         \/ \E a \in Alarms : CallStop(a) \/ \E n \in Intervals : CallStart(a, n)
  PROVE  Values' /\ ListInv'
<1>1. /\ prog.op = "idle" /\ isr = "none" /\ isr' = isr /\ prog'.at = 0
      /\ lines' = lines /\ nticks' = nticks /\ links' = links /\ alarm' = alarm
  BY DEF TimerInit, InitHardware, CallStop, CallStart, Begin, Idle
<1>2. rate' \in BOOLEAN
  BY DEF TimerInit, InitHardware, CallStop, CallStart, FullInv, Values
<1>3. \/ prog'.op = "register"
      \/ prog'.op = "stop" /\ prog'.arg \in Alarms /\ Linked(links, prog'.arg)
      \/ /\ prog'.op = "start" /\ prog'.arg \in Alarms /\ prog'.val \in Intervals
         /\ Spare(links, prog'.arg)
  BY DEF TimerInit, InitHardware, CallStop, CallStart, Begin, Startable, Linked, Spare
<1>4. Ring(links)
  BY <1>1 DEF FullInv, ListInv, Inserting, Removing
<1>5. Values'
  BY <1>2, <1>1, <1>3 DEF FullInv, Values
<1>6. ListInv'
  BY <1>1, <1>3, <1>4, Places DEF FullInv, ListInv, Inserting, Removing
<1> QED
  BY <1>5, <1>6

\* A step of the program that is not one of the four on the list.
LEMMA ProgramList ==
  ASSUME FullInv, Enter \/ SetDeadline \/ Register \/ Leave
  PROVE  Values' /\ ListInv'
<1>1. /\ isr = "none" /\ isr' = isr /\ UNCHANGED <<lines, rate, nticks, links>>
  BY DEF Enter, SetDeadline, Register, Leave, At
<1>2. /\ prog \in Calls /\ "none" \notin Alarms
  BY ClockAssumption DEF FullInv, IInv
<1>3. CASE Leave
  <2>1. prog'.op = "idle" /\ prog' = Idle /\ prog'.at = 0 /\ alarm' = alarm
    BY <1>3 DEF Leave, Idle
  <2>2. Ring(links)
    BY <1>3 DEF Leave, At, FullInv, ListInv, Inserting, Removing
  <2>3. Values'
    BY <1>1, <2>1 DEF FullInv, Values
  <2>4. ListInv'
    BY <1>1, <1>2, <2>1, <2>2 DEF ListInv, Inserting, Removing
  <2> QED
    BY <2>3, <2>4
<1>4. CASE Enter
  <2>1. /\ prog'.op = prog.op /\ prog'.arg = prog.arg /\ prog'.val = prog.val
        /\ prog.at = 0 /\ prog'.at = 1 /\ prog # Idle /\ alarm' = alarm
    BY <1>2, <1>4 DEF Enter, At, Calls
  <2>2. prog.op # "idle"
    BY <2>1 DEF FullInv, Values
  <2>3. Values'
    BY <1>1, <2>1, <2>2 DEF FullInv, Values
  <2>4. ListInv'
    BY <1>1, <1>2, <2>1 DEF FullInv, ListInv, Inserting, Removing
  <2> QED
    BY <2>3, <2>4
<1>5. CASE SetDeadline
  <2>1. /\ prog.op = "start" /\ prog.at = 1 /\ prog'.op = "start" /\ prog'.at = 2
        /\ prog'.arg = prog.arg /\ prog'.val = prog.val
        /\ prog.arg \in Alarms /\ prog.val \in Intervals
    BY <1>2, <1>5 DEF SetDeadline, At, Step, Calls, FullInv, Values
  <2>2. Deadline(nticks, prog.val + 1) \in [time : 0 .. W - 1, rollover : BOOLEAN]
    <3>1. prog.val \in 0 .. W - 2 /\ W \in Nat
      BY <2>1, ClockAssumption
    <3>2. prog.val + 1 \in 0 .. W
      BY <3>1
    <3> QED
      BY <3>2, DeadlineIs DEF FullInv, Values
  <2>3. alarm' \in [Alarms -> [time : 0 .. W - 1, rollover : BOOLEAN]]
    BY <1>5, <2>1, <2>2 DEF SetDeadline, FullInv, Values
  <2>4. Values'
    BY <1>1, <2>1, <2>3 DEF FullInv, Values
  <2>5. ListInv'
    BY <1>1, <1>2, <2>1 DEF FullInv, ListInv, Inserting, Removing
  <2> QED
    BY <2>4, <2>5
<1>6. CASE Register
  <2>1. /\ prog.op = "register" /\ prog.at \in {1, 2} /\ prog'.op = "register"
        /\ prog'.at = prog.at + 1 /\ alarm' = alarm
    BY <1>2, <1>6 DEF Register, At, Step, Calls
  <2>2. Values'
    BY <1>1, <2>1 DEF FullInv, Values
  <2>3. ListInv'
    BY <1>1, <1>2, <2>1 DEF FullInv, ListInv, Inserting, Removing
  <2> QED
    BY <2>2, <2>3
<1> QED
  BY <1>3, <1>4, <1>5, <1>6

\* The four steps of an insertion and of a removal.
LEMMA RelinkIs ==
  ASSUME FullInv, Relink
  PROVE  /\ isr = "none" /\ prog.op \in {"start", "stop"} /\ prog.arg \in Alarms
         /\ prog'.op = prog.op /\ prog'.at = prog.at + 1 /\ prog'.arg = prog.arg
         /\ prog'.val = prog.val
         /\ \/ prog.op = "start" /\ prog.at = 2 /\ links' = LinkEntry(links, prog.arg)
            \/ prog.op = "start" /\ prog.at = 3 /\ links' = LinkList(links, prog.arg)
            \/ prog.op = "stop" /\ prog.at = 1 /\ links' = Unlink(links, prog.arg)
            \/ prog.op = "stop" /\ prog.at = 2 /\ links' = SelfPoint(links, prog.arg)
<1>1. prog \in Calls
  BY DEF FullInv, IInv
<1>2. prog' = [prog EXCEPT !.at = @ + 1] /\ isr = "none"
  BY DEF Relink, Step, At
<1>3. /\ prog'.op = prog.op /\ prog'.at = prog.at + 1 /\ prog'.arg = prog.arg
      /\ prog'.val = prog.val
  BY <1>1, <1>2 DEF Calls
<1>4. \/ prog.op = "start" /\ prog.at = 2 /\ links' = LinkEntry(links, prog.arg)
      \/ prog.op = "start" /\ prog.at = 3 /\ links' = LinkList(links, prog.arg)
      \/ prog.op = "stop" /\ prog.at = 1 /\ links' = Unlink(links, prog.arg)
      \/ prog.op = "stop" /\ prog.at = 2 /\ links' = SelfPoint(links, prog.arg)
  BY DEF Relink, At
<1> QED
  BY <1>2, <1>3, <1>4 DEF FullInv, Values

\* The steps of an insertion and of a removal lead from one ring to the next.
LEMMA RelinkList ==
  ASSUME FullInv, Relink
  PROVE  Values' /\ ListInv'
<1>1. /\ isr = "none" /\ prog.op \in {"start", "stop"} /\ prog.arg \in Alarms
      /\ prog'.op = prog.op /\ prog'.at = prog.at + 1 /\ prog'.arg = prog.arg
      /\ prog'.val = prog.val
  BY RelinkIs
<1>2. isr' = isr /\ UNCHANGED <<lines, rate, nticks, alarm>> /\ "none" \notin Alarms
  BY ClockAssumption DEF Relink
<1>3. CASE prog.op = "start" /\ prog.at = 2 /\ links' = LinkEntry(links, prog.arg)
  <2>1. Ring(links) /\ Spare(links, prog.arg) /\ links \in Links
    BY <1>3 DEF FullInv, ListInv, Inserting, Removing, Ring
  <2>2. ListInv'
    BY <1>1, <1>2, <1>3, <2>1 DEF ListInv, Inserting, Removing
  <2>3. Values'
    BY <1>1, <1>2, <1>3 DEF FullInv, Values
  <2> QED
    BY <2>2, <2>3
<1>4. CASE prog.op = "start" /\ prog.at = 3 /\ links' = LinkList(links, prog.arg)
  <2>1. PICK l \in Links : Ring(l) /\ Spare(l, prog.arg) /\ links = LinkEntry(l, prog.arg)
    BY <1>4 DEF FullInv, ListInv, Inserting
  <2>2. links' = Insert(l, prog.arg)
    BY <1>4, <2>1 DEF Insert
  <2>3. Ring(links')
    BY <1>1, <2>1, <2>2, InsertRing
  <2>4. ListInv'
    BY <1>1, <1>2, <1>4, <2>3 DEF ListInv, Inserting, Removing
  <2>5. Values'
    BY <1>1, <1>2, <1>4 DEF FullInv, Values
  <2> QED
    BY <2>4, <2>5
<1>5. CASE prog.op = "stop" /\ prog.at = 1 /\ links' = Unlink(links, prog.arg)
  <2>1. Ring(links) /\ Linked(links, prog.arg) /\ links \in Links
    BY <1>5 DEF FullInv, ListInv, Inserting, Removing, Ring
  <2>2. ListInv'
    BY <1>1, <1>2, <1>5, <2>1 DEF ListInv, Inserting, Removing
  <2>3. Values'
    BY <1>1, <1>2, <1>5 DEF FullInv, Values
  <2> QED
    BY <2>2, <2>3
<1>6. CASE prog.op = "stop" /\ prog.at = 2 /\ links' = SelfPoint(links, prog.arg)
  <2>1. PICK l \in Links : Ring(l) /\ Linked(l, prog.arg) /\ links = Unlink(l, prog.arg)
    BY <1>6 DEF FullInv, ListInv, Removing
  <2>2. links' = Remove(l, prog.arg)
    BY <1>6, <2>1 DEF Remove
  <2>3. Ring(links')
    BY <1>1, <2>1, <2>2, RemoveRing
  <2>4. ListInv'
    BY <1>1, <1>2, <1>6, <2>3 DEF ListInv, Inserting, Removing
  <2>5. Values'
    BY <1>1, <1>2, <1>6 DEF FullInv, Values
  <2> QED
    BY <2>4, <2>5
<1> QED
  BY <1>3, <1>4, <1>5, <1>6, RelinkIs

\* The interrupt is taken and returned from, and devices request it.
LEMMA InterruptList ==
  ASSUME FullInv, TimerExpires \/ ButtonPressed \/ Interrupt \/ Return
  PROVE  Values' /\ ListInv'
<1>1. /\ UNCHANGED <<rate, nticks, links, alarm, prog>> /\ lines' \subseteq Irqs
      /\ isr' = isr \/ isr' \in {"none", "poll"}
  BY DEF TimerExpires, ButtonPressed, Interrupt, Return, FullInv, Values, Irqs, Timer, Buttons
<1>2. "none" \notin Alarms /\ "poll" \notin Alarms
  BY ClockAssumption
<1>3. Values'
  BY <1>1 DEF FullInv, Values
<1>4. ListInv'
  BY <1>1, <1>2 DEF FullInv, ListInv, Inserting, Removing
<1> QED
  BY <1>3, <1>4

\* alt_tick() begins at the first node of the list.
LEMMA DispatchList ==
  ASSUME FullInv, Dispatch
  PROVE  Values' /\ ListInv'
<1>1. /\ UNCHANGED <<rate, links, alarm, prog>> /\ lines' \subseteq Irqs
      /\ isr = "poll" /\ prog.at = 0 /\ "none" \notin Alarms /\ "poll" \notin Alarms
  BY Places DEF Dispatch, FullInv, Values
<1>2. \/ nticks' = (nticks + 1) % W /\ isr' = Position(links.next[Head])
      \/ nticks' = nticks /\ isr' = isr
  BY DEF Dispatch
<1>3. nticks' \in 0 .. W - 1
  <2>1. W \in Nat \ {0} /\ nticks \in Nat /\ nticks \in 0 .. W - 1
    BY ClockAssumption DEF FullInv, Values
  <2>2. (nticks + 1) % W \in 0 .. W - 1
    BY <2>1
  <2> QED
    BY <1>2, <2>1, <2>2
<1>4. Ring(links) /\ links \in Links /\ Paired(links)
  BY <1>1 DEF FullInv, ListInv, Inserting, Removing, Ring
<1>5. links.next[Head] \in Reached(links) /\ Reached(links) \subseteq Alarms \cup {Head}
  BY <1>4, ReachedClosed DEF Closed, Nodes
<1>6. isr' = "poll" \/ (isr' \in Alarms /\ isr' \in Reached(links))
  BY <1>1, <1>2, <1>5 DEF Position
<1>7. Values'
  BY <1>1, <1>3, <1>6 DEF FullInv, Values
<1>8. ListInv'
  BY <1>1, <1>4, <1>6 DEF FullInv, ListInv, Inserting, Removing
<1> QED
  BY <1>7, <1>8

\* alt_tick() goes on to a node that is still on the list, whatever the callback
\* did and whether or not the alarm was taken off.
LEMMA VisitList ==
  ASSUME FullInv, NEW a \in Alarms, Visit(a)
  PROVE  Values' /\ ListInv'
<1> DEFINE cleared == IF nticks = 0 THEN [alarm[a] EXCEPT !.rollover = FALSE] ELSE alarm[a]
           Times == [time : 0 .. W - 1, rollover : BOOLEAN]
<1>1. /\ isr = a /\ prog.at = 0 /\ UNCHANGED <<lines, rate, nticks, prog>>
      /\ isr' = Position(links.next[a]) /\ alarm \in [Alarms -> Times]
      /\ "none" \notin Alarms /\ "poll" \notin Alarms
  BY Places DEF Visit, Successor, FullInv, Values
<1>2. /\ Ring(links) /\ a \in Reached(links) /\ links \in Links /\ Paired(links)
  BY <1>1 DEF FullInv, ListInv, Inserting, Removing, Ring
<1>3. /\ links.next[a] \in Reached(links)
      /\ Reached(links) \subseteq Nodes
  BY <1>2, ReachedClosed DEF Closed
<1>4. cleared \in Times
  BY <1>1
<1> HIDE DEF cleared, Times
<1>5. CASE links' = links /\ alarm' = [alarm EXCEPT ![a] = cleared]
  <2>1. alarm' \in [Alarms -> Times]
    BY <1>1, <1>4, <1>5
  <2>2. isr' \in Alarms \cup {"poll"} /\ (isr' \in Alarms => isr' \in Reached(links'))
    BY <1>1, <1>3, <1>5 DEF Position, Nodes
  <2>3. Values'
    BY <1>1, <2>1, <2>2 DEF FullInv, Values, Times
  <2>4. ListInv'
    BY <1>1, <1>2, <1>5, <2>2 DEF FullInv, ListInv, Inserting, Removing
  <2> QED
    BY <2>3, <2>4
<1>6. CASE MakeCallback(a, cleared)
  <2>1. PICK e \in CallbackEffects(a), r \in Intervals :
          /\ links' = IF r = 0 THEN Remove(e.list, a) ELSE e.list
          /\ alarm' = IF r = 0 THEN [e.alarm EXCEPT ![a] = cleared]
                      ELSE [e.alarm EXCEPT ![a] = Deadline(cleared.time, r)]
    BY <1>6 DEF MakeCallback
  <2>2. /\ Ring(e.list) /\ e.alarm \in [Alarms -> Times] /\ Linked(e.list, a)
        /\ links.next[a] \in Reached(e.list) /\ links.next[a] # a
        /\ prog.op = "start" => Spare(e.list, prog.arg)
        /\ prog.op = "stop" => Linked(e.list, prog.arg)
    BY <1>1, EffectRing DEF Times
  <2>3. /\ Ring(Remove(e.list, a))
        /\ Reached(Remove(e.list, a)) = Reached(e.list) \ {a}
        /\ \A x \in Nodes : Linked(e.list, x) => Linked(Remove(e.list, a), x)
        /\ \A x \in Alarms : Spare(e.list, x) => Spare(Remove(e.list, a), x)
    BY <2>2, RemoveRing
  <2>4. /\ Ring(links') /\ links.next[a] \in Reached(links')
        /\ prog.op = "start" => Spare(links', prog.arg)
        /\ prog.op = "stop" => Linked(links', prog.arg)
    BY <2>1, <2>2, <2>3 DEF FullInv, Values, Nodes
  <2>5. Deadline(cleared.time, r) \in Times
    <3>1. cleared.time \in 0 .. W - 1 /\ r \in 0 .. W
      BY <1>4, ClockAssumption DEF Times
    <3> QED
      BY <3>1, DeadlineIs DEF Times
  <2>6. alarm' \in [Alarms -> Times]
    BY <1>4, <2>1, <2>2, <2>5
  <2>7. isr' \in Alarms \cup {"poll"} /\ (isr' \in Alarms => isr' \in Reached(links'))
    BY <1>1, <1>3, <2>4 DEF Position, Nodes
  <2>8. Values'
    BY <1>1, <2>6, <2>7 DEF FullInv, Values, Times
  <2>9. ListInv'
    BY <1>1, <2>4, <2>7 DEF ListInv, Inserting, Removing
  <2> QED
    BY <2>8, <2>9
<1> QED
  BY <1>5, <1>6 DEF Visit, cleared

\* Every step keeps all of it.
LEMMA NextFull == FullInv /\ [Next]_vars => FullInv'
<1> SUFFICES ASSUME FullInv, [Next]_vars PROVE FullInv'
  OBVIOUS
<1>1. IInv'
  BY Inductive DEF FullInv
<1>2. CASE UNCHANGED vars
  <2>1. Values' /\ ListInv'
    BY <1>2 DEF vars, FullInv, Values, ListInv, Inserting, Removing
  <2> QED
    BY <1>1, <2>1 DEF FullInv
<1>3. CASE Next
  <2>1. Values' /\ ListInv'
    BY <1>3, BeginList, ProgramList, RelinkList, InterruptList, DispatchList, VisitList
       DEF Next, Program
  <2> QED
    BY <1>1, <2>1 DEF FullInv
<1> QED
  BY <1>2, <1>3

\* It always holds.
LEMMA FullInvariance == Spec => []FullInv
BY InitFull, NextFull, PTL DEF Spec

\* The counter and the times stay in their range, a call in its length, and
\* alt_tick() is at an alarm or over: the pointer it follows is never Null.
THEOREM TypeCorrect == Spec => []TypeOK
<1>1. ASSUME FullInv PROVE TypeOK
  <2>1. links \in Links
    <3>1. CASE Inserting
      BY <1>1, <3>1, LinkEntryIs DEF FullInv, ListInv, Values, Inserting
    <3>2. CASE Removing
      BY <1>1, <3>2, UnlinkIs DEF FullInv, ListInv, Values, Removing
    <3>3. CASE ~Inserting /\ ~Removing
      BY <1>1, <3>3 DEF FullInv, ListInv, Ring
    <3> QED
      BY <3>1, <3>2, <3>3
  <2>2. cpu \in Cpus /\ prog \in Calls
    BY <1>1 DEF FullInv, IInv
  <2>3. prog.op \in {"idle", "start", "stop", "register"} /\ prog.at \in 0 .. 4 /\ prog.ctx \in BOOLEAN
    BY <1>1, <2>2 DEF FullInv, Values, Calls, Idle
  <2> QED
    BY <1>1, <2>1, <2>2, <2>3 DEF TypeOK, FullInv, Values, Links, Cpus
<1> QED
  BY <1>1, FullInvariance, PTL

\* Whenever alt_tick() may look at the list it is a ring (ListWellFormed): next and
\* previous are each other's inverse, an alarm that is not on it points to itself
\* or was never started, and alt_tick() is at a node of it (alt_llist.h, L87-102
\* of alt_tick.c), for any number of alarms that the program and the callbacks
\* start and stop.
THEOREM ListKept == Spec => []ListWellFormed
<1>1. ASSUME FullInv PROVE ListWellFormed
  <2> SUFFICES ASSUME prog.at = 0
               PROVE  LET ring == Reached(links)
                      IN  /\ Head \in ring /\ Null \notin ring
                          /\ \A x \in ring : /\ links.prev[links.next[x]] = x
                                             /\ links.next[links.prev[x]] = x
                          /\ \A a \in Alarms \ ring :
                               links.next[a] = links.prev[a] /\ Startable(a)
                          /\ isr \in Alarms => isr \in ring
    BY DEF ListWellFormed
  <2>1. Ring(links) /\ links \in Links /\ Paired(links) /\ Head \in Reached(links)
    BY <1>1 DEF FullInv, ListInv, Inserting, Removing, Ring
  <2>2. /\ Reached(links) \in SUBSET Nodes /\ Null \notin Reached(links)
        /\ \A x \in Reached(links) : Linked(links, x)
    BY <2>1, ReachedClosed
  <2>3. \A x \in Reached(links) : links.prev[links.next[x]] = x /\ links.next[links.prev[x]] = x
    BY <2>1, <2>2 DEF Paired
  <2>4. ASSUME NEW a \in Alarms \ Reached(links)
        PROVE  links.next[a] = links.prev[a] /\ Startable(a)
    <3>1. Spare(links, a) /\ a \in Nodes /\ Null \notin Nodes
      BY <2>1, ClockAssumption DEF Ring, Nodes
    <3> QED
      BY <2>1, <3>1 DEF Spare, Startable, Paired, Linked
  <2>5. isr \in Alarms => isr \in Reached(links)
    BY <1>1 DEF FullInv, ListInv
  <2> QED
    BY <2>1, <2>2, <2>3, <2>4, <2>5
<1> QED
  BY <1>1, FullInvariance, PTL

-----------------------------------------------------------------------------
(***************************************************************************)
(* The time of an alarm, and how much of it is left when the counter is at *)
(* now.                                                                    *)
(***************************************************************************)

Times == [time : 0 .. W - 1, rollover : BOOLEAN]
Ticks == 0 .. W - 1

TicksLeft(d, now) == IF d.rollover /\ now # 0 THEN d.time + W - now ELSE d.time - now

\* The flag says whether the time comes after the counter has wrapped.
Sound(d, now) == IF d.rollover /\ now # 0 THEN d.time < now ELSE d.time >= now

\* The counter has wrapped, and alt_tick() has yet to clear the flag.
Stale(d, now) == now = 0 /\ d.rollover

\* A sum of a tick and an interval wraps at most once.
LEMMA WrapOnce ==
  ASSUME NEW x \in 0 .. W - 1, NEW n \in 0 .. W
  PROVE  (x + n) % W = IF x + n < W THEN x + n ELSE x + n - W
<1>1. W \in Nat \ {0} /\ x + n \in Int
  BY ClockAssumption
<1>2. /\ (x + n) % W \in 0 .. W - 1 /\ (x + n) \div W \in Int
      /\ x + n = W * ((x + n) \div W) + ((x + n) % W)
  BY <1>1
<1> DEFINE q == (x + n) \div W
           r == (x + n) % W
<1> HIDE DEF q, r
<1>3. q \in Int /\ r \in 0 .. W - 1 /\ x + n = W * q + r /\ x + n \in 0 .. 2 * W - 1
  BY <1>1, <1>2 DEF q, r
<1>4. q = 0 \/ q = 1
  <2>1. CASE q < 0
    <3>1. W * q <= -W
      BY <1>1, <1>3, <2>1
    <3> QED
      BY <1>1, <1>3, <3>1
  <2>2. CASE q > 1
    <3>1. W * q >= 2 * W
      BY <1>1, <1>3, <2>2
    <3> QED
      BY <1>1, <1>3, <3>1
  <2> QED
    BY <1>3, <2>1, <2>2
<1>5. r = IF x + n < W THEN x + n ELSE x + n - W
  <2>1. CASE q = 0
    BY <1>1, <1>3, <2>1
  <2>2. CASE q = 1
    BY <1>1, <1>3, <2>2
  <2> QED
    BY <1>4, <2>1, <2>2
<1> QED
  BY <1>5 DEF r

\* The deadline n ticks from now has n ticks left.
LEMMA DeadlineLeft ==
  ASSUME nticks \in Ticks, NEW n \in 1 .. W - 1
  PROVE  LET d == Deadline(nticks, n)
         IN  Sound(d, nticks) /\ TicksLeft(d, nticks) = n /\ ~Stale(d, nticks)
<1>1. W \in Nat /\ n \in 0 .. W /\ nticks \in 0 .. W - 1
  BY ClockAssumption DEF Ticks
<1> DEFINE t == (nticks + n) % W
<1>2. t = IF nticks + n < W THEN nticks + n ELSE nticks + n - W
  BY <1>1, WrapOnce
<1> HIDE DEF t
<1>3. Deadline(nticks, n) = [time |-> t, rollover |-> t < nticks]
  BY DEF Deadline, t
<1>4. Deadline(nticks, n).time = t /\ (Deadline(nticks, n).rollover <=> t < nticks)
  <2>1. Deadline(nticks, n).time = t
    BY <1>3
  <2>2. CASE t < nticks
    <3>1. Deadline(nticks, n) = [time |-> t, rollover |-> TRUE]
      BY <1>3, <2>2
    <3> QED
      BY <2>1, <2>2, <3>1
  <2>3. CASE ~(t < nticks)
    <3>1. (t < nticks) = FALSE
      BY <2>3
    <3>2. Deadline(nticks, n) = [time |-> t, rollover |-> FALSE]
      BY <1>3, <3>1, Zenon
    <3> QED
      BY <2>1, <2>3, <3>2
  <2> QED
    BY <2>2, <2>3
<1>5. CASE nticks + n < W
  BY <1>1, <1>2, <1>4, <1>5 DEF Sound, TicksLeft, Stale
<1>6. CASE nticks + n >= W
  BY <1>1, <1>2, <1>4, <1>6 DEF Sound, TicksLeft, Stale
<1> QED
  BY <1>1, <1>5, <1>6

\* With each tick, the one in which the counter wraps too, there is one less.
LEMMA TickLeft ==
  ASSUME NEW now \in Ticks, NEW d \in Times, Sound(d, now), TicksLeft(d, now) # 0, ~Stale(d, now)
  PROVE  LET next == (now + 1) % W
         IN  Sound(d, next) /\ TicksLeft(d, next) = TicksLeft(d, now) - 1
<1>1. W \in Nat /\ W > 2 /\ now \in 0 .. W - 1 /\ d.time \in 0 .. W - 1 /\ d.rollover \in BOOLEAN
  BY ClockAssumption DEF Ticks, Times
<1> DEFINE next == (now + 1) % W
<1>2. next = IF now + 1 < W THEN now + 1 ELSE 0
  <2>1. 1 \in 0 .. W
    BY <1>1
  <2>2. next = IF now + 1 < W THEN now + 1 ELSE now + 1 - W
    BY <1>1, <2>1, WrapOnce
  <2> QED
    BY <1>1, <2>2
<1> HIDE DEF next
<1>3. CASE d.rollover
  BY <1>1, <1>2, <1>3 DEF Sound, TicksLeft, Stale
<1>4. CASE ~d.rollover
  BY <1>1, <1>2, <1>4 DEF Sound, TicksLeft, Stale
<1> QED
  BY <1>3, <1>4 DEF next

\* Clearing the flag when the counter has wrapped changes nothing of it, and what
\* alt_tick() then tests is whether no tick is left.
LEMMA ClearedLeft ==
  ASSUME NEW now \in Ticks, NEW d \in Times, Sound(d, now)
  PROVE  LET c == IF now = 0 THEN [d EXCEPT !.rollover = FALSE] ELSE d
         IN  /\ c \in Times /\ Sound(c, now) /\ ~Stale(c, now)
             /\ TicksLeft(c, now) = TicksLeft(d, now)
             /\ (c.time <= now /\ ~c.rollover) <=> TicksLeft(d, now) = 0
             /\ TicksLeft(d, now) = 0 => c.time = now
<1>1. W \in Nat /\ W > 2 /\ now \in 0 .. W - 1 /\ d.time \in 0 .. W - 1 /\ d.rollover \in BOOLEAN
  BY ClockAssumption DEF Ticks, Times
<1>2. CASE now = 0
  <2> DEFINE c == [d EXCEPT !.rollover = FALSE]
  <2>1. c \in Times /\ c.time = d.time /\ c.rollover = FALSE
    BY DEF Times
  <2> HIDE DEF c
  <2>2. /\ Sound(c, now) /\ ~Stale(c, now)
        /\ TicksLeft(c, now) = TicksLeft(d, now)
        /\ (c.time <= now /\ ~c.rollover) <=> TicksLeft(d, now) = 0
        /\ TicksLeft(d, now) = 0 => c.time = now
    BY <1>1, <1>2, <2>1 DEF Sound, TicksLeft, Stale
  <2> QED
    BY <1>2, <2>1, <2>2 DEF c
<1>3. CASE now # 0
  BY <1>1, <1>3 DEF Sound, TicksLeft, Stale
<1> QED
  BY <1>2, <1>3

-----------------------------------------------------------------------------
(***************************************************************************)
(* What alt_tick() has yet to go through.                                  *)
(***************************************************************************)

\* Lists that differ in the successor of one node lead to the same nodes if one of
\* them does not lead to that node.
LEMMA ReachedSame ==
  ASSUME NEW l, NEW k, NEW a \in Alarms,
         \A x \in Nodes \ {a} : k.next[x] = l.next[x],
         Reached(l) \in SUBSET Nodes, Closed(l, Reached(l)), a \notin Reached(l)
  PROVE  Reached(k) = Reached(l)
<1> DEFINE r == Reached(l)
<1>1. Head \in Nodes \ {a}
  BY ClockAssumption DEF Nodes
<1>2. Closed(k, r)
  BY <1>1 DEF Closed
<1>3. Reached(k) \subseteq r
  BY <1>2, ReachedIs
<1>4. ASSUME NEW s \in SUBSET Nodes, Closed(k, s) PROVE r \subseteq s
  <2>1. s \cap r \in SUBSET Nodes /\ Closed(l, s \cap r)
    BY <1>1, <1>4 DEF Closed
  <2>2. r \subseteq s \cap r
    BY <2>1, ReachedIs
  <2> QED
    BY <2>2
<1>5. r \subseteq Reached(k)
  BY <1>4, ReachedIs
<1> QED
  BY <1>3, <1>5

\* A set of alarms that alt_tick() does not leave before the end of the list.
TailClosed(l, s) == \A x \in s : l.next[x] \in s \cup {Head}

\* Such a set was one before the removal of a node, with that node or without it,
LEMMA RemoveTail ==
  ASSUME NEW l, Ring(l), NEW a \in Alarms, Linked(l, a),
         NEW s \in SUBSET Alarms, TailClosed(Remove(l, a), s)
  PROVE  TailClosed(l, s \cup {a}) \/ TailClosed(l, s \ {a})
<1> DEFINE k == Remove(l, a)
           p == l.prev[a]
           n == l.next[a]
<1>1. CASE n = a
  <2>1. k = l
    BY <1>1, RemoveSpare DEF Ring
  <2> QED
    BY <1>1, <2>1 DEF TailClosed
<1>2. CASE n # a
  <2>1. /\ p \in Nodes \ {a} /\ l.next[p] = a /\ k.next[p] = n
        /\ \A x \in Nodes \ {p} : l.next[x] # a
        /\ \A x \in Nodes \ {a, p} : k.next[x] = l.next[x]
    BY <1>2, RemovalIs
  <2>2. s \in SUBSET Nodes
    BY DEF Nodes
  <2>3. n = l.next[a]
    OBVIOUS
  <2>4. \A x \in s : k.next[x] \in s \cup {Head}
    BY DEF TailClosed
  <2> HIDE DEF k, p, n
  <2>5. CASE n \in s \cup {Head}
    <3>1. ASSUME NEW x \in s \cup {a} PROVE l.next[x] \in s \cup {a} \cup {Head}
      <4>1. CASE x = a
        BY <2>3, <2>5, <4>1
      <4>2. CASE x = p
        BY <2>1, <4>2
      <4>3. CASE x # a /\ x # p
        BY <2>1, <2>2, <2>4, <4>3
      <4> QED
        BY <4>1, <4>2, <4>3
    <3> QED
      BY <3>1 DEF TailClosed
  <2>6. CASE n \notin s \cup {Head}
    <3>1. p \notin s
      BY <2>1, <2>4, <2>6
    <3>2. \A x \in s \ {a} : l.next[x] \in (s \ {a}) \cup {Head}
      BY <2>1, <2>2, <2>4, <3>1
    <3> QED
      BY <3>2 DEF TailClosed
  <2> QED
    BY <2>5, <2>6
<1> QED
  BY <1>1, <1>2

\* and before an insertion without the new node.
LEMMA InsertTail ==
  ASSUME NEW l, Ring(l), NEW a \in Alarms, Spare(l, a),
         NEW s \in SUBSET Alarms, TailClosed(Insert(l, a), s)
  PROVE  TailClosed(l, s \ {a})
<1> DEFINE k == Insert(l, a)
<1>1. \A x \in Alarms \ {a} : k.next[x] = l.next[x]
  BY InsertRing
<1>2. \A x \in Alarms \ {a} : l.next[x] # a
  BY SpareAlone DEF Ring, Nodes
<1>3. \A x \in s : k.next[x] \in s \cup {Head}
  BY DEF TailClosed
<1> HIDE DEF k
<1>4. \A x \in s \ {a} : l.next[x] \in (s \ {a}) \cup {Head}
  BY <1>1, <1>2, <1>3
<1> QED
  BY <1>4 DEF TailClosed

\* Of a set that alt_tick() does not leave after the callback of a, it did not
\* leave the rest before either, a included; what is not in the set any more has
\* been taken off the list.
LEMMA EffectTail ==
  ASSUME FullInv, NEW a \in Alarms, isr = a, NEW e \in CallbackEffects(a),
         NEW s \in SUBSET Alarms, TailClosed(e.list, s), links.next[a] \in s \cup {Head}
  PROVE  \E t \in SUBSET Alarms :
           /\ TailClosed(links, t) /\ a \in t
           /\ \A x \in t : x \in Reached(e.list) => x \in s \cup {a}
<1> DEFINE n == links.next[a]
<1>1. Ring(links) /\ Head \notin Alarms /\ a \in Reached(links)
  BY Places DEF FullInv, ListInv, Inserting, Removing
<1>2. n \in Reached(links)
  BY <1>1, ReachedClosed DEF Ring, Closed
<1>3. ASSUME NEW u \in SUBSET Alarms, TailClosed(links, u), n \in u \cup {Head},
             \A x \in u : x \in Reached(e.list) => x \in s \cup {a}
      PROVE  \E t \in SUBSET Alarms :
               /\ TailClosed(links, t) /\ a \in t
               /\ \A x \in t : x \in Reached(e.list) => x \in s \cup {a}
  <2>1. TailClosed(links, u \cup {a}) /\ u \cup {a} \in SUBSET Alarms
    BY <1>3 DEF TailClosed
  <2> QED
    BY <1>3, <2>1
<1>4. CASE e = [list |-> links, alarm |-> alarm]
  BY <1>3, <1>4
<1>5. ASSUME NEW b \in Alarms, Linked(links, b), b # n,
             e = [list |-> Remove(links, b), alarm |-> alarm]
      PROVE  \E t \in SUBSET Alarms :
               /\ TailClosed(links, t) /\ a \in t
               /\ \A x \in t : x \in Reached(e.list) => x \in s \cup {a}
  <2>1. e.list = Remove(links, b) /\ b \notin Reached(e.list)
    BY <1>1, <1>5, RemoveRing
  <2>2. TailClosed(links, s \cup {b}) \/ TailClosed(links, s \ {b})
    BY <1>1, <1>5, <2>1, RemoveTail
  <2>3. n \in (s \cup {b}) \cup {Head} /\ n \in (s \ {b}) \cup {Head}
    BY <1>5
  <2>4. s \cup {b} \in SUBSET Alarms /\ s \ {b} \in SUBSET Alarms
    OBVIOUS
  <2>5. \A x \in s \cup {b} : x \in Reached(e.list) => x \in s \cup {a}
    BY <2>1
  <2> QED
    BY <1>3, <2>2, <2>3, <2>4, <2>5
<1>6. ASSUME NEW b \in Alarms, NEW i \in Intervals, Spare(links, b), b # prog.arg,
             e = [list |-> Insert(links, b),
                  alarm |-> [alarm EXCEPT ![b] = Deadline(nticks, i + 1)]]
      PROVE  \E t \in SUBSET Alarms :
               /\ TailClosed(links, t) /\ a \in t
               /\ \A x \in t : x \in Reached(e.list) => x \in s \cup {a}
  <2>1. e.list = Insert(links, b)
    BY <1>6
  <2>2. TailClosed(links, s \ {b})
    BY <1>1, <1>6, <2>1, InsertTail
  <2>3. b \notin Reached(links)
    BY <1>1, <1>6, SpareAlone DEF Ring
  <2>4. n \in (s \ {b}) \cup {Head} /\ s \ {b} \in SUBSET Alarms
    BY <1>2, <2>3
  <2> QED
    BY <1>3, <2>2, <2>4
<1> QED
  BY <1>4, <1>5, <1>6, EffectIs

-----------------------------------------------------------------------------
(***************************************************************************)
(* The alarms are called at their tick.                                    *)
(***************************************************************************)

\* The alarms on the list that alt_tick() has something to do for.
Waiting == {a \in Alarms \cap Reached(links) :
              TicksLeft(alarm[a], nticks) = 0 \/ Stale(alarm[a], nticks)}

TimesSound == \A a \in Alarms \cap Reached(links) : Sound(alarm[a], nticks)

\* They are ahead of it: it does not get to the end of the list without them.
\* Between two ticks there are none.
WaitingAhead ==
  \A s \in SUBSET Alarms :
    TailClosed(links, s) /\ (isr \in Alarms => isr \in s) => Waiting \subseteq s

\* No tick comes between the reading of the counter and the insertion.
DeadlineSet ==
  prog.op = "start" /\ prog.at \in {2, 3} => alarm[prog.arg] = Deadline(nticks, prog.val + 1)

TimeInv == TimesSound /\ WaitingAhead /\ DeadlineSet

\* A step of the clock of AlarmClock, or none.
ClockStep == Clock!Next \/ Remaining' = Remaining

\* What AlarmClock sees of the alarms.
LEMMA RemainingIs ==
  Remaining = [a \in Alarms |-> IF a \notin Reached(links) THEN -1
                                ELSE TicksLeft(alarm[a], nticks)]
BY DEF Remaining, TicksLeft

\* Outside alt_tick() there is nothing it has to do.
LEMMA NoneWaiting ==
  ASSUME WaitingAhead, isr \notin Alarms
  PROVE  Waiting = {}
<1>1. {} \in SUBSET Alarms /\ TailClosed(links, {})
  BY DEF TailClosed
<1> QED
  BY <1>1 DEF WaitingAhead

\* A step that leaves the nodes on the list, their times and the counter alone.
LEMMA QuietStep ==
  ASSUME TimeInv, nticks' = nticks, Reached(links)' = Reached(links),
         \A a \in Alarms \cap Reached(links) : alarm'[a] = alarm[a],
         \/ isr \notin Alarms
         \/ isr' = isr /\ links' = links
  PROVE  TimesSound' /\ WaitingAhead' /\ Remaining' = Remaining
<1>1. Waiting' = Waiting
  BY DEF Waiting
<1>2. TimesSound'
  BY DEF TimeInv, TimesSound
<1>3. WaitingAhead'
  <2>1. CASE isr \notin Alarms
    BY <1>1, <2>1, NoneWaiting DEF TimeInv, WaitingAhead
  <2>2. CASE isr' = isr /\ links' = links
    BY <1>1, <2>2 DEF TimeInv, WaitingAhead
  <2> QED
    BY <2>1, <2>2
<1>4. \A a \in Alarms : (IF a \notin Reached(links)' THEN -1 ELSE TicksLeft(alarm'[a], nticks'))
                        = (IF a \notin Reached(links) THEN -1 ELSE TicksLeft(alarm[a], nticks))
  OBVIOUS
<1>5. Remaining' = [a \in Alarms |-> IF a \notin Reached(links)' THEN -1
                                     ELSE TicksLeft(alarm'[a], nticks')]
  BY DEF Remaining, TicksLeft
<1>6. Remaining' = Remaining
  BY <1>4, <1>5, RemainingIs, Zenon
<1> QED
  BY <1>2, <1>3, <1>6

\* No alarm is set to begin with.
LEMMA InitTime == Init => TimeInv /\ Clock!Init
<1> SUFFICES ASSUME Init PROVE TimeInv /\ Clock!Init
  OBVIOUS
<1>1. /\ \A x \in Nodes : links.next[x] = IF x = Head THEN Head ELSE Null
      /\ Head \in Nodes
  BY DEF Init, Nodes
<1>2. {Head} \in SUBSET Nodes /\ Closed(links, {Head})
  BY <1>1 DEF Closed
<1>3. Reached(links) \cap Alarms = {}
  BY <1>2, ReachedIs, ClockAssumption
<1>4. TimesSound /\ Waiting = {}
  BY <1>3 DEF TimesSound, Waiting
<1>5. TimeInv
  BY <1>4 DEF TimeInv, WaitingAhead, DeadlineSet, Init, Idle
<1>6. Remaining = [a \in Alarms |-> -1]
  BY <1>3, RemainingIs
<1> QED
  BY <1>5, <1>6 DEF Clock!Init, Clock!Off

\* Calls of the program, up to the change of the list, interrupts and their
\* return are not seen by AlarmClock.
LEMMA ProgramTime ==
  ASSUME FullInv, TimeInv,
         \/ TimerInit \/ InitHardware
         \/ \E a \in Alarms : CallStop(a) \/ \E n \in Intervals : CallStart(a, n)
         \/ Enter \/ SetDeadline \/ Register \/ Leave
  PROVE  TimeInv' /\ ClockStep
<1>1. isr = "none" /\ isr' = isr /\ nticks' = nticks /\ links' = links /\ "none" \notin Alarms
  BY ClockAssumption DEF TimerInit, InitHardware, CallStop, CallStart, Begin, Enter, SetDeadline,
                         Register, Leave, At
<1>2. CASE SetDeadline
  <2>1. /\ prog.op = "start" /\ prog.at = 1 /\ prog.arg \in Alarms
        /\ prog'.arg = prog.arg /\ prog'.val = prog.val
        /\ alarm' = [alarm EXCEPT ![prog.arg] = Deadline(nticks, prog.val + 1)]
        /\ alarm \in [Alarms -> [time : 0 .. W - 1, rollover : BOOLEAN]]
    BY <1>2 DEF SetDeadline, At, Step, FullInv, Values, IInv, Calls
  <2>2. Spare(links, prog.arg) /\ links \in Links /\ Paired(links)
    BY <2>1 DEF FullInv, ListInv, Inserting, Removing, Ring
  <2>3. prog.arg \notin Reached(links)
    BY <2>1, <2>2, SpareAlone
  <2>4. \A a \in Alarms \cap Reached(links) : alarm'[a] = alarm[a]
    BY <2>1, <2>3
  <2>5. alarm'[prog.arg] = Deadline(nticks, prog.val + 1)
    BY <2>1
  <2>6. DeadlineSet'
    <3>1. Deadline(nticks, prog.val + 1)' = Deadline(nticks, prog.val + 1)
      BY <1>1, <2>1 DEF Deadline
    <3> QED
      BY <2>1, <2>5, <3>1 DEF DeadlineSet
  <2> QED
    BY <1>1, <2>4, <2>6, QuietStep DEF TimeInv, ClockStep
<1>3. CASE ~SetDeadline
  <2>1. alarm' = alarm
    BY <1>3 DEF TimerInit, InitHardware, CallStop, CallStart, Enter, Register, Leave
  <2>2. prog \in Calls
    BY DEF FullInv, IInv
  <2>3. ~(prog'.op = "start" /\ prog'.at \in {2, 3})
    <3>1. CASE Enter
      BY <2>2, <3>1 DEF Enter, Calls
    <3>2. CASE Register
      BY <2>2, <3>2 DEF Register, At, Step, Calls
    <3>3. CASE Leave
      BY <3>3 DEF Leave, Idle
    <3>4. CASE ~Enter /\ ~Register /\ ~Leave
      <4>1. prog'.at = 0
        BY <1>3, <3>4 DEF TimerInit, InitHardware, CallStop, CallStart, Begin
      <4> QED
        BY <4>1
    <3> QED
      BY <3>1, <3>2, <3>3, <3>4
  <2> QED
    BY <1>1, <2>1, <2>3, QuietStep DEF TimeInv, DeadlineSet, ClockStep
<1> QED
  BY <1>2, <1>3

\* Nor are requests, interrupts and returns.
LEMMA InterruptTime ==
  ASSUME FullInv, TimeInv,
         TimerExpires \/ ButtonPressed \/ Interrupt \/ Return \/ UNCHANGED vars
  PROVE  TimeInv' /\ ClockStep
<1>1. /\ UNCHANGED <<nticks, links, alarm, prog>> /\ "none" \notin Alarms /\ "poll" \notin Alarms
      /\ isr' = isr \/ isr \in {"none", "poll"}
  BY ClockAssumption DEF TimerExpires, ButtonPressed, Interrupt, Return, vars
<1>2. DeadlineSet'
  BY <1>1 DEF TimeInv, DeadlineSet, Deadline
<1> QED
  BY <1>1, <1>2, QuietStep DEF TimeInv, ClockStep

\* alt_tick() and its interrupts aside: what Remaining is in the next state.
LEMMA RemainingNext ==
  Remaining' = [a \in Alarms |-> IF a \notin Reached(links') THEN -1
                                 ELSE TicksLeft(alarm'[a], nticks')]
BY DEF Remaining, TicksLeft, Reached

\* An alarm is set in the step that puts it on the list, and off in the step that
\* takes it from it.
LEMMA RelinkTime ==
  ASSUME FullInv, TimeInv, Relink
  PROVE  TimeInv' /\ ClockStep
<1> DEFINE a == prog.arg
<1>1. /\ isr = "none" /\ a \in Alarms /\ prog'.op = prog.op /\ prog'.at = prog.at + 1
      /\ prog'.arg = a /\ prog'.val = prog.val
  BY RelinkIs
<1>2. isr' = isr /\ nticks' = nticks /\ alarm' = alarm /\ isr \notin Alarms
  BY <1>1, ClockAssumption DEF Relink
<1>3. a \in Nodes /\ Alarms \subseteq Nodes /\ W \in Nat /\ W > 2 /\ nticks \in Ticks
  BY <1>1, ClockAssumption DEF Nodes, Ticks, FullInv, Values
<1>4. Waiting = {}
  BY <1>2, NoneWaiting DEF TimeInv
<1> HIDE DEF a
<1>5. CASE prog.op = "start" /\ prog.at = 2 /\ links' = LinkEntry(links, a)
  <2>1. Ring(links) /\ Spare(links, a) /\ links \in Links /\ Paired(links)
    BY <1>5 DEF FullInv, ListInv, Inserting, Removing, Ring, a
  <2>2. /\ \A x \in Nodes \ {a} : links'.next[x] = links.next[x]
        /\ a \notin Reached(links)
        /\ Reached(links) \in SUBSET Nodes /\ Closed(links, Reached(links))
    BY <1>1, <1>5, <2>1, LinkEntryIs, SpareAlone, ReachedClosed
  <2>3. Reached(links') = Reached(links)
    BY <1>1, <2>2, ReachedSame
  <2>4. DeadlineSet'
    BY <1>1, <1>2, <1>5 DEF TimeInv, DeadlineSet, Deadline, a
  <2> QED
    BY <1>2, <2>3, <2>4, QuietStep DEF TimeInv, ClockStep
<1>6. CASE prog.op = "start" /\ prog.at = 3 /\ links' = LinkList(links, a)
  <2>1. PICK l \in Links : Ring(l) /\ Spare(l, a) /\ links = LinkEntry(l, a)
    BY <1>6 DEF FullInv, ListInv, Inserting, a
  <2>2. links' = Insert(l, a)
    BY <1>6, <2>1 DEF Insert
  <2>3. /\ \A x \in Nodes \ {a} : links.next[x] = l.next[x]
        /\ a \notin Reached(l)
        /\ Reached(l) \in SUBSET Nodes /\ Closed(l, Reached(l))
    BY <1>1, <2>1, LinkEntryIs, SpareAlone, ReachedClosed DEF Ring
  <2>4. Reached(links) = Reached(l)
    BY <1>1, <2>3, ReachedSame
  <2>5. Reached(links') = Reached(links) \cup {a} /\ a \notin Reached(links)
    BY <1>1, <2>1, <2>2, <2>3, <2>4, InsertRing
  <2> DEFINE n == prog.val + 1
  <2>6. prog.val \in 0 .. W - 2 /\ n \in 1 .. W - 1 /\ alarm[a] = Deadline(nticks, n)
    <3>1. prog.val \in Intervals
      BY <1>6 DEF FullInv, Values
    <3>2. prog.val \in 0 .. W - 2
      BY <3>1, ClockAssumption
    <3> QED
      BY <1>3, <1>6, <3>2 DEF TimeInv, DeadlineSet, a
  <2> HIDE DEF n
  <2>7. Sound(alarm[a], nticks) /\ TicksLeft(alarm[a], nticks) = n /\ ~Stale(alarm[a], nticks)
    BY <1>3, <2>6, DeadlineLeft
  <2>8. TimesSound'
    BY <1>2, <2>5, <2>7 DEF TimeInv, TimesSound
  <2>9. Waiting' = {}
    <3>1. n # 0
      BY <2>6, <1>3
    <3>2. Waiting' = {x \in Alarms \cap Reached(links') :
                        TicksLeft(alarm'[x], nticks') = 0 \/ Stale(alarm'[x], nticks')}
      BY DEF Waiting
    <3>3. ASSUME NEW x \in Waiting' PROVE FALSE
      BY <1>2, <1>4, <2>5, <2>7, <3>1, <3>2 DEF Waiting
    <3> QED
      BY <3>3
  <2>10. WaitingAhead' /\ DeadlineSet'
    BY <1>1, <1>6, <2>9 DEF WaitingAhead, DeadlineSet
  <2>11. Clock!Start(a)
    <3>1. Remaining[a] = -1
      BY <1>1, <2>5, RemainingIs
    <3>2. \A x \in Alarms :
            (IF x \notin Reached(links') THEN -1 ELSE TicksLeft(alarm'[x], nticks'))
            = IF x = a THEN n ELSE Remaining[x]
      BY <1>2, <2>5, <2>7, RemainingIs
    <3>3. Remaining' = [x \in Alarms |-> IF x = a THEN n ELSE Remaining[x]]
      BY <3>2, RemainingNext
    <3>4. Remaining' = [Remaining EXCEPT ![a] = n]
      BY <3>3, RemainingIs
    <3> QED
      BY <2>6, <3>1, <3>4 DEF Clock!Start, Clock!Off, n
  <2> QED
    BY <1>1, <2>8, <2>10, <2>11 DEF TimeInv, ClockStep, Clock!Next
<1>7. CASE prog.op = "stop" /\ prog.at = 1 /\ links' = Unlink(links, a)
  <2>1. Ring(links) /\ Linked(links, a) /\ links \in Links
    BY <1>7 DEF FullInv, ListInv, Inserting, Removing, Ring, a
  <2> DEFINE k == Remove(links, a)
  <2>2. Ring(k) /\ Reached(k) = Reached(links) \ {a} /\ k = SelfPoint(links', a)
    BY <1>1, <1>7, <2>1, RemoveRing DEF Remove
  <2>3. links' \in Links
    BY <1>1, <1>7, <2>1, UnlinkIs
  <2>4. \A x \in Nodes \ {a} : links'.next[x] = k.next[x]
    BY <1>1, <2>2, <2>3, SelfPointIs
  <2>5. Reached(k) \in SUBSET Nodes /\ Closed(k, Reached(k)) /\ a \notin Reached(k)
    BY <2>2, ReachedClosed DEF Ring
  <2> HIDE DEF k
  <2>6. Reached(links') = Reached(links) \ {a}
    BY <1>1, <2>2, <2>4, <2>5, ReachedSame
  <2>7. TimesSound'
    BY <1>2, <2>6 DEF TimeInv, TimesSound
  <2>8. Waiting' = {}
    <3>1. Waiting' = {x \in Alarms \cap Reached(links') :
                        TicksLeft(alarm'[x], nticks') = 0 \/ Stale(alarm'[x], nticks')}
      BY DEF Waiting
    <3>2. ASSUME NEW x \in Waiting' PROVE FALSE
      BY <1>2, <1>4, <2>6, <3>1 DEF Waiting
    <3> QED
      BY <3>2
  <2>9. WaitingAhead' /\ DeadlineSet'
    BY <1>1, <1>7, <2>8 DEF WaitingAhead, DeadlineSet
  <2>10. Clock!Stop(a)
    <3>1. \A x \in Alarms :
            (IF x \notin Reached(links') THEN -1 ELSE TicksLeft(alarm'[x], nticks'))
            = IF x = a THEN -1 ELSE Remaining[x]
      BY <1>2, <2>6, RemainingIs
    <3>2. Remaining' = [x \in Alarms |-> IF x = a THEN -1 ELSE Remaining[x]]
      BY <3>1, RemainingNext
    <3>3. Remaining' = [Remaining EXCEPT ![a] = -1]
      BY <3>2, RemainingIs
    <3> QED
      BY <3>3 DEF Clock!Stop, Clock!Off
  <2> QED
    BY <1>1, <2>7, <2>9, <2>10 DEF TimeInv, ClockStep, Clock!Next
<1>8. CASE prog.op = "stop" /\ prog.at = 2 /\ links' = SelfPoint(links, a)
  <2>1. PICK l \in Links : Ring(l) /\ Linked(l, a) /\ links = Unlink(l, a)
    BY <1>8 DEF FullInv, ListInv, Removing, a
  <2>2. links' = Remove(l, a) /\ links \in Links
    BY <1>1, <1>8, <2>1, UnlinkIs DEF Remove
  <2>3. /\ \A x \in Nodes \ {a} : links.next[x] = links'.next[x]
        /\ Ring(links') /\ a \notin Reached(links')
    <3>1. \A x \in Nodes \ {a} : links.next[x] = links'.next[x]
      <4> DEFINE k == SelfPoint(links, a)
      <4>1. \A x \in Nodes : k.next[x] = IF x = a THEN a ELSE links.next[x]
        BY <1>1, <2>2, SelfPointIs
      <4>2. links' = k
        BY <1>8
      <4> HIDE DEF k
      <4> QED
        BY <4>1, <4>2
    <3>2. Ring(Remove(l, a)) /\ Reached(Remove(l, a)) = Reached(l) \ {a}
      BY <1>1, <2>1, RemoveRing
    <3> QED
      BY <2>2, <3>1, <3>2
  <2>4. Reached(links') \in SUBSET Nodes /\ Closed(links', Reached(links'))
    BY <2>3, ReachedClosed DEF Ring
  <2>5. Reached(links) = Reached(links')
    BY <1>1, <2>3, <2>4, ReachedSame
  <2>6. DeadlineSet'
    BY <1>1, <1>8 DEF DeadlineSet
  <2> QED
    BY <1>2, <2>5, <2>6, QuietStep DEF TimeInv, ClockStep
<1> QED
  BY <1>5, <1>6, <1>7, <1>8, RelinkIs DEF a

\* A tick begins when the alarms of the last one have been called; it leaves each
\* alarm one tick less, and all that are due are ahead of alt_tick().
LEMMA DispatchTime ==
  ASSUME FullInv, TimeInv, Dispatch
  PROVE  TimeInv' /\ ClockStep
<1>1. /\ isr = "poll" /\ prog.at = 0 /\ "none" \notin Alarms /\ "poll" \notin Alarms
      /\ isr \notin Alarms /\ Head \notin Alarms
      /\ UNCHANGED <<links, alarm, prog>>
  BY Places DEF Dispatch, FullInv
<1>2. DeadlineSet'
  BY <1>1 DEF DeadlineSet
<1>3. CASE nticks' = nticks /\ isr' = isr
  BY <1>1, <1>2, <1>3, QuietStep DEF TimeInv, ClockStep
<1>4. CASE nticks' = (nticks + 1) % W /\ isr' = Position(links.next[Head])
  <2>1. Waiting = {} /\ nticks \in Ticks /\ alarm \in [Alarms -> Times]
    BY <1>1, NoneWaiting DEF TimeInv, FullInv, Values, Ticks, Times
  <2>2. ASSUME NEW x \in Alarms \cap Reached(links)
        PROVE  /\ TicksLeft(alarm[x], nticks) # 0
               /\ Sound(alarm[x], nticks')
               /\ TicksLeft(alarm[x], nticks') = TicksLeft(alarm[x], nticks) - 1
    <3>1. TicksLeft(alarm[x], nticks) # 0 /\ ~Stale(alarm[x], nticks)
      BY <2>1 DEF Waiting
    <3>2. Sound(alarm[x], nticks) /\ alarm[x] \in Times
      BY <2>1 DEF TimeInv, TimesSound
    <3> QED
      BY <1>4, <2>1, <3>1, <3>2, TickLeft
  <2>3. TimesSound'
    BY <1>1, <2>2 DEF TimesSound
  <2>4. WaitingAhead'
    <3> SUFFICES ASSUME NEW s \in SUBSET Alarms, TailClosed(links, s), isr' \in Alarms => isr' \in s
                 PROVE  Alarms \cap Reached(links) \subseteq s
      BY <1>1 DEF WaitingAhead, Waiting
    <3>1. links.next[Head] \in Alarms \cup {Head}
      <4>1. Ring(links)
        BY <1>1 DEF FullInv, ListInv, Inserting, Removing
      <4>2. links.next[Head] \in Nodes
        BY <4>1, ReachedClosed DEF Ring, Closed
      <4> QED
        BY <4>2 DEF Nodes
    <3>2. links.next[Head] \in s \cup {Head}
      BY <1>1, <1>4, <3>1 DEF Position
    <3>3. s \cup {Head} \in SUBSET Nodes /\ Closed(links, s \cup {Head})
      BY <3>2 DEF Closed, TailClosed, Nodes
    <3>4. Reached(links) \subseteq s \cup {Head}
      BY <3>3, ReachedIs
    <3> QED
      BY <1>1, <3>4
  <2>5. Clock!Tick
    <3>1. \A x \in Alarms : TicksLeft(alarm[x], nticks) \in Int
      BY <2>1, ClockAssumption DEF TicksLeft, Times, Ticks
    <3>2. \A x \in Alarms : Remaining[x] = IF x \notin Reached(links) THEN -1
                                           ELSE TicksLeft(alarm[x], nticks)
      BY RemainingIs
    <3>3. ASSUME NEW x \in Alarms \cap Reached(links)
          PROVE  Remaining[x] # -1
      <4>1. alarm[x] \in Times /\ Sound(alarm[x], nticks)
        BY <2>1 DEF TimeInv, TimesSound
      <4>2. TicksLeft(alarm[x], nticks) >= 0
        BY <2>1, <4>1, ClockAssumption DEF TicksLeft, Sound, Times, Ticks
      <4> QED
        BY <3>1, <3>2, <4>2
    <3>4. \A x \in Alarms : Remaining[x] # 0
      BY <2>2, <3>2
    <3>5. \A x \in Alarms :
            (IF x \notin Reached(links') THEN -1 ELSE TicksLeft(alarm'[x], nticks'))
            = IF Remaining[x] = -1 THEN -1 ELSE Remaining[x] - 1
      BY <1>1, <2>2, <3>2, <3>3
    <3>6. Remaining' = [x \in Alarms |-> IF Remaining[x] = -1 THEN -1 ELSE Remaining[x] - 1]
      BY <3>5, RemainingNext
    <3> QED
      BY <3>4, <3>6 DEF Clock!Tick, Clock!Off
  <2> QED
    BY <1>2, <2>3, <2>4, <2>5 DEF TimeInv, ClockStep, Clock!Next
<1> QED
  BY <1>3, <1>4 DEF Dispatch

\* What the callback of a did before it returned: each alarm that is on the list
\* then has its ticks left as before, or it is the one that was started.
LEMMA EffectLeft ==
  ASSUME FullInv, TimeInv, NEW a \in Alarms, isr = a, NEW e \in CallbackEffects(a)
  PROVE  /\ \A x \in Alarms \cap Reached(e.list) :
              /\ Sound(e.alarm[x], nticks)
              /\ TicksLeft(e.alarm[x], nticks) = 0 \/ Stale(e.alarm[x], nticks) => x \in Waiting
         /\ \E b \in Alarms, other \in {-1, Remaining[a]} \cup 1 .. W - 1 :
              /\ \/ b = a /\ other = Remaining[a]
                 \/ other \in {-1} \cup 1 .. W - 1 /\ (other = -1 \/ Remaining[b] = -1)
              /\ \A x \in Alarms : (IF x \notin Reached(e.list) THEN -1
                                    ELSE TicksLeft(e.alarm[x], nticks))
                                   = IF x = b THEN other ELSE Remaining[x]
<1>1. /\ Ring(links) /\ a \in Reached(links) /\ links \in Links /\ Paired(links)
      /\ nticks \in Ticks /\ alarm \in [Alarms -> Times] /\ W \in Nat /\ W > 2
  BY Places, ClockAssumption DEF FullInv, Values, ListInv, Inserting, Removing, Ring, Ticks, Times
<1>2. \A x \in Alarms : Remaining[x] = IF x \notin Reached(links) THEN -1
                                       ELSE TicksLeft(alarm[x], nticks)
  BY RemainingIs
<1>3. CASE e = [list |-> links, alarm |-> alarm]
  <2>1. e.list = links /\ e.alarm = alarm
    BY <1>3
  <2>2. \A x \in Alarms \cap Reached(e.list) :
          /\ Sound(e.alarm[x], nticks)
          /\ TicksLeft(e.alarm[x], nticks) = 0 \/ Stale(e.alarm[x], nticks) => x \in Waiting
    BY <2>1 DEF TimeInv, TimesSound, Waiting
  <2>3. \A x \in Alarms : (IF x \notin Reached(e.list) THEN -1
                           ELSE TicksLeft(e.alarm[x], nticks))
                          = IF x = a THEN Remaining[a] ELSE Remaining[x]
    BY <1>2, <2>1
  <2> QED
    BY <2>2, <2>3
<1>4. ASSUME NEW b \in Alarms, Linked(links, b),
             e = [list |-> Remove(links, b), alarm |-> alarm]
      PROVE  /\ \A x \in Alarms \cap Reached(e.list) :
                  /\ Sound(e.alarm[x], nticks)
                  /\ TicksLeft(e.alarm[x], nticks) = 0 \/ Stale(e.alarm[x], nticks)
                     => x \in Waiting
             /\ \A x \in Alarms : (IF x \notin Reached(e.list) THEN -1
                                   ELSE TicksLeft(e.alarm[x], nticks))
                                  = IF x = b THEN -1 ELSE Remaining[x]
  <2>1. e.list = Remove(links, b) /\ e.alarm = alarm /\ Reached(e.list) = Reached(links) \ {b}
    BY <1>1, <1>4, RemoveRing
  <2>2. \A x \in Alarms \cap Reached(e.list) :
          /\ Sound(e.alarm[x], nticks)
          /\ TicksLeft(e.alarm[x], nticks) = 0 \/ Stale(e.alarm[x], nticks) => x \in Waiting
    BY <2>1 DEF TimeInv, TimesSound, Waiting
  <2> QED
    BY <1>2, <2>1, <2>2
<1>5. ASSUME NEW b \in Alarms, NEW i \in Intervals, Spare(links, b),
             e = [list |-> Insert(links, b),
                  alarm |-> [alarm EXCEPT ![b] = Deadline(nticks, i + 1)]]
      PROVE  /\ \A x \in Alarms \cap Reached(e.list) :
                  /\ Sound(e.alarm[x], nticks)
                  /\ TicksLeft(e.alarm[x], nticks) = 0 \/ Stale(e.alarm[x], nticks)
                     => x \in Waiting
             /\ i + 1 \in 1 .. W - 1 /\ Remaining[b] = -1
             /\ \A x \in Alarms : (IF x \notin Reached(e.list) THEN -1
                                   ELSE TicksLeft(e.alarm[x], nticks))
                                  = IF x = b THEN i + 1 ELSE Remaining[x]
  <2> DEFINE n == i + 1
             d == Deadline(nticks, n)
  <2>1. /\ e.list = Insert(links, b) /\ e.alarm = [alarm EXCEPT ![b] = d]
        /\ Reached(e.list) = Reached(links) \cup {b} /\ b \notin Reached(links)
    BY <1>1, <1>5, InsertRing, SpareAlone
  <2>2. n \in 1 .. W - 1 /\ n # 0
    <3>1. i \in 0 .. W - 2
      BY ClockAssumption
    <3> QED
      BY <1>1, <3>1
  <2>3. Sound(d, nticks) /\ TicksLeft(d, nticks) = n /\ ~Stale(d, nticks)
    BY <1>1, <2>2, DeadlineLeft
  <2> HIDE DEF d, n
  <2>4. e.alarm[b] = d /\ \A x \in Alarms \ {b} : e.alarm[x] = alarm[x]
    BY <1>1, <2>1
  <2>5. \A x \in Alarms \cap Reached(e.list) :
          /\ Sound(e.alarm[x], nticks)
          /\ TicksLeft(e.alarm[x], nticks) = 0 \/ Stale(e.alarm[x], nticks) => x \in Waiting
    BY <2>1, <2>2, <2>3, <2>4 DEF TimeInv, TimesSound, Waiting
  <2>6. Remaining[b] = -1
    BY <1>2, <2>1
  <2>7. \A x \in Alarms : (IF x \notin Reached(e.list) THEN -1
                           ELSE TicksLeft(e.alarm[x], nticks))
                          = IF x = b THEN n ELSE Remaining[x]
    BY <1>2, <2>1, <2>3, <2>4
  <2> QED
    BY <2>2, <2>5, <2>6, <2>7 DEF n
<1> QED
  BY <1>3, <1>4, <1>5, EffectIs

\* An alarm that is due is called, and what the callback returns is what it has
\* left.
LEMMA CallTime ==
  ASSUME FullInv, TimeInv, NEW a \in Alarms, isr = a, isr' = Position(links.next[a]),
         UNCHANGED <<nticks, prog>>, NEW c \in Times, c.time = nticks, Remaining[a] = 0,
         NEW e \in CallbackEffects(a), NEW r \in Intervals,
         links' = IF r = 0 THEN Remove(e.list, a) ELSE e.list,
         alarm' = IF r = 0 THEN [e.alarm EXCEPT ![a] = c]
                  ELSE [e.alarm EXCEPT ![a] = Deadline(c.time, r)]
  PROVE  TimesSound' /\ WaitingAhead' /\ Clock!Call(a)
<1> DEFINE n == links.next[a]
           d == Deadline(nticks, r)
<1>1. /\ Ring(e.list) /\ e.alarm \in [Alarms -> Times] /\ Linked(e.list, a)
      /\ n # a
  BY EffectRing DEF Times
<1>2. /\ Reached(Remove(e.list, a)) = Reached(e.list) \ {a}
      /\ nticks \in Ticks /\ W \in Nat /\ W > 2
  BY <1>1, RemoveRing, ClockAssumption DEF FullInv, Values, Ticks
<1>3. n \in Alarms \cup {Head} /\ Head \notin Alarms /\ "poll" \notin Alarms
  <2>1. /\ Ring(links) /\ a \in Reached(links)
        /\ Head \notin Alarms /\ "poll" \notin Alarms
    BY Places DEF FullInv, ListInv, Inserting, Removing
  <2>2. n \in Nodes
    BY <2>1, ReachedClosed DEF Ring, Closed
  <2> QED
    BY <2>1, <2>2 DEF Nodes
<1>4. r # 0 => Sound(d, nticks) /\ TicksLeft(d, nticks) = r /\ ~Stale(d, nticks)
  <2>1. ASSUME r # 0 PROVE r \in 1 .. W - 1
    <3>1. r \in 0 .. W - 2
      BY ClockAssumption
    <3> QED
      BY <1>2, <2>1, <3>1
  <2> QED
    BY <1>2, <2>1, DeadlineLeft
<1>5. /\ \A x \in Alarms \ {a} : alarm'[x] = e.alarm[x]
      /\ r # 0 => alarm'[a] = d
      /\ r # 0 => Reached(links') = Reached(e.list)
      /\ r = 0 => Reached(links') = Reached(e.list) \ {a}
  BY <1>1, <1>2
<1> HIDE DEF n, d
<1>6. /\ \A x \in Alarms \cap Reached(e.list) :
           /\ Sound(e.alarm[x], nticks)
           /\ TicksLeft(e.alarm[x], nticks) = 0 \/ Stale(e.alarm[x], nticks) => x \in Waiting
      /\ \E b \in Alarms, other \in {-1, Remaining[a]} \cup 1 .. W - 1 :
           /\ \/ b = a /\ other = Remaining[a]
              \/ other \in {-1} \cup 1 .. W - 1 /\ (other = -1 \/ Remaining[b] = -1)
           /\ \A x \in Alarms : (IF x \notin Reached(e.list) THEN -1
                                 ELSE TicksLeft(e.alarm[x], nticks))
                                = IF x = b THEN other ELSE Remaining[x]
  BY EffectLeft
<1>7. TimesSound'
  <2>1. ASSUME NEW x \in Alarms \cap Reached(links')
        PROVE  Sound(alarm'[x], nticks')
    <3>1. CASE x # a
      BY <1>5, <1>6, <3>1
    <3>2. CASE x = a
      BY <1>4, <1>5, <3>2
    <3> QED
      BY <3>1, <3>2
  <2> QED
    BY <2>1 DEF TimesSound, Sound, Reached
<1>8. ASSUME NEW x \in Waiting'
      PROVE  x \in Waiting /\ x # a /\ x \in Reached(e.list)
  <2>1. /\ x \in Alarms \cap Reached(links')
        /\ TicksLeft(alarm'[x], nticks) = 0 \/ Stale(alarm'[x], nticks)
    BY <1>8 DEF Waiting
  <2>2. x # a
    BY <1>4, <1>5, <2>1
  <2> QED
    BY <1>5, <1>6, <2>1, <2>2
<1>9. WaitingAhead'
  <2> SUFFICES ASSUME NEW s \in SUBSET Alarms, TailClosed(links', s), isr' \in Alarms => isr' \in s
               PROVE  Waiting' \subseteq s
    BY DEF WaitingAhead
  <2>1. n \in s \cup {Head}
    BY <1>3 DEF Position, n
  <2>2. PICK u \in SUBSET Alarms :
          TailClosed(e.list, u) /\ n \in u \cup {Head} /\ u \subseteq s \cup {a}
    <3>1. CASE r # 0
      <4>1. TailClosed(e.list, s)
        BY <3>1
      <4> QED
        BY <2>1, <4>1
    <3>2. CASE r = 0
      <4>1. TailClosed(e.list, s \cup {a}) \/ TailClosed(e.list, s \ {a})
        BY <1>1, <3>2, RemoveTail
      <4>2. s \cup {a} \in SUBSET Alarms /\ s \ {a} \in SUBSET Alarms
        OBVIOUS
      <4> QED
        BY <1>1, <2>1, <4>1, <4>2 DEF n
    <3> QED
      BY <3>1, <3>2
  <2>3. PICK t \in SUBSET Alarms :
          /\ TailClosed(links, t) /\ a \in t
          /\ \A x \in t : x \in Reached(e.list) => x \in u \cup {a}
    BY <2>2, EffectTail DEF n
  <2>4. Waiting \subseteq t
    BY <2>3 DEF TimeInv, WaitingAhead
  <2> QED
    BY <1>8, <2>2, <2>3, <2>4
<1>10. Clock!Call(a)
  <2>1. PICK b \in Alarms, other \in {-1, Remaining[a]} \cup 1 .. W - 1 :
          /\ \/ b = a /\ other = Remaining[a]
             \/ other \in {-1} \cup 1 .. W - 1 /\ (other = -1 \/ Remaining[b] = -1)
          /\ \A x \in Alarms : (IF x \notin Reached(e.list) THEN -1
                                ELSE TicksLeft(e.alarm[x], nticks))
                               = IF x = b THEN other ELSE Remaining[x]
    BY <1>6
  <2> DEFINE back == IF r = 0 THEN -1 ELSE r
             next == [Remaining EXCEPT ![a] = back]
             after == [x \in Alarms |-> IF x \notin Reached(links') THEN -1
                                        ELSE TicksLeft(alarm'[x], nticks')]
  <2>2. Remaining' = after /\ DOMAIN Remaining = Alarms
    BY RemainingNext, RemainingIs
  <2>3. \A x \in Alarms \ {a} : after[x] = IF x = b THEN other ELSE Remaining[x]
    BY <1>5, <2>1
  <2>4. after[a] = IF r # 0 /\ a \in Reached(e.list) THEN r ELSE -1
    BY <1>4, <1>5
  <2>5. r \in 0 .. W - 2 /\ 0 # -1
    BY ClockAssumption
  <2>6. a \notin Reached(e.list) => b = a /\ other = -1
    BY <2>1, <2>5
  <2>7. a \in Reached(e.list) /\ other # Remaining[a] => b # a
    <3> SUFFICES ASSUME a \in Reached(e.list), b = a, other # Remaining[a] PROVE FALSE
      OBVIOUS
    <3>1. TicksLeft(e.alarm[a], nticks) = other /\ other = -1
      BY <2>1, <2>5
    <3>2. Sound(e.alarm[a], nticks) /\ e.alarm[a] \in Times
      BY <1>1, <1>6
    <3>3. TicksLeft(e.alarm[a], nticks) >= 0
      BY <1>2, <3>2 DEF TicksLeft, Sound, Times, Ticks
    <3> QED
      BY <3>1, <3>3
  <2> HIDE DEF after
  <2>8. W - 2 + 1 = W - 1
    BY <1>2
  <2>9. r \in 0 .. W - 2 + 1 /\ Remaining[a] = 0
    BY <1>2, <2>5
  <2>10. CASE b = a /\ other = Remaining[a]
    <3>1. \A x \in Alarms : after[x] = IF x = a THEN back ELSE Remaining[x]
      BY <2>3, <2>4, <2>5, <2>6, <2>10
    <3>2. Remaining' = next
      BY <2>2, <3>1 DEF after
    <3> QED
      BY <2>8, <2>9, <3>2 DEF Clock!Call, Clock!Off
  <2>11. CASE ~(b = a /\ other = Remaining[a])
    <3>1. other \in {-1} \cup 1 .. W - 1 /\ (other = -1 \/ Remaining[b] = -1)
      BY <2>1, <2>5, <2>11
    <3>2. \A x \in Alarms : after[x] = IF x = b THEN other ELSE IF x = a THEN back ELSE Remaining[x]
      BY <2>3, <2>4, <2>5, <2>6, <2>7, <2>11
    <3>3. Remaining' = [next EXCEPT ![b] = other]
      BY <2>2, <3>2 DEF after
    <3>4. other \in {-1} \cup 1 .. W - 2 + 1
      BY <2>8, <3>1
    <3> QED
      BY <2>8, <2>9, <3>1, <3>3, <3>4 DEF Clock!Call, Clock!Off
  <2> QED
    BY <2>10, <2>11
<1> QED
  BY <1>7, <1>9, <1>10

\* alt_tick() passes an alarm that is not due, whose flag it may clear.
LEMMA PassTime ==
  ASSUME FullInv, TimeInv, NEW a \in Alarms, isr = a, isr' = Position(links.next[a]),
         UNCHANGED <<nticks, links, prog>>, NEW c \in Times, alarm' = [alarm EXCEPT ![a] = c],
         Sound(c, nticks), ~Stale(c, nticks), TicksLeft(c, nticks) = TicksLeft(alarm[a], nticks),
         TicksLeft(c, nticks) # 0
  PROVE  TimesSound' /\ WaitingAhead' /\ Remaining' = Remaining
<1>1. /\ Reached(links') = Reached(links)
      /\ alarm \in [Alarms -> Times]
      /\ alarm'[a] = c /\ \A x \in Alarms \ {a} : alarm'[x] = alarm[x]
  BY DEF FullInv, Values, Times
<1>2. links.next[a] \in Alarms \cup {Head}
  <2>1. Ring(links) /\ a \in Reached(links)
    BY Places DEF FullInv, ListInv, Inserting, Removing
  <2>2. links.next[a] \in Nodes
    BY <2>1, ReachedClosed DEF Ring, Closed
  <2> QED
    BY <2>2 DEF Nodes
<1>3. TimesSound'
  <2>1. \A x \in Alarms \cap Reached(links') : Sound(alarm'[x], nticks')
    BY <1>1 DEF TimeInv, TimesSound
  <2> QED
    BY <2>1 DEF TimesSound, Sound, Reached
<1>4. ASSUME NEW x \in Waiting'
      PROVE  x \in Waiting /\ x # a
  <2>1. /\ x \in Alarms \cap Reached(links')
        /\ TicksLeft(alarm'[x], nticks) = 0 \/ Stale(alarm'[x], nticks)
    BY <1>4 DEF Waiting
  <2>2. x # a
    BY <1>1, <2>1
  <2> QED
    BY <1>1, <2>1, <2>2 DEF Waiting
<1>5. WaitingAhead'
  <2> SUFFICES ASSUME NEW s \in SUBSET Alarms, TailClosed(links', s), isr' \in Alarms => isr' \in s
               PROVE  Waiting' \subseteq s
    BY DEF WaitingAhead
  <2>1. links.next[a] \in s \cup {Head}
    BY <1>2, Places DEF Position, FullInv
  <2>2. TailClosed(links, s \cup {a}) /\ s \cup {a} \in SUBSET Alarms
    BY <2>1 DEF TailClosed
  <2>3. Waiting \subseteq s \cup {a}
    BY <2>2 DEF TimeInv, WaitingAhead
  <2> QED
    BY <1>4, <2>3
<1>6. Remaining' = Remaining
  <2>1. \A x \in Alarms : (IF x \notin Reached(links') THEN -1 ELSE TicksLeft(alarm'[x], nticks'))
                          = (IF x \notin Reached(links) THEN -1 ELSE TicksLeft(alarm[x], nticks))
    BY <1>1
  <2> QED
    BY <2>1, RemainingNext, RemainingIs, Zenon
<1> QED
  BY <1>3, <1>5, <1>6

\* One pass of the loop calls the alarm, if it is due, or leaves it as it is.
LEMMA VisitTime ==
  ASSUME FullInv, TimeInv, NEW a \in Alarms, Visit(a)
  PROVE  TimeInv' /\ ClockStep
<1> DEFINE c == IF nticks = 0 THEN [alarm[a] EXCEPT !.rollover = FALSE] ELSE alarm[a]
<1>1. /\ isr = a /\ isr' = Position(links.next[a]) /\ UNCHANGED <<nticks, prog>>
      /\ prog.at = 0 /\ isr \in Alarms
  BY Places DEF Visit, Successor, FullInv
<1>2. a \in Reached(links) /\ alarm[a] \in Times /\ nticks \in Ticks
  BY <1>1 DEF FullInv, ListInv, Values, Times, Ticks
<1>3. Sound(alarm[a], nticks)
  BY <1>2 DEF TimeInv, TimesSound
<1>4. /\ c \in Times /\ Sound(c, nticks) /\ ~Stale(c, nticks)
      /\ TicksLeft(c, nticks) = TicksLeft(alarm[a], nticks)
      /\ (c.time <= nticks /\ ~c.rollover) <=> TicksLeft(alarm[a], nticks) = 0
      /\ TicksLeft(alarm[a], nticks) = 0 => c.time = nticks
  BY <1>2, <1>3, ClearedLeft
<1>5. \/ c.time <= nticks /\ ~c.rollover /\ MakeCallback(a, c)
      \/ ~(c.time <= nticks /\ ~c.rollover) /\ alarm' = [alarm EXCEPT ![a] = c] /\ links' = links
  BY DEF Visit
<1> HIDE DEF c
<1>6. DeadlineSet'
  BY <1>1 DEF DeadlineSet
<1>7. CASE c.time <= nticks /\ ~c.rollover /\ MakeCallback(a, c)
  <2>1. Remaining[a] = 0 /\ c.time = nticks
    BY <1>2, <1>4, <1>7, RemainingIs
  <2>2. PICK e \in CallbackEffects(a), r \in Intervals :
          /\ links' = IF r = 0 THEN Remove(e.list, a) ELSE e.list
          /\ alarm' = IF r = 0 THEN [e.alarm EXCEPT ![a] = c]
                      ELSE [e.alarm EXCEPT ![a] = Deadline(c.time, r)]
    BY <1>7 DEF MakeCallback
  <2>3. TimesSound' /\ WaitingAhead' /\ Clock!Call(a)
    BY <1>1, <1>4, <2>1, <2>2, CallTime
  <2> QED
    BY <1>6, <2>3 DEF TimeInv, ClockStep, Clock!Next
<1>8. CASE ~(c.time <= nticks /\ ~c.rollover) /\ alarm' = [alarm EXCEPT ![a] = c] /\ links' = links
  <2>1. TimesSound' /\ WaitingAhead' /\ Remaining' = Remaining
    BY <1>1, <1>4, <1>8, PassTime
  <2> QED
    BY <1>6, <2>1 DEF TimeInv, ClockStep
<1> QED
  BY <1>5, <1>7, <1>8

\* Every step keeps the times, and is one of AlarmClock, or not seen by it.
LEMMA NextTime == FullInv /\ TimeInv /\ [Next]_vars => TimeInv' /\ [Clock!Next]_Remaining
<1> SUFFICES ASSUME FullInv, TimeInv, [Next]_vars PROVE TimeInv' /\ ClockStep
  BY DEF ClockStep
<1> QED
  BY ProgramTime, RelinkTime, InterruptTime, DispatchTime, VisitTime DEF Next, Program

\* Each alarm is called in the tick that follows the whole ticks it was started
\* for, then every so many ticks as its callback returned, until it is stopped or
\* the callback returns 0; no tick comes before all that are due have been called
\* (alt_tick(), L75-119 of alt_tick.c): the ring, the counter that wraps and the
\* rollover flag implement AlarmClock, whatever the program and the callbacks
\* start and stop, and wherever the interrupts fall.
THEOREM ClockImplements == Spec => ImplementsAlarmClock
<1>1. Init => Clock!Init
  BY InitTime
<1>2. FullInv /\ TimeInv /\ [Next]_vars => FullInv' /\ TimeInv' /\ [Clock!Next]_Remaining
  BY NextFull, NextTime
<1>3. Init => FullInv /\ TimeInv
  BY InitFull, InitTime
<1> QED
  BY <1>1, <1>2, <1>3, PTL DEF Spec, ImplementsAlarmClock, Clock!Spec
=============================================================================
