----------------------------- MODULE AlarmClock -----------------------------
(***************************************************************************)
(* What the alarms of the HAL promise: an alarm started for n ticks is     *)
(* called in the tick that follows n whole ones, neither earlier nor       *)
(* later, and from then on every r ticks, where r is what its callback     *)
(* returned.  A tick does not begin before the alarms that the last one    *)
(* made due have been called.                                              *)
(***************************************************************************)
EXTENDS Integers

CONSTANTS Alarms, MaxTicks

VARIABLE remaining   \* ticks until the alarm is called, Off if it is not set

Off == -1

Init == remaining = [a \in Alarms |-> Off]

Start(a) ==
  /\ remaining[a] = Off
  /\ \E n \in 0 .. MaxTicks : remaining' = [remaining EXCEPT ![a] = n + 1]

Stop(a) == remaining' = [remaining EXCEPT ![a] = Off]

Tick ==
  /\ \A a \in Alarms : remaining[a] # 0
  /\ remaining' = [a \in Alarms |-> IF remaining[a] = Off THEN Off ELSE remaining[a] - 1]

\* The callback of a is made.  It may start or stop another alarm before it
\* returns r; with r = 0, or if it stops a, the alarm is off.
Call(a) ==
  /\ remaining[a] = 0
  /\ \E r \in 0 .. MaxTicks + 1 : \E b \in Alarms : \E other \in {Off} \cup 1 .. MaxTicks + 1 :
       LET next == [remaining EXCEPT ![a] = IF r = 0 THEN Off ELSE r]
       IN  \/ remaining' = next
           \/ /\ other = Off \/ remaining[b] = Off
              /\ remaining' = [next EXCEPT ![b] = other]

Next == Tick \/ \E a \in Alarms : Start(a) \/ Stop(a) \/ Call(a)

Spec == Init /\ [][Next]_remaining
=============================================================================
