----------------------------- MODULE TimeOfDay -----------------------------
(***************************************************************************)
(* The time of day that the HAL derives from the tick counter              *)
(* (alt_gettod.c, alt_settod.c): what is kept is the time of tick 0.       *)
(* Unsigned arithmetic wraps at W, but for one product in alt_gettod.c.    *)
(***************************************************************************)
EXTENDS Integers

CONSTANTS
  W,      \* 2^32
  US,     \* ALT_US, a million
  Rate    \* alt_ticks_per_second()

Times == [sec : 0 .. W - 1, usec : 0 .. US - 1]

\* The two while loops: microseconds below 0, which stop at second 0, and
\* microseconds above a second.
Normalised(t) ==
  LET carry == t.usec \div US
  IN  IF t.usec < 0 /\ t.sec + carry < 0 THEN [sec |-> 0, usec |-> 0]
      ELSE [sec |-> t.sec + carry, usec |-> t.usec % US]

\* In 64 bits.
GetTimeOfDay(reset, nticks) ==
  Normalised([sec  |-> reset.sec + (nticks \div Rate),
              usec |-> reset.usec + ((nticks * (US \div Rate)) % US)])

\* In 32 bits: the product wraps.
SetTimeOfDay(t, nticks) ==
  [sec  |-> t.sec - (nticks \div Rate),
   usec |-> t.usec - (((nticks * (US \div Rate)) % W) % US)]
=============================================================================
