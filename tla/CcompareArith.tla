--------------------------- MODULE CcompareArith ---------------------------
(***************************************************************************)
(* update_ccompare (components/esp32s2beta/pm_esp32s2beta.c, 412-425) in   *)
(* unsigned arithmetic of Width bits: CCOUNT, CCOMPARE and the products    *)
(* are uint32_t, so every operation is taken modulo 2^Width.  TLC's        *)
(* integers end at 2^31 - 1, so the runs use Width = 30: the counter wraps *)
(* and the half-range test flips at the same relative points, and no       *)
(* product of the inputs below reaches 2^30, so each result is the 32-bit  *)
(* one shifted by where the wrap lies.  The                                *)
(* operator is checked against a reference definition in mathematical      *)
(* integers: a compare value a signed distance d ahead of the counter is   *)
(* moved to ceil(d * new / old) cycles ahead when it is at least           *)
(* CCOMPARE_MIN_CYCLES_IN_FUTURE ahead and the result is under one tick.   *)
(* One call is one step; the inputs are the boundary cases of the counter  *)
(* and of the distance for every pair of clock rates.                      *)
(***************************************************************************)
EXTENDS Integers

CONSTANTS
  Width,            \* bits of CCOUNT/CCOMPARE arithmetic (32 in the code)
  XT_TICK_PER_SEC,  \* CONFIG_FREERTOS_HZ
  TicksPerUs        \* the CCOUNT rates (ticks per microsecond) of the modes

UINT32 == 2^Width
UINT32_MAX == UINT32 - 1

(* pm_esp32s2beta.c line 47. *)
CCOMPARE_MIN_CYCLES_IN_FUTURE == 1000

(* on_freq_update (line 311): the tick period in CCOUNT cycles. *)
TickDivisor(ticks_per_us) == (ticks_per_us * 1000000) \div XT_TICK_PER_SEC

(* Unsigned 32-bit arithmetic of C. *)
U32(x) == x % UINT32

VARIABLES ccount, ccompare, s_ccount_div, s_ccount_mul, done
vars == <<ccount, ccompare, s_ccount_div, s_ccount_mul, done>>

(* CCOUNT values at the ends and the middle of the range. *)
Counts == {0, 2^(Width - 1) - 1, UINT32_MAX}

(* Signed distances from CCOUNT to CCOMPARE a core can see when a switch   *)
(* starts: already due, just under and over the minimum, and up to one     *)
(* tick period at the old rate (the tick handler keeps CCOMPARE at most    *)
(* one period ahead).                                                       *)
Distances(old) ==
  {-1000, -1, 0, 1, 999, 1000, 1001, 1234, TickDivisor(old) - 1, TickDivisor(old)}

Init ==
  /\ s_ccount_div \in TicksPerUs
  /\ s_ccount_mul \in TicksPerUs \ {s_ccount_div}
  /\ ccount \in Counts
  /\ ccompare \in {U32(ccount + d) : d \in Distances(s_ccount_div)}
  /\ done = FALSE

(* Fault: the rounding term s_ccount_div - 1 is left out (floor).          *)
UpdateCcompareFloor(cnt, cmp, div, mul) ==
  IF U32(U32(cmp - CCOMPARE_MIN_CYCLES_IN_FUTURE) - cnt) < UINT32_MAX \div 2
    THEN LET diff == U32(cmp - cnt)
             diff_scaled == U32(diff * mul) \div div
         IN IF diff_scaled < TickDivisor(mul) THEN U32(cnt + diff_scaled) ELSE cmp
    ELSE cmp

(* update_ccompare (lines 412-425): the CCOMPARE value the routine leaves. *)
UpdateCcompare(cnt, cmp, div, mul) ==
  IF U32(U32(cmp - CCOMPARE_MIN_CYCLES_IN_FUTURE) - cnt) < UINT32_MAX \div 2
    THEN LET diff == U32(cmp - cnt)
             diff_scaled == U32(U32(diff * mul) + div - 1) \div div
         IN IF diff_scaled < TickDivisor(mul) THEN U32(cnt + diff_scaled) ELSE cmp
    ELSE cmp

(* The ISR hook or on_freq_update runs update_ccompare once. *)
Update ==
  /\ ~done
  /\ ccompare' = UpdateCcompare(ccount, ccompare, s_ccount_div, s_ccount_mul)
  /\ done' = TRUE
  /\ UNCHANGED <<ccount, s_ccount_div, s_ccount_mul>>

(* Once the routine has returned the inputs are fixed. *)
Returned == done /\ UNCHANGED vars

Next == Update \/ Returned

Spec == Init /\ [][Next]_vars

-----------------------------------------------------------------------------
(* Reference definitions, in mathematical integers. *)

(* The distance from a to b on the circle of 2^Width counter values. *)
SignedDist(a, b) ==
  LET u == U32(b - a) IN IF u < 2^(Width - 1) THEN u ELSE u - UINT32

CeilDiv(a, b) == IF a % b = 0 THEN a \div b ELSE a \div b + 1

(* The compare value re-aimed at the same instant at the new rate, when it *)
(* lies at least the minimum ahead and the rescaled distance is under one  *)
(* tick period; otherwise the old value.                                   *)
Rescaled(cnt, cmp, div, mul, min) ==
  LET d == SignedDist(cnt, cmp)
      scaled == CeilDiv(d * mul, div)
  IN IF d >= min /\ scaled < TickDivisor(mul) THEN U32(cnt + scaled) ELSE cmp

-----------------------------------------------------------------------------
(* Properties *)

(* After update_ccompare returns, CCOMPARE is what the reference gives for *)
(* the CCOUNT and the pre-call CCOMPARE: the wrapped subtraction, the      *)
(* half-range "in the future" test, the 32-bit product and the ceiling     *)
(* division together re-aim the timer at the same instant, also when the   *)
(* counter wraps between now and the compare value.                        *)
RescaleMatchesReference ==
  [][Update => ccompare' = Rescaled(ccount, ccompare, s_ccount_div,
                                    s_ccount_mul, CCOMPARE_MIN_CYCLES_IN_FUTURE)]_vars
=============================================================================
