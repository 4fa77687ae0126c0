---------------------------- MODULE TickArithmetic ----------------------------
(***************************************************************************)
(* The comparisons FreeRTOS makes of the tick counter, which wraps, with a *)
(* time that was computed or read earlier: what vTaskDelayUntil and        *)
(* xTaskCheckForTimeOut decide, as functions of the counter values alone.  *)
(***************************************************************************)
EXTENDS Integers

\* Plausible bug: the wrap of the wake time alone is not considered.
ShouldDelay_NoWrap(last, toWake, tick) == toWake > tick

\* vTaskDelayUntil: whether the wake time toWake, computed from last, is to come.
ShouldDelay(last, toWake, tick) ==
  IF tick < last THEN toWake < last /\ toWake > tick
                 ELSE toWake < last \/ toWake > tick

\* The counter values from entering to tick, when the counter has N values.
Elapsed(entering, tick, N) == (tick - entering) % N

\* Plausible bug: any overflow of the counter is taken for a whole turn.
TimedOut_AnyOverflow(overflowed, entering, tick, wait, N) ==
  overflowed \/ Elapsed(entering, tick, N) >= wait

\* xTaskCheckForTimeOut: whether wait ticks have passed since the counter was at
\* entering; overflowed says that it has wrapped since.
TimedOut(overflowed, entering, tick, wait, N) ==
  \/ overflowed /\ tick >= entering
  \/ Elapsed(entering, tick, N) >= wait
=============================================================================
