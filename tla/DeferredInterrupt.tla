-------------------------- MODULE DeferredInterrupt --------------------------
(***************************************************************************)
(* ex4/.../main.c: the tester pulls a test pin low, the interrupt handler  *)
(* sets the pin's flag, and the loop of main, which polls the flags in     *)
(* turn, pulls the response pin low and high again and clears the flag.    *)
(*                                                                         *)
(* The mode that main passes to gpio_enable_pin_interrupt is 2, a falling  *)
(* edge.  An edge is what the GPIO has latched in the interrupt flag of    *)
(* the pin; the handler is then taken before the next instruction of main. *)
(* The handler is one step: an edge that arrives while it executes merges  *)
(* with the one it is about to clear, or makes the GPIO interrupt again.   *)
(***************************************************************************)
EXTENDS Integers

CONSTANT N   (* the number of pins; three, A to C, in the code *)

ASSUME NAssumption == N \in Nat \ {0}

Pins == 1..N

VARIABLES ifr,     (* the interrupt flag of each test pin                  *)
          FLAG,    (* FLAG_A, FLAG_B, FLAG_C                               *)
          pc, pin, (* what main does next, and for which pin               *)
          owed,    (* an edge has not been followed by a response yet      *)
          late     (* the last edge came while main was answering another  *)

vars == <<ifr, FLAG, pc, pin, owed, late>>

Init ==
  /\ ifr  = [p \in Pins |-> FALSE]
  /\ FLAG = [p \in Pins |-> FALSE]
  /\ pc   = "test"
  /\ pin  = 1
  /\ owed = [p \in Pins |-> FALSE]
  /\ late = [p \in Pins |-> FALSE]

-----------------------------------------------------------------------------
\* main has answered p and will clear its flag.
Answering(p) == pin = p /\ pc \in {"high", "clear"}

\* The tester waits for the response, and tries again if none is to come.
Edge(p) ==
  /\ owed[p] => ~ifr[p] /\ ~FLAG[p]
  /\ ifr'  = [ifr EXCEPT ![p] = TRUE]
  /\ owed' = [owed EXCEPT ![p] = TRUE]
  /\ late' = [late EXCEPT ![p] = Answering(p)]
  /\ UNCHANGED <<FLAG, pc, pin>>

\* Plausible bug: all interrupt flags are cleared.
interrupt_J3_ClearAll(p) ==
  /\ ifr[p]
  /\ \A q \in Pins : q < p => ~ifr[q]
  /\ ifr'  = [q \in Pins |-> FALSE]
  /\ FLAG' = [FLAG EXCEPT ![p] = TRUE]
  /\ UNCHANGED <<pc, pin, owed, late>>

\* Plausible bug: the interrupt flag is not cleared.
interrupt_J3_Keep(p) ==
  /\ ifr[p]
  /\ \A q \in Pins : q < p => ~ifr[q]
  /\ FLAG' = [FLAG EXCEPT ![p] = TRUE]
  /\ UNCHANGED <<ifr, pc, pin, owed, late>>

\* The handler serves the first pin whose interrupt flag is set.
interrupt_J3(p) ==
  /\ ifr[p]
  /\ \A q \in Pins : q < p => ~ifr[q]
  /\ ifr'  = [ifr EXCEPT ![p] = FALSE]
  /\ FLAG' = [FLAG EXCEPT ![p] = TRUE]
  /\ UNCHANGED <<pc, pin, owed, late>>

\* main executes when the handler has nothing to do.
NoInterrupt == \A p \in Pins : ~ifr[p]

NextPin == IF pin = N THEN 1 ELSE pin + 1

\* if (FLAG_A)
Test ==
  /\ NoInterrupt
  /\ pc = "test"
  /\ IF FLAG[pin] THEN pc' = "low" /\ UNCHANGED pin
                  ELSE pin' = NextPin /\ UNCHANGED pc
  /\ UNCHANGED <<ifr, FLAG, owed, late>>

\* gpio_set_pin_low: this is the response the tester waits for.
SetLow ==
  /\ NoInterrupt
  /\ pc = "low"
  /\ pc'   = "high"
  /\ owed' = [owed EXCEPT ![pin] = FALSE]
  /\ late' = [late EXCEPT ![pin] = FALSE]
  /\ UNCHANGED <<ifr, FLAG, pin>>

\* gpio_set_pin_high, after the delay
SetHigh ==
  /\ NoInterrupt
  /\ pc = "high"
  /\ pc' = "clear"
  /\ UNCHANGED <<ifr, FLAG, pin, owed, late>>

\* Plausible bug: the flag is not cleared, and the pin is answered again.
Clear_Keep ==
  /\ NoInterrupt
  /\ pc = "clear"
  /\ pc'  = "test"
  /\ pin' = NextPin
  /\ UNCHANGED <<ifr, FLAG, owed, late>>

\* FLAG_A = 0
Clear ==
  /\ NoInterrupt
  /\ pc = "clear"
  /\ FLAG' = [FLAG EXCEPT ![pin] = FALSE]
  /\ pc'   = "test"
  /\ pin'  = NextPin
  /\ UNCHANGED <<ifr, owed, late>>

Handler == \E p \in Pins : interrupt_J3(p)

Loop == Test \/ SetLow \/ SetHigh \/ Clear

Next == Handler \/ Loop \/ \E p \in Pins : Edge(p)

\* The processor does not stop; the tester may.
Spec == Init /\ [][Next]_vars /\ WF_vars(Handler \/ Loop)

-----------------------------------------------------------------------------
\* The values in range.
TypeOK ==
  /\ ifr  \in [Pins -> BOOLEAN]
  /\ FLAG \in [Pins -> BOOLEAN]
  /\ pc   \in {"test", "low", "high", "clear"}
  /\ pin  \in Pins
  /\ owed \in [Pins -> BOOLEAN]
  /\ late \in [Pins -> BOOLEAN]

\* An edge is forgotten, without a response, only if it has come between the
\* response to an earlier one and the reset of the flag (lines 86 to 89):
\* neither a handler that serves one pin at a time nor the other pins' answers
\* can lose it.
LostOnlyIfLate ==
  \A p \in Pins : owed[p] => ifr[p] \/ FLAG[p] \/ late[p]

\* Every response answers an edge: a flag that main is going to answer is set
\* for an edge that has not been answered.
NoPhantomResponse ==
  \A p \in Pins : (ifr[p] \/ FLAG[p]) /\ ~Answering(p) => owed[p]

\* Every edge that is not late is answered, although the handler prefers pin A
\* and the loop is held up by all pins.
EdgesAnswered == \A p \in Pins : owed[p] /\ ~late[p] ~> ~owed[p]

=============================================================================
