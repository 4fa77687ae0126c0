----------------------------- MODULE ResponseTasks -----------------------------
(***************************************************************************)
(* ex5/.../main.c: three tasks under FreeRTOS, each of which waits for the *)
(* tester to pull its test pin low, and answers with its response pin.     *)
(* main starts responseTaskE, which sleeps for a tick between two looks at *)
(* the pin; responseTask and responseTaskC, which the file has from the    *)
(* parts of the exercise before, look all the time.                        *)
(*                                                                         *)
(* Time is what the tick interrupt counts.  A tick comes while the         *)
(* processor is busy waiting, looks at a pin that waits for no response,   *)
(* or is idle.                                                             *)
(* All other code takes little time, so that at most one tick comes before *)
(* the processor is back in such a place; but it may come anywhere.        *)
(***************************************************************************)
EXTENDS FreeRTOSKernel

CONSTANTS Setups,     (* the functions that main may start, and priorities *)
          MaxDue      (* a signal that has waited longer is not told apart *)

VARIABLES setup,      (* which function, and whether all priorities are 1  *)
          k,          (* the data of the kernel                            *)
          pc,         (* where each task is in its function                *)
          call,       (* how far each task is in vTaskDelay, or "none"     *)
          spent,      (* the ticks of the busy waiting so far              *)
          low,        (* the test pins that the tester holds low           *)
          due,        (* history: the ticks since an unanswered signal     *)
          struck      (* a tick has come where little time passes          *)

vars == <<setup, k, pc, call, spent, low, due, struck>>

NoSignal == -1

Responders == Task \ {Idle}

\* What main passes to xTaskCreate.
MainPriority == [t \in Responders |-> IF t = "C" THEN 1 ELSE 2]
Milliseconds == [t \in Responders |-> IF t = "C" THEN 3 ELSE 0]

\* Plausible bug: the slow task has the highest priority.
Priority_Swapped(t) == IF setup.equal THEN 1 ELSE 3 - MainPriority[t]

Priority(t) == IF setup.equal THEN 1 ELSE MainPriority[t]

Init ==
  /\ setup \in Setups
  /\ k = Started(FoldLeft(LAMBDA k1, t : CreateBeforeStart(k1, t, Priority(t)),
                          Kernel0, <<"A", "B", "C">>))
  /\ pc    = [t \in Responders |-> "test"]
  /\ call  = [t \in Responders |-> "none"]
  /\ spent = [t \in Responders |-> 0]
  /\ low   = {} /\ due = [t \in Responders |-> NoSignal]
  /\ struck = FALSE

-----------------------------------------------------------------------------
Polls == setup.fn # "responseTaskE"

At(t, l) == k.current = t /\ call[t] = "none" /\ pc[t] = l

\* vTaskDelay(1), up to xTaskResumeAll; the function goes on at l.
Delays(t, l) ==
  /\ k'    = DelayCurrent(vTaskSuspendAll(k), (k.tick + 1) % Ticks)
  /\ pc'   = [pc EXCEPT ![t] = l]
  /\ call' = [call EXCEPT ![t] = "resume"]

GoesOn(t, l) == pc' = [pc EXCEPT ![t] = l] /\ UNCHANGED <<k, call>>

\* gpio_pin_is_low: what follows if it is, and if it is not.
Answers(t) ==
  /\ At(t, "test") /\ t \in low
  /\ GoesOn(t, IF setup.fn = "responseTask" THEN "low" ELSE "busy")
  /\ UNCHANGED <<spent, due>>

Waits(t) ==
  /\ At(t, "test") /\ t \notin low /\ ~Polls
  /\ Delays(t, "test")
  /\ UNCHANGED <<spent, due>>

\* The end of busy_delay_ms.
BusyNoMore(t) ==
  /\ At(t, "busy") /\ spent[t] >= Milliseconds[t]
  /\ GoesOn(t, "low")
  /\ spent' = [spent EXCEPT ![t] = 0]
  /\ UNCHANGED due

\* gpio_set_pin_low, and the pause after it
SetLow(t) ==
  /\ At(t, "low")
  /\ due' = [due EXCEPT ![t] = NoSignal]
  /\ IF setup.fn = "responseTask" THEN GoesOn(t, "high") ELSE Delays(t, "high")
  /\ UNCHANGED spent

\* gpio_set_pin_high
SetHigh(t) ==
  /\ At(t, "high") /\ GoesOn(t, "test")
  /\ UNCHANGED <<spent, due>>

\* The end of vTaskDelay: xTaskResumeAll, and a yield if that did not.
ResumesAll(t) ==
  /\ k.current = t /\ call[t] = "resume"
  /\ k'    = xTaskResumeAll(k)
  /\ call' = [call EXCEPT ![t] = IF AlreadyYielded(k) THEN "none" ELSE "yield"]
  /\ UNCHANGED <<pc, spent, due>>

Yields(t) ==
  /\ k.current = t /\ call[t] = "yield"
  /\ k'    = vTaskSwitchContext(k)
  /\ call' = [call EXCEPT ![t] = "none"]
  /\ UNCHANGED <<pc, spent, due>>

\* Time passes where the processor is.
TimePasses ==
  \/ k.current = Idle
  \/ \E t \in Responders : \/ At(t, "busy") /\ Milliseconds[t] > 0 /\ spent[t] <= Milliseconds[t]
                           \/ At(t, "test") /\ due[t] = NoSignal /\ Polls

Step(t) ==
  /\ Answers(t) \/ Waits(t) \/ BusyNoMore(t) \/ SetLow(t) \/ SetHigh(t)
     \/ ResumesAll(t) \/ Yields(t)
  /\ UNCHANGED <<setup, low>>
  /\ struck' = (struck /\ ~TimePasses')

-----------------------------------------------------------------------------
\* The tick interrupt.  A busy waiting sees one tick for each millisecond, and
\* one more for the time that tasks of higher priority take in between.
vTick ==
  /\ TimePasses \/ ~struck
  /\ k' = vTaskSwitchContext(vTaskIncrementTick(k))
  /\ spent' = [t \in Responders |-> IF At(t, "busy") /\ TimePasses THEN spent[t] + 1 ELSE spent[t]]
  /\ due' = [t \in Responders |->
               IF due[t] = NoSignal \/ Polls \/ due[t] = MaxDue THEN due[t] ELSE due[t] + 1]
  /\ UNCHANGED <<setup, pc, call, low>>
  /\ struck' = ~TimePasses'

\* The tester, which releases the test pin some time after the response.
Signal(t) ==
  /\ t \notin low /\ pc[t] # "high"
  /\ low' = low \cup {t} /\ due' = [due EXCEPT ![t] = 0]
  /\ UNCHANGED <<setup, k, pc, call, spent, struck>>

Release(t) ==
  /\ t \in low /\ due[t] = NoSignal
  /\ low' = low \ {t}
  /\ UNCHANGED <<setup, k, pc, call, spent, due, struck>>

Tester == \E t \in Responders : Signal(t) \/ Release(t)

Steps == \E t \in Responders : Step(t)

Next == Steps \/ vTick \/ Tester

\* When a task, and when the tick interrupt, can go on.
CanStep(t) ==
  /\ k.current = t
  /\ At(t, "busy") => spent[t] >= Milliseconds[t]
  /\ At(t, "test") => t \in low \/ ~Polls

CanTick == TimePasses \/ ~struck

\* A task that gets the processor again and again goes on, however soon the
\* next tick takes it away, and time goes on: strong and weak fairness, written
\* out.  Only steps of a task change where it is.
Fairness ==
  /\ \A t \in Responders : <>[]~CanStep(t) \/ []<><<TRUE>>_<<pc[t], call[t]>>
  /\ []<>~CanTick \/ []<><<vTick>>_vars

Spec == Init /\ [][Next]_vars /\ Fairness

-----------------------------------------------------------------------------
\* The ticks within which t answers: one until it looks, those of its own busy
\* waiting and one more, and those of two turns of the slow task if that is not below.
Deadline(t) ==
  1 + (IF Milliseconds[t] > 0 THEN Milliseconds[t] + 1 ELSE IF setup.equal THEN 2 ELSE 0)

\* responseTaskE answers every signal in time: the sleeping tasks give way to
\* the slow one in between, and its busy waiting delays them only if it has their
\* priority.
InTime == ~Polls => \A t \in Responders : due[t] <= Deadline(t)

Starved(t) == Polls /\ \E u \in Responders : Priority(u) > Priority(t)

\* Every signal is answered, even by tasks that never sleep and share a priority,
\* unless a task of higher priority looks at its pin all the time.
SignalsAnswered == \A t \in Responders : due[t] >= 0 /\ ~Starved(t) ~> due[t] = NoSignal
=============================================================================
