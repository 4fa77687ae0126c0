-------------------------- MODULE PriorityInversion --------------------------
(***************************************************************************)
(* ex8/taskB/main.c: three tasks, of which the highest and the lowest      *)
(* share a semaphore, and the main task that releases them together,       *)
(* waits and deletes the semaphores.  The semaphore lends no priority, so  *)
(* the middle task may run while the highest one waits for the lowest.     *)
(* sem_lock is created S_FIFO; it never has more than one waiter.          *)
(***************************************************************************)
EXTENDS Integers, Sequences

VARIABLES ip, state, base, count, owner, deleted, exited

Tasks == {"high", "med", "low", "main"}

Priority == [high |-> 69, med |-> 49, low |-> 19, main |-> 99]

\* Plausible bug: the lock is created like sem_init, with no unit.
Count_NoUnit == [sem_lock |-> 0, sem_init |-> 0]

\* rt_sem_create
Count == [sem_lock |-> 1, sem_init |-> 0]

spin == <<"spin", "">>

task_high == << <<"sem_p", "sem_init">>, <<"sleep", "">>,
                <<"sem_p", "sem_lock">>, spin, spin, <<"sem_v", "sem_lock">>,
                <<"end", "">> >>

task_med == << <<"sem_p", "sem_init">>, <<"sleep", "">>,
               spin, spin, spin, spin, spin, <<"end", "">> >>

task_low == << <<"sem_p", "sem_init">>,
               <<"sem_p", "sem_lock">>, spin, spin, spin, <<"sem_v", "sem_lock">>,
               <<"end", "">> >>

main == << <<"start", "high">>, <<"start", "med">>, <<"start", "low">>,
           <<"longsleep", "">>, <<"sem_broadcast", "sem_init">>,
           <<"longsleep", "">>,
           <<"delete", "sem_init">>, <<"delete", "sem_lock">>, <<"exit", "">> >>

Program ==
  [high |-> task_high, med |-> task_med, low |-> task_low, main |-> main]

INSTANCE XenoKernel WITH Mutexes <- {}

-----------------------------------------------------------------------------
Inside(t) == Between(t, <<"sem_p", "sem_lock">>, <<"sem_v", "sem_lock">>)

\* The unit of sem_lock is never lost or doubled by the hand-over to a waiter:
\* either it is free, or exactly one task is inside.
OneUnit ==
  /\ count["sem_lock"] = IF Inside("high") \/ Inside("low") THEN 0 ELSE 1
  /\ ~(Inside("high") /\ Inside("low"))

=============================================================================
