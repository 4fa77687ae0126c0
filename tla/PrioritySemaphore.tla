------------------------- MODULE PrioritySemaphore -------------------------
(***************************************************************************)
(* ex8/main.c: the tasks of ex8/taskB/main.c with a semaphore that serves  *)
(* its waiters by priority, released together by a task that main starts,  *)
(* as in ex8/taskA/main.c.                                                 *)
(***************************************************************************)
EXTENDS Integers, Sequences

VARIABLES ip, state, base, count, owner, deleted, exited

Tasks == {"high", "med", "low", "task_sync", "main"}

Priority == [high |-> 89, med |-> 49, low |-> 19, task_sync |-> 99, main |-> 0]

Count == [sem |-> 1, sem_init |-> 0]

spin == <<"spin", "">>

task_high == << <<"sem_p", "sem_init">>, <<"sleep", "">>,
                <<"sem_p", "sem">>, spin, <<"sem_v", "sem">>, <<"end", "">> >>

task_med == << <<"sem_p", "sem_init">>, <<"sleep", "">>, spin, <<"end", "">> >>

task_low == << <<"sem_p", "sem_init">>,
               <<"sem_p", "sem">>, spin, <<"sem_v", "sem">>, <<"end", "">> >>

sync_fnc == << <<"sem_broadcast", "sem_init">>, <<"end", "">> >>

main == << <<"start", "high">>, <<"start", "med">>, <<"start", "low">>,
           <<"longsleep", "">>, <<"start", "task_sync">>, <<"longsleep", "">>,
           <<"delete", "sem">>, <<"exit", "">> >>

Program == [high |-> task_high, med |-> task_med, low |-> task_low,
            task_sync |-> sync_fnc, main |-> main]

INSTANCE XenoKernel WITH Mutexes <- {}

-----------------------------------------------------------------------------
Inside(t) == Between(t, <<"sem_p", "sem">>, <<"sem_v", "sem">>)

\* The unit of sem is free, or exactly one of the two tasks is inside.
OneUnit ==
  /\ count["sem"] = IF Inside("high") \/ Inside("low") THEN 0 ELSE 1
  /\ ~(Inside("high") /\ Inside("low"))

=============================================================================
