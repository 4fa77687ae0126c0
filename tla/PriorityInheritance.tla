------------------------- MODULE PriorityInheritance -------------------------
(***************************************************************************)
(* ex8/taskC/main.c: the tasks of ex8/taskB/main.c with a mutex in place   *)
(* of the semaphore.  The mutex lends the lowest task the priority of the  *)
(* highest one while that one waits, so the middle task no longer delays   *)
(* the highest.                                                            *)
(***************************************************************************)
EXTENDS Integers, Sequences

VARIABLES ip, state, base, count, owner, deleted, exited

Tasks == {"high", "med", "low", "main"}

\* Plausible bug: the priorities of the two upper tasks are swapped.
Priority_Swapped == [high |-> 49, med |-> 69, low |-> 19, main |-> 99]

Priority == [high |-> 69, med |-> 49, low |-> 19, main |-> 99]

spin == <<"spin", "">>

task_high == << <<"sem_p", "sem_init">>, <<"sleep", "">>,
                <<"acquire", "mut">>, spin, spin, <<"release", "mut">>,
                <<"end", "">> >>

task_med == << <<"sem_p", "sem_init">>, <<"sleep", "">>,
               spin, spin, spin, spin, spin, <<"end", "">> >>

task_low == << <<"sem_p", "sem_init">>,
               <<"acquire", "mut">>, spin, spin, spin, <<"release", "mut">>,
               <<"end", "">> >>

main == << <<"start", "high">>, <<"start", "med">>, <<"start", "low">>,
           <<"longsleep", "">>, <<"sem_broadcast", "sem_init">>,
           <<"longsleep", "">>,
           <<"delete", "mut">>, <<"delete", "sem_init">>, <<"exit", "">> >>

Program ==
  [high |-> task_high, med |-> task_med, low |-> task_low, main |-> main]

INSTANCE XenoKernel WITH Mutexes <- {"mut"}, Count <- [sem_init |-> 0]

-----------------------------------------------------------------------------
\* While the highest task waits for the mutex, only the task it waits for may
\* run: the middle task causes no inversion, however their sleeps end.
NoInversion == state["high"] = "mut" => ~Running("med")

=============================================================================
