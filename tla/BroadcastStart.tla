--------------------------- MODULE BroadcastStart ---------------------------
(***************************************************************************)
(* ex8/taskA/main.c: two tasks wait for a semaphore, and a third one,      *)
(* started by main after a while, releases them together.  main is an      *)
(* ordinary Linux thread, which runs when no Xenomai task does; while it   *)
(* spins, a hundred milliseconds pass.  The tasks are not created joinable *)
(* (no T_JOINABLE), so rt_task_join returns at once and is left out.       *)
(***************************************************************************)
EXTENDS Integers, Sequences

VARIABLES ip, state, base, count, owner, deleted, exited

Tasks == {"taskA", "taskB", "task_sync", "main"}

Priority == [taskA |-> 89, taskB |-> 79, task_sync |-> 99, main |-> 0]

task_fnc == << <<"sem_p", "sem">>, <<"end", "">> >>

sync_fnc == << <<"sem_broadcast", "sem">>, <<"end", "">> >>

main == << <<"start", "taskA">>, <<"start", "taskB">>, <<"longsleep", "">>,
           <<"start", "task_sync">>, <<"longsleep", "">>,
           <<"delete", "sem">>, <<"exit", "">> >>

Program == [taskA |-> task_fnc, taskB |-> task_fnc,
            task_sync |-> sync_fnc, main |-> main]

INSTANCE XenoKernel WITH Mutexes <- {}, Count <- [sem |-> 0]

=============================================================================
