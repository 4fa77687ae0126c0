---------------------------- MODULE MutexDeadlock ----------------------------
(***************************************************************************)
(* ex8/taskD/main.c: two tasks acquire two mutexes in opposite orders.     *)
(* Priority inheritance does not help; whether they deadlock depends on    *)
(* when the sleep of the high task ends.  The main task waits ten seconds, *)
(* deletes everything and exits whatever has happened.                     *)
(***************************************************************************)
EXTENDS Integers, Sequences

VARIABLES ip, state, base, count, owner, deleted, exited

Tasks == {"high", "low", "main"}

Priority == [high |-> 69, low |-> 19, main |-> 99]

spin == <<"spin", "">>

\* Plausible bug: task_high returns while it holds a mutex.
task_high_NoRelease ==
  << <<"sem_p", "sem_init">>, <<"sleep", "">>,
     <<"acquire", "mut_b">>, spin, <<"acquire", "mut_a">>, spin, spin,
     <<"release", "mut_a">>, spin, <<"end", "">> >>

task_high ==
  << <<"sem_p", "sem_init">>, <<"sleep", "">>,
     <<"acquire", "mut_b">>, spin, <<"acquire", "mut_a">>, spin, spin,
     <<"release", "mut_a">>, <<"release", "mut_b">>, spin, <<"end", "">> >>

task_low ==
  << <<"sem_p", "sem_init">>,
     <<"acquire", "mut_a">>, spin, spin, spin,
     <<"acquire", "mut_b">>, spin, spin, spin,
     <<"release", "mut_b">>, <<"release", "mut_a">>, spin, <<"end", "">> >>

main == << <<"start", "high">>, <<"start", "low">>,
           <<"longsleep", "">>, <<"sem_broadcast", "sem_init">>,
           <<"longsleep", "">>,
           <<"delete", "mut_a">>, <<"delete", "mut_b">>,
           <<"delete", "sem_init">>, <<"exit", "">> >>

Program == [high |-> task_high, low |-> task_low, main |-> main]

Mutexes == {"mut_a", "mut_b"}

INSTANCE XenoKernel WITH Count <- [sem_init |-> 0]

-----------------------------------------------------------------------------
\* The two tasks are stuck only in one way: each holds its first mutex and
\* waits for the other's.  Preemption at any other point is harmless.
Stuck == /\ \A t \in {"high", "low"} : state[t] \in Mutexes \cup {"done"}
         /\ \E t \in {"high", "low"} : state[t] # "done"

Circle == /\ state["high"] = "mut_a" /\ owner["mut_a"] = "low"
          /\ state["low"] = "mut_b" /\ owner["mut_b"] = "high"

StuckOnlyInCircle == Stuck /\ deleted = {} => Circle

=============================================================================
