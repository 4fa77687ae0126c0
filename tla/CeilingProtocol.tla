--------------------------- MODULE CeilingProtocol ---------------------------
(***************************************************************************)
(* ex8/taskE/main.c: the tasks of ex8/taskD/main.c with the immediate      *)
(* ceiling priority protocol on top of the mutexes: icpp_lock raises the   *)
(* caller to the ceiling of the resource, icpp_unlock lowers it to the     *)
(* caller's base priority.  The critical sections are nested, and the      *)
(* inner icpp_unlock lowers a task that still holds the outer resource.    *)
(***************************************************************************)
EXTENDS Integers, Sequences

VARIABLES ip, state, base, count, owner, deleted, exited

Tasks == {"high", "low", "main"}

\* rt_task_create; the base priorities of the protocol are others.
Priority == [high |-> 69, low |-> 19, main |-> 99]

\* resource_t and thread_pri_t
res_A == [mutex |-> "mut_a", pri |-> 80]
res_B == [mutex |-> "mut_b", pri |-> 90]

thread_high == [task |-> "high", base_pri |-> 50]
thread_low  == [task |-> "low",  base_pri |-> 40]

\* Plausible bug: the mutex is acquired without raising the priority.
icpp_lock_NoRaise(res, thread) == << <<"acquire", res.mutex>> >>

icpp_lock(res, thread) ==
  << <<"set_priority", res.pri>>, <<"acquire", res.mutex>> >>

icpp_unlock(res, thread) ==
  << <<"release", res.mutex>>, <<"set_priority", thread.base_pri>> >>

spin == <<"spin", "">>

task_high ==
  << <<"sem_p", "sem_init">>, <<"sleep", "">> >>
  \o icpp_lock(res_B, thread_high) \o << spin >>
  \o icpp_lock(res_A, thread_high) \o << spin, spin >>
  \o icpp_unlock(res_A, thread_high)
  \o icpp_unlock(res_B, thread_high) \o << spin, <<"end", "">> >>

task_low ==
  << <<"sem_p", "sem_init">> >>
  \o icpp_lock(res_A, thread_low) \o << spin, spin, spin >>
  \o icpp_lock(res_B, thread_low) \o << spin, spin, spin >>
  \o icpp_unlock(res_B, thread_low)
  \o icpp_unlock(res_A, thread_low) \o << spin, <<"end", "">> >>

main == << <<"start", "high">>, <<"start", "low">>,
           <<"longsleep", "">>, <<"sem_broadcast", "sem_init">>,
           <<"longsleep", "">>,
           <<"delete", "mut_a">>, <<"delete", "mut_b">>,
           <<"delete", "sem_init">>, <<"exit", "">> >>

Program == [high |-> task_high, low |-> task_low, main |-> main]

Mutexes == {"mut_a", "mut_b"}

INSTANCE XenoKernel WITH Count <- [sem_init |-> 0]

-----------------------------------------------------------------------------
\* What the early lowering costs, and no more: task_high may block on mut_a
\* once task_low is done with mut_b, and neither task blocks otherwise, so the
\* deadlock of ex8/taskD cannot happen.
BlocksOnlyAfterInnerUnlock ==
  \A t \in Tasks : state[t] \in Mutexes =>
    /\ t = "high" /\ state[t] = "mut_a" /\ owner["mut_a"] = "low"
    /\ ~Between("low", <<"acquire", "mut_b">>, <<"release", "mut_b">>)
    /\ Between("low", <<"release", "mut_b">>, <<"end", "">>)

\* What the immediate ceiling priority protocol, after which icpp_lock and
\* icpp_unlock are named, promises: a task that runs finds every resource it
\* may use free, so rt_mutex_acquire in icpp_lock never blocks.
LockNeverBlocks == \A t \in Tasks : state[t] \notin Mutexes

=============================================================================
