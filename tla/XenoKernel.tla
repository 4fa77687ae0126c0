----------------------------- MODULE XenoKernel -----------------------------
(***************************************************************************)
(* What the programs of ex8 use of the Xenomai native skin, as they use    *)
(* it: tasks on one CPU (T_CPU(0)) under preemptive fixed priorities,      *)
(* counting semaphores, mutexes with priority inheritance, sleeping.       *)
(*                                                                         *)
(* A program is a sequence of calls <<name, argument>>, one step each.     *)
(* "spin" is busy_wait_us(US_TO_S*1).  A sleep of a few milliseconds may   *)
(* end at any moment ("sleep"); one of main's sleeps, which are a hundred  *)
(* times longer than all the work together, ends when no other task is     *)
(* ready or asleep ("longsleep").  Tasks of equal priority run in any      *)
(* order.  Inheritance is followed over one mutex: in these programs only  *)
(* two tasks use mutexes.                                                  *)
(***************************************************************************)
EXTENDS Integers, Sequences, FiniteSetsExt

CONSTANTS Tasks,      (* the tasks, main included                        *)
          Program,    (* the calls of each task                          *)
          Priority,   (* the priority each task is created with          *)
          Count,      (* the initial value of each semaphore             *)
          Mutexes     (* the mutexes                                     *)

VARIABLES ip,         (* the position of each task's next call           *)
          state,      (* "dormant", "ready", "asleep", "done", or the    *)
                      (* semaphore or mutex that the task waits for      *)
          base,       (* the base priority of each task                  *)
          count,      (* the value of each semaphore                     *)
          owner,      (* the owner of each mutex, or "nobody"            *)
          deleted,    (* the semaphores and mutexes that are deleted     *)
          exited      (* main has called exit                            *)

vars == <<ip, state, base, count, owner, deleted, exited>>

Sems == DOMAIN Count

Init ==
  /\ ip      = [t \in Tasks |-> 1]
  /\ state   = [t \in Tasks |-> IF t = "main" THEN "ready" ELSE "dormant"]
  /\ base    = Priority
  /\ count   = Count
  /\ owner   = [m \in Mutexes |-> "nobody"]
  /\ deleted = {}
  /\ exited  = FALSE

-----------------------------------------------------------------------------
Ready == {t \in Tasks : state[t] = "ready"}

WaitersOf(o) == {t \in Tasks : state[t] = o}

\* The mutexes of the native skin lend the owner the priority of its waiters.
Prio(t) == Max({base[t]} \cup {base[u] : u \in
                 {w \in Tasks : state[w] \in Mutexes /\ owner[state[w]] = t}})

\* The CPU executes a ready task of highest priority.
Running(t) == /\ ~exited
              /\ t \in Ready
              /\ \A u \in Ready : Prio(u) <= Prio(t)

Call(t) == Program[t][ip[t]]

\* t is about to make the call; arg is its argument.
Makes(t, name, arg) == Running(t) /\ Call(t) = <<name, arg>>

\* The tasks S go on to their next call; those among them that waited are ready.
Resume(S) == /\ ip'    = [t \in Tasks |-> IF t \in S THEN ip[t] + 1 ELSE ip[t]]
             /\ state' = [t \in Tasks |-> IF t \in S THEN "ready" ELSE state[t]]

\* The running task t blocks, sleeps or ends.
Suspend(t, s) == state' = [state EXCEPT ![t] = s] /\ UNCHANGED ip

\* Who is served first among the waiters of o.
First(o, w) == w \in WaitersOf(o) /\ \A u \in WaitersOf(o) : Prio(u) <= Prio(w)

-----------------------------------------------------------------------------
\* rt_sem_p(&s, TM_INFINITE)
SemP(t) == \E s \in Sems :
  /\ Makes(t, "sem_p", s)
  /\ IF count[s] > 0
     THEN Resume({t}) /\ count' = [count EXCEPT ![s] = @ - 1]
     ELSE Suspend(t, s) /\ UNCHANGED count
  /\ UNCHANGED <<base, owner, deleted, exited>>

\* rt_sem_v(&s): the unit goes to a waiter if there is one.
SemV(t) == \E s \in Sems :
  /\ Makes(t, "sem_v", s)
  /\ IF WaitersOf(s) = {}
     THEN Resume({t}) /\ count' = [count EXCEPT ![s] = @ + 1]
     ELSE (\E w \in Tasks : First(s, w) /\ Resume({t, w})) /\ UNCHANGED count
  /\ UNCHANGED <<base, owner, deleted, exited>>

\* rt_sem_broadcast(&s): every waiter is released, and no unit is left.
SemBroadcast(t) == \E s \in Sems :
  /\ Makes(t, "sem_broadcast", s)
  /\ Resume({t} \cup WaitersOf(s))
  /\ count' = [count EXCEPT ![s] = 0]
  /\ UNCHANGED <<base, owner, deleted, exited>>

\* rt_mutex_acquire(&m, TM_INFINITE)
Acquire(t) == \E m \in Mutexes :
  /\ Makes(t, "acquire", m)
  /\ IF owner[m] = "nobody"
     THEN Resume({t}) /\ owner' = [owner EXCEPT ![m] = t]
     ELSE Suspend(t, m) /\ UNCHANGED owner
  /\ UNCHANGED <<base, count, deleted, exited>>

\* Plausible bug: the waiter is resumed but does not become the owner.
Release_NoHandOver(t) == \E m \in Mutexes :
  /\ Makes(t, "release", m)
  /\ IF WaitersOf(m) = {}
     THEN Resume({t})
     ELSE \E w \in Tasks : First(m, w) /\ Resume({t, w})
  /\ owner' = [owner EXCEPT ![m] = "nobody"]
  /\ UNCHANGED <<base, count, deleted, exited>>

\* rt_mutex_release(&m): ownership passes to a waiter if there is one.
Release(t) == \E m \in Mutexes :
  /\ Makes(t, "release", m)
  /\ IF WaitersOf(m) = {}
     THEN Resume({t}) /\ owner' = [owner EXCEPT ![m] = "nobody"]
     ELSE \E w \in Tasks : /\ First(m, w)
                           /\ Resume({t, w})
                           /\ owner' = [owner EXCEPT ![m] = w]
  /\ UNCHANGED <<base, count, deleted, exited>>

\* rt_task_set_priority on the calling task
SetPriority(t) == \E n \in 0..99 :
  /\ Makes(t, "set_priority", n)
  /\ base' = [base EXCEPT ![t] = n]
  /\ Resume({t})
  /\ UNCHANGED <<count, owner, deleted, exited>>

\* rt_task_start(&u, ...)
Start(t) == \E u \in Tasks :
  /\ Makes(t, "start", u)
  /\ ip' = [ip EXCEPT ![t] = @ + 1]
  /\ state' = [state EXCEPT ![u] = "ready"]
  /\ UNCHANGED <<base, count, owner, deleted, exited>>

\* rt_task_sleep, and its end
Sleep(t) ==
  /\ Running(t)
  /\ Call(t)[1] \in {"sleep", "longsleep"}
  /\ Suspend(t, "asleep")
  /\ UNCHANGED <<base, count, owner, deleted, exited>>

WakeUp(t) ==
  /\ ~exited
  /\ state[t] = "asleep"
  /\ Call(t)[1] = "longsleep"
       => \A u \in Tasks \ {t} : state[u] \notin {"ready", "asleep"}
  /\ Resume({t})
  /\ UNCHANGED <<base, count, owner, deleted, exited>>

\* busy_wait_us
Spin(t) ==
  /\ Makes(t, "spin", "")
  /\ Resume({t})
  /\ UNCHANGED <<base, count, owner, deleted, exited>>

\* rt_task_delete(NULL)
EndTask(t) ==
  /\ Makes(t, "end", "")
  /\ Suspend(t, "done")
  /\ UNCHANGED <<base, count, owner, deleted, exited>>

\* rt_sem_delete, rt_mutex_delete: the waiters return from their call with an
\* error, which no program looks at.
Delete(t) == \E o \in Sems \cup Mutexes :
  /\ Makes(t, "delete", o)
  /\ Resume({t} \cup WaitersOf(o))
  /\ deleted' = deleted \cup {o}
  /\ UNCHANGED <<base, count, owner, exited>>

\* exit(EXIT_SUCCESS): the process and all its tasks are gone.
Exit(t) ==
  /\ Makes(t, "exit", "")
  /\ exited' = TRUE
  /\ UNCHANGED <<ip, state, base, count, owner, deleted>>

Step(t) ==
  \/ SemP(t) \/ SemV(t) \/ SemBroadcast(t)
  \/ Acquire(t) \/ Release(t)
  \/ SetPriority(t) \/ Start(t) \/ Sleep(t) \/ WakeUp(t) \/ Spin(t)
  \/ EndTask(t) \/ Delete(t) \/ Exit(t)

Next == \/ \E t \in Tasks : Step(t)
        \/ exited /\ UNCHANGED vars

\* The CPU does not stop while a task is ready, and timers expire.
Spec == Init /\ [][Next]_vars /\ WF_vars(Next)

-----------------------------------------------------------------------------
\* t has returned from the call "take" and not yet from a later call "give".
Between(t, take, give) == \E k \in 1..ip[t]-1 :
  /\ Program[t][k] = take
  /\ \A l \in k..ip[t]-1 : Program[t][l] # give

\* Every task but main has ended.
WorkDone == \A t \in Tasks \ {"main"} : state[t] = "done"

\* Until they are deleted, the mutexes belong to the task that is between
\* acquire and release, through every hand-over and every preemption.
OwnerInside ==
  deleted = {} =>
    \A t \in Tasks : \A m \in Mutexes :
      owner[m] = t <=> Between(t, <<"acquire", m>>, <<"release", m>>)

\* The semaphores and mutexes are deleted only when no task will use them.
DeletedUnused == deleted # {} => WorkDone

=============================================================================
