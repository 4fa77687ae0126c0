----------------------------- MODULE MCXenomai -----------------------------
(***************************************************************************)
(* All programs of ex8, of which a behaviour executes one.  They have no   *)
(* parameters: each is explored completely.                                *)
(***************************************************************************)
EXTENDS Integers, Sequences

VARIABLES program, ip, state, base, count, owner, deleted, exited

vars == <<program, ip, state, base, count, owner, deleted, exited>>

Broadcast   == INSTANCE BroadcastStart
Semaphore   == INSTANCE PrioritySemaphore
Inversion   == INSTANCE PriorityInversion
Inheritance == INSTANCE PriorityInheritance
Deadlock    == INSTANCE MutexDeadlock
Ceiling     == INSTANCE CeilingProtocol

Init ==
  \/ program = "BroadcastStart"      /\ Broadcast!Init
  \/ program = "PrioritySemaphore"   /\ Semaphore!Init
  \/ program = "PriorityInversion"   /\ Inversion!Init
  \/ program = "PriorityInheritance" /\ Inheritance!Init
  \/ program = "MutexDeadlock"       /\ Deadlock!Init
  \/ program = "CeilingProtocol"     /\ Ceiling!Init

Next ==
  /\ UNCHANGED program
  /\ \/ program = "BroadcastStart"      /\ Broadcast!Next
     \/ program = "PrioritySemaphore"   /\ Semaphore!Next
     \/ program = "PriorityInversion"   /\ Inversion!Next
     \/ program = "PriorityInheritance" /\ Inheritance!Next
     \/ program = "MutexDeadlock"       /\ Deadlock!Next
     \/ program = "CeilingProtocol"     /\ Ceiling!Next

\* The fairness of XenoKernel!Spec, for the program that is executed.
Spec == Init /\ [][Next]_vars /\ WF_vars(Next)

-----------------------------------------------------------------------------
\* The lock of each program, a semaphore or mutexes, is held by exactly the
\* task that is in the critical section: no hand-over to a waiter, preemption
\* or end of a sleep loses or doubles it.  And, but for ex8/taskD, main deletes
\* it only when no task will use it any more, although main only waits for a time.
LocksSound ==
  /\ program = "BroadcastStart"      => Broadcast!DeletedUnused
  /\ program = "PrioritySemaphore"   => Semaphore!OneUnit /\ Semaphore!DeletedUnused
  /\ program = "PriorityInversion"   => Inversion!OneUnit /\ Inversion!DeletedUnused
  /\ program = "PriorityInheritance" => Inheritance!OwnerInside /\ Inheritance!DeletedUnused
  /\ program = "MutexDeadlock"       => Deadlock!OwnerInside
  /\ program = "CeilingProtocol"     => Ceiling!OwnerInside /\ Ceiling!DeletedUnused

\* With the inheriting mutex of ex8/taskC, the middle task never runs while
\* the highest one waits.
NoInversion == program = "PriorityInheritance" => Inheritance!NoInversion

\* The tasks of ex8/taskD get stuck in one way only.
StuckOnlyInCircle == program = "MutexDeadlock" => Deadlock!StuckOnlyInCircle

\* In ex8/taskE a task blocks on a mutex in one situation only.
BlocksOnlyAfterInnerUnlock ==
  program = "CeilingProtocol" => Ceiling!BlocksOnlyAfterInnerUnlock

\* Every program exits, whatever its tasks do; and, but for ex8/taskD, every
\* task has done its work by then, however long an inversion lasts.
ExitsWithWorkDone ==
  <>(/\ exited
     /\ program = "BroadcastStart"      => Broadcast!WorkDone
     /\ program = "PrioritySemaphore"   => Semaphore!WorkDone
     /\ program = "PriorityInversion"   => Inversion!WorkDone
     /\ program = "PriorityInheritance" => Inheritance!WorkDone
     /\ program = "CeilingProtocol"     => Ceiling!WorkDone)

=============================================================================
