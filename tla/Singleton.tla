------------------------------ MODULE Singleton ------------------------------
(***************************************************************************)
(* The double-checked locking of ex3/taskD/double_checked.c (taskE is the  *)
(* same program built with the thread sanitizer).  Every thread runs       *)
(* singletonUser: it gets the singleton and prints its members.            *)
(*                                                                         *)
(* A step is one access to shared memory or one call on the semaphore.     *)
(* The memory clobbers of nonOptimizedBusyWait keep the stores of the      *)
(* initialisation in program order; the members are read in any order,     *)
(* since C leaves the order in which arguments are evaluated open.         *)
(* An object is named after the thread that allocated it, and a member is  *)
(* its position: members 1..written[o] of object o have been stored.       *)
(***************************************************************************)
EXTENDS Integers

CONSTANTS Users,    (* the threads (50 in the code)           *)
          Null,     (* the null pointer                       *)
          Members   (* how many members the object has (4)    *)

ASSUME SingletonAssumption ==
  /\ Null \notin Users
  /\ Members \in Nat \ {0}

VARIABLES pc,         (* the next access of each thread                      *)
          path,       (* history: how each thread came by its pointer        *)
          pointer,    (* the result of getSingleton in each thread           *)
          unread,     (* the members each thread has still to read           *)
          stale,      (* history: the members it read before they were stored*)
          g_singleton,
          written,    (* how many members of each object have been stored    *)
          sem,        (* g_singletonInitSem                                  *)
          crashed     (* the process has died of a null pointer              *)

shared == <<g_singleton, written, sem, crashed>>
local  == <<path, pointer, unread, stale>>
vars   == <<pc, local, shared>>

Labels == {"check", "wait", "recheck", "malloc", "init", "post", "return",
           "use", "done"}

Init ==
  /\ pc          = [u \in Users |-> "check"]
  /\ path        = [u \in Users |-> "none"]
  /\ pointer     = [u \in Users |-> Null]
  /\ unread      = [u \in Users |-> 1..Members]
  /\ stale       = [u \in Users |-> {}]
  /\ g_singleton = Null
  /\ written     = [o \in Users |-> 0]
  /\ sem         = 1
  /\ crashed     = FALSE

-----------------------------------------------------------------------------
GoTo(u, l) == pc' = [pc EXCEPT ![u] = l]

\* All members of the object that g_singleton points to have been stored.
Complete == g_singleton # Null /\ written[g_singleton] = Members

\* if(!g_singleton), outside the semaphore.  The history tells a thread that
\* takes the fast path early, before the object is complete, from a late one.
Check(u) ==
  /\ pc[u] = "check"
  /\ IF g_singleton = Null
     THEN GoTo(u, "wait") /\ UNCHANGED path
     ELSE /\ GoTo(u, "return")
          /\ path' = [path EXCEPT ![u] = IF Complete THEN "late" ELSE "early"]
  /\ UNCHANGED <<pointer, unread, stale, shared>>

\* sem_wait(&g_singletonInitSem)
SemWait(u) ==
  /\ pc[u] = "wait"
  /\ sem > 0
  /\ sem' = sem - 1
  /\ path' = [path EXCEPT ![u] = "slow"]
  /\ GoTo(u, "recheck")
  /\ UNCHANGED <<pointer, unread, stale, g_singleton, written, crashed>>

\* Plausible bug: the pointer is not checked again under the semaphore.
Recheck_Missing(u) ==
  /\ pc[u] = "recheck"
  /\ GoTo(u, "malloc")
  /\ UNCHANGED <<local, shared>>

\* if(!g_singleton), under the semaphore
Recheck(u) ==
  /\ pc[u] = "recheck"
  /\ GoTo(u, IF g_singleton = Null THEN "malloc" ELSE "post")
  /\ UNCHANGED <<local, shared>>

\* g_singleton = malloc(...): the pointer is visible from here on.
Malloc(u) ==
  /\ pc[u] = "malloc"
  /\ g_singleton' = u
  /\ GoTo(u, "init")
  /\ UNCHANGED <<local, written, sem, crashed>>

\* malloc returns NULL, which the code does not check.
MallocFails(u) ==
  /\ pc[u] = "malloc"
  /\ g_singleton' = Null
  /\ GoTo(u, "init")
  /\ UNCHANGED <<local, written, sem, crashed>>

\* Plausible bug: the last member is never stored.
StoreMember_Short(u) ==
  /\ pc[u] = "init"
  /\ g_singleton # Null
  /\ written' = [written EXCEPT ![g_singleton] = @ + 1]
  /\ GoTo(u, IF written[g_singleton] + 1 < Members - 1 THEN "init" ELSE "post")
  /\ UNCHANGED <<local, g_singleton, sem, crashed>>

\* g_singleton->a = 1 and so on, one member after the other
StoreMember(u) ==
  /\ pc[u] = "init"
  /\ g_singleton # Null
  /\ written' = [written EXCEPT ![g_singleton] = @ + 1]
  /\ GoTo(u, IF written[g_singleton] + 1 < Members THEN "init" ELSE "post")
  /\ UNCHANGED <<local, g_singleton, sem, crashed>>

\* g_singleton->a = 1 through the null pointer: the process dies.
StoreThroughNull(u) ==
  /\ pc[u] = "init"
  /\ g_singleton = Null
  /\ crashed' = TRUE
  /\ UNCHANGED <<pc, local, g_singleton, written, sem>>

\* sem_post(&g_singletonInitSem)
SemPost(u) ==
  /\ pc[u] = "post"
  /\ sem' = sem + 1
  /\ GoTo(u, "return")
  /\ UNCHANGED <<local, g_singleton, written, crashed>>

\* return g_singleton
Return(u) ==
  /\ pc[u] = "return"
  /\ pointer' = [pointer EXCEPT ![u] = g_singleton]
  /\ GoTo(u, "use")
  /\ UNCHANGED <<path, unread, stale, shared>>

\* The printf of singletonUser loads member m.
ReadMember(u, m) ==
  /\ pc[u] = "use"
  /\ m \in unread[u]
  /\ unread' = [unread EXCEPT ![u] = @ \ {m}]
  /\ stale' = IF m > written[pointer[u]]
              THEN [stale EXCEPT ![u] = @ \cup {m}] ELSE stale
  /\ GoTo(u, IF unread[u] = {m} THEN "done" ELSE "use")
  /\ UNCHANGED <<path, pointer, shared>>

Step(u) ==
  \/ Check(u)
  \/ SemWait(u)
  \/ Recheck(u)
  \/ Malloc(u)
  \/ MallocFails(u)
  \/ StoreMember(u)
  \/ StoreThroughNull(u)
  \/ SemPost(u)
  \/ Return(u)
  \/ \E m \in 1..Members : ReadMember(u, m)

\* pthread_join has returned for every thread.
Finished == \A u \in Users : pc[u] = "done"

Stopped == Finished \/ crashed

Next == \/ ~crashed /\ \E u \in Users : Step(u)
        \/ Stopped /\ UNCHANGED vars

\* The operating system schedules every thread; the semaphore is not fair.
Spec == /\ Init /\ [][Next]_vars
        /\ \A u \in Users : WF_vars(~crashed /\ Step(u))

-----------------------------------------------------------------------------
\* The values in range.
TypeOK ==
  /\ pc          \in [Users -> Labels]
  /\ path        \in [Users -> {"none", "slow", "early", "late"}]
  /\ pointer     \in [Users -> Users \cup {Null}]
  /\ unread      \in [Users -> SUBSET (1..Members)]
  /\ stale       \in [Users -> SUBSET (1..Members)]
  /\ g_singleton \in Users \cup {Null}
  /\ written     \in [Users -> 0..Members]
  /\ sem         \in {0, 1}
  /\ crashed     \in BOOLEAN

\* Who may print a member before it is stored: only a thread that found
\* the pointer set by a thread still initialising, without going through the
\* semaphore.  The second check protects the others (lines 32-50).
StaleOnlyOnEarlyFastPath ==
  \A u \in Users : stale[u] # {} => path[u] = "early"

\* Nobody dereferences a null pointer it got from getSingleton: the failure of
\* malloc kills the process before any caller returns with it.
NeverReturnsNull ==
  \A u \in Users : pc[u] \in {"use", "done"} => pointer[u] # Null

\* One object, given to every caller.
O == INSTANCE Once WITH object <- g_singleton, got <- pointer
ImplementsOnce == O!Spec

=============================================================================
