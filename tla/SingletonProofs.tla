--------------------------- MODULE SingletonProofs ---------------------------
(***************************************************************************)
(* Proofs about the double-checked locking for any number of threads and   *)
(* members.  The inductive invariant says who is inside the semaphore, in  *)
(* which state the object is then, and what each thread may rely on.       *)
(***************************************************************************)
EXTENDS Singleton, TLAPS

Inside(u) == pc[u] \in {"recheck", "malloc", "init", "post"}

Got(u) == pc[u] \in {"return", "use", "done"}

\* The semaphore admits one thread.
SemaphoreInv ==
  /\ \A u \in Users : Inside(u) => sem = 0
  /\ \A u, v \in Users : Inside(u) /\ Inside(v) => u = v

\* An object that is not complete is being initialised by its creator, and
\* nothing is stored in an object that g_singleton does not point to.
ObjectInv ==
  /\ \A u \in Users : pc[u] = "malloc" => g_singleton = Null
  /\ \A u \in Users : pc[u] = "init" /\ g_singleton # Null
                        => g_singleton = u /\ written[u] < Members
  /\ g_singleton # Null /\ written[g_singleton] < Members
       => pc[g_singleton] = "init"
  /\ \A o \in Users : written[o] > 0 => g_singleton = o
  /\ g_singleton = Null => \A u \in Users : ~Got(u) /\ pc[u] # "post"

\* A thread has the pointer only after return, and then it is g_singleton.
PointerInv ==
  \A u \in Users : /\ pc[u] \in {"use", "done"} => pointer[u] = g_singleton
                   /\ pc[u] \notin {"use", "done"} => pointer[u] = Null

\* The path of a thread agrees with where it is; the slow and the late path
\* lead to a complete object.
PathInv ==
  \A u \in Users :
    /\ pc[u] \in {"check", "wait"} => path[u] = "none"
    /\ Inside(u) => path[u] = "slow"
    /\ Got(u) => path[u] # "none"
    /\ Got(u) /\ path[u] # "early" => Complete

IInv == /\ TypeOK /\ SemaphoreInv /\ ObjectInv /\ PointerInv /\ PathInv
        /\ StaleOnlyOnEarlyFastPath

\* The thread that leaves the semaphore leaves a complete object behind.
LEMMA PostComplete ==
  ASSUME IInv, NEW u \in Users, pc[u] = "post"
  PROVE  Complete
<1>1. g_singleton \in Users
  BY DEF IInv, TypeOK, ObjectInv
<1>2. pc[g_singleton] # "init"
  BY <1>1 DEF IInv, SemaphoreInv, Inside
<1>3. ~(written[g_singleton] < Members) /\ written[g_singleton] \in 0..Members
  BY <1>1, <1>2 DEF IInv, TypeOK, ObjectInv
<1>4. QED
  BY <1>1, <1>3, SingletonAssumption DEF Complete

\* Initially there is no object and nobody is inside.
LEMMA InitInv == Init => IInv
<1> SUFFICES ASSUME Init PROVE IInv
  OBVIOUS
<1> USE SingletonAssumption DEF Init, Inside, Got
<1>1. TypeOK
  <2>1. crashed \in BOOLEAN
    OBVIOUS
  <2>2. pc \in [Users -> Labels]
    BY DEF Labels
  <2>3. QED
    BY <2>1, <2>2 DEF TypeOK
<1>2. SemaphoreInv
  BY DEF SemaphoreInv
<1>3. ObjectInv
  BY DEF ObjectInv
<1>4. PointerInv
  BY DEF PointerInv
<1>5. PathInv
  BY DEF PathInv
<1>6. StaleOnlyOnEarlyFastPath
  BY DEF StaleOnlyOnEarlyFastPath
<1>7. QED
  BY <1>1, <1>2, <1>3, <1>4, <1>5, <1>6 DEF IInv

\* Every step of a thread preserves the inductive invariant.
LEMMA StepInv ==
  ASSUME IInv, NEW u \in Users, Step(u)
  PROVE  IInv'
<1> USE SingletonAssumption
        DEF IInv, TypeOK, Labels, SemaphoreInv, ObjectInv, PointerInv, PathInv,
            Inside, Got, Complete, StaleOnlyOnEarlyFastPath, GoTo, shared, local
<1>1. CASE Check(u)
  BY <1>1 DEF Check
<1>2. CASE SemWait(u)
  BY <1>2 DEF SemWait
<1>3. CASE Recheck(u)
  BY <1>3 DEF Recheck
<1>4. CASE Malloc(u)
  BY <1>4 DEF Malloc
<1>5. CASE MallocFails(u)
  BY <1>5 DEF MallocFails
<1>6. CASE StoreMember(u)
  BY <1>6 DEF StoreMember
<1>7. CASE StoreThroughNull(u)
  BY <1>7 DEF StoreThroughNull
<1>8. CASE SemPost(u)
  BY <1>8, PostComplete DEF SemPost
<1>9. CASE Return(u)
  BY <1>9 DEF Return
<1>10. ASSUME NEW m \in 1..Members, ReadMember(u, m) PROVE IInv'
  BY <1>10 DEF ReadMember
<1>11. QED
  BY <1>1, <1>2, <1>3, <1>4, <1>5, <1>6, <1>7, <1>8, <1>9, <1>10 DEF Step

\* The inductive invariant holds in every reachable state.
THEOREM Invariance == Spec => []IInv
<1>1. IInv /\ UNCHANGED vars => IInv'
  BY DEF IInv, TypeOK, SemaphoreInv, ObjectInv, PointerInv, PathInv, Inside,
         Got, Complete, StaleOnlyOnEarlyFastPath, vars, local, shared
<1>2. IInv /\ [Next]_vars => IInv'
  BY <1>1, StepInv DEF Next
<1>3. QED
  BY <1>2, InitInv, PTL DEF Spec

\* However the threads interleave, a member is read before it is stored only by
\* a thread that took the fast path while another one was initialising.
THEOREM StaleReads == Spec => []StaleOnlyOnEarlyFastPath
<1>1. IInv => StaleOnlyOnEarlyFastPath
  BY DEF IInv
<1>2. QED
  BY <1>1, Invariance, PTL

\* getSingleton never returns a null pointer, even when malloc fails.
THEOREM NoNull == Spec => []NeverReturnsNull
<1>1. IInv => NeverReturnsNull
  BY DEF IInv, PointerInv, ObjectInv, NeverReturnsNull, Got
<1>2. QED
  BY <1>1, Invariance, PTL

-----------------------------------------------------------------------------
\* A successful malloc creates the object, a return hands it out, and no other
\* step touches the pointer or a result.
LEMMA StepRefines ==
  ASSUME IInv, NEW u \in Users, Step(u)
  PROVE  O!Create(u) \/ O!Get(u) \/ UNCHANGED O!vars
<1> USE DEF shared, local, O!vars
<1>1. CASE Malloc(u)
  BY <1>1 DEF Malloc, IInv, ObjectInv, O!Create
<1>2. CASE MallocFails(u)
  BY <1>2 DEF MallocFails, IInv, ObjectInv
<1>3. CASE Return(u)
  BY <1>3 DEF Return, IInv, ObjectInv, PointerInv, Got, O!Get
<1>4. CASE Check(u) \/ SemWait(u) \/ Recheck(u) \/ StoreMember(u)
           \/ StoreThroughNull(u) \/ SemPost(u)
  BY <1>4 DEF Check, SemWait, Recheck, StoreMember, StoreThroughNull, SemPost
<1>5. CASE \E m \in 1..Members : ReadMember(u, m)
  BY <1>5 DEF ReadMember
<1>6. QED
  BY <1>1, <1>2, <1>3, <1>4, <1>5 DEF Step

\* One object is created, it is never replaced, and every caller gets it.
THEOREM Implementation == Spec => ImplementsOnce
<1>1. Init => O!Init
  BY DEF Init, O!Init
<1>2. UNCHANGED vars => UNCHANGED O!vars
  BY DEF vars, local, shared, O!vars
<1>3. IInv /\ [Next]_vars => [O!Next]_(O!vars)
  BY <1>2, StepRefines DEF Next, O!Next
<1>4. QED
  BY <1>1, <1>3, Invariance, PTL DEF Spec, ImplementsOnce, O!Spec

=============================================================================
