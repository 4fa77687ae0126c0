---------------------------- MODULE CounterProofs ----------------------------
(***************************************************************************)
(* Proofs about the counters of ex3/taskA, taskB and taskC, for every      *)
(* number of iterations.  The inductive invariant says what a thread that  *)
(* has stored once can still see (the counter, and whatever it has loaded  *)
(* since, is at least 1), that with the semaphore exactly one thread is    *)
(* between sem_wait and sem_post when it is taken, and when main reports.  *)
(***************************************************************************)
EXTENDS Counter, TLAPS

\* Either the semaphore is free and nobody is inside, or exactly one is.
SemaphoreInv ==
  /\ protected =>
       /\ sem = 1 => \A t \in Threads : ~Critical(t)
       /\ sem = 0 => \E t \in Threads : Critical(t)
       /\ ~(Critical("main") /\ Critical("child"))
  /\ ~protected => sem = 1

\* No register holds more than the increments the counter could have had, and
\* nobody who has stored once ever sees 0 again.
RegisterInv ==
  \A t \in Threads :
    /\ pc[t] = "store" => reg[t] <= Made["main"] + Made["child"]
    /\ pc[t] = "store" /\ i[t] >= 1 => reg[t] >= 1
    /\ i[t] >= 1 => global >= 1

\* When main has printed and destroyed the semaphore, and what it had seen.
ReportInv ==
  /\ protected =>
       /\ pc["main"] \in {"print", "destroy", "done"} => pc["child"] = "done"
       /\ printed["main"] # -1 <=> pc["main"] \in {"destroy", "done"}
  /\ ~protected => (printed["main"] # -1 <=> pc["main"] \in {"join", "done"})
  /\ destroyed <=> protected /\ pc["main"] = "done"

IInv ==
  /\ TypeOK /\ SemaphoreInv /\ NoStaleRegister /\ NeverOvershoots
  /\ RegisterInv /\ AtLeastTwo /\ ReportInv

\* Initially the semaphore is free and nothing has been counted.
LEMMA InitInv == Init => IInv
<1> SUFFICES ASSUME Init PROVE IInv
  OBVIOUS
<1> USE IterationsAssumption DEF Init, Start, Threads
<1>1. TypeOK
  <2>1. pc \in [Threads -> Labels] /\ i \in [Threads -> 0..Iterations]
    BY DEF Labels
  <2>2. \A t \in Threads : i[t] < Iterations /\ pc[t] \in {"wait", "load"}
    OBVIOUS
  <2>3. protected \in BOOLEAN /\ destroyed \in BOOLEAN
    OBVIOUS
  <2>4. /\ reg \in [Threads -> Nat] /\ global \in Nat /\ sem \in {0, 1}
        /\ printed \in [Threads -> Nat \cup {-1}]
    OBVIOUS
  <2>5. /\ pc["child"] \notin {"join", "destroy", "print"}
        /\ ~protected => \A t \in Threads : pc[t] \notin {"wait", "post", "destroy"}
    OBVIOUS
  <2>6. QED
    BY <2>1, <2>2, <2>3, <2>4, <2>5 DEF TypeOK, Critical
<1>2. SemaphoreInv /\ NoStaleRegister /\ ReportInv
  BY DEF SemaphoreInv, NoStaleRegister, ReportInv, Made, Critical
<1>3. NeverOvershoots /\ RegisterInv /\ AtLeastTwo
  BY DEF NeverOvershoots, RegisterInv, AtLeastTwo, Made
<1>4. QED
  BY <1>1, <1>2, <1>3 DEF IInv

-----------------------------------------------------------------------------
\* No step takes a value out of its range, or a thread to a label of the other
\* program.
LEMMA TypeStep == IInv /\ [Next]_vars => TypeOK'
<1> SUFFICES ASSUME IInv, [Next]_vars PROVE TypeOK'
  OBVIOUS
<1> USE IterationsAssumption
        DEF IInv, TypeOK, Critical, Labels, GoTo, Continue, Start, AfterLoop
<1>1. ASSUME NEW t \in Threads, SemWait(t) PROVE TypeOK'
  BY <1>1 DEF SemWait, Threads
<1>2. ASSUME NEW t \in Threads, Load(t) PROVE TypeOK'
  BY <1>2 DEF Load, Threads
<1>3. ASSUME NEW t \in Threads, Store(t) PROVE TypeOK'
  BY <1>3 DEF Store, Threads
<1>4. ASSUME NEW t \in Threads, SemPost(t) PROVE TypeOK'
  BY <1>4 DEF SemPost, SemaphoreInv, Threads
<1>5. ASSUME NEW t \in Threads, PrintGlobal(t) PROVE TypeOK'
  BY <1>5 DEF PrintGlobal, Threads
<1>6. CASE Join
  BY <1>6 DEF Join, Threads
<1>7. CASE Destroy
  BY <1>7 DEF Destroy, Threads
<1>8. CASE UNCHANGED vars
  BY <1>8 DEF vars
<1>9. QED
  BY <1>1, <1>2, <1>3, <1>4, <1>5, <1>6, <1>7, <1>8 DEF Next, Step

\* The semaphore, and what is read and stored under it.
LEMMA ProtectedStep ==
  IInv /\ [Next]_vars => SemaphoreInv' /\ NoStaleRegister' /\ ReportInv'
<1> SUFFICES ASSUME IInv, [Next]_vars
             PROVE  SemaphoreInv' /\ NoStaleRegister' /\ ReportInv'
  OBVIOUS
<1> USE IterationsAssumption
        DEF IInv, TypeOK, SemaphoreInv, NoStaleRegister, ReportInv, Made,
            Critical, Labels, Threads, GoTo, Continue, Start, AfterLoop
<1>1. ASSUME NEW t \in Threads, SemWait(t)
      PROVE  SemaphoreInv' /\ NoStaleRegister' /\ ReportInv'
  BY <1>1 DEF SemWait
<1>2. ASSUME NEW t \in Threads, Load(t)
      PROVE  SemaphoreInv' /\ NoStaleRegister' /\ ReportInv'
  BY <1>2 DEF Load
<1>3. ASSUME NEW t \in Threads, Store(t)
      PROVE  SemaphoreInv' /\ NoStaleRegister' /\ ReportInv'
  BY <1>3 DEF Store
<1>4. ASSUME NEW t \in Threads, SemPost(t)
      PROVE  SemaphoreInv' /\ NoStaleRegister' /\ ReportInv'
  BY <1>4 DEF SemPost
<1>5. ASSUME NEW t \in Threads, PrintGlobal(t)
      PROVE  SemaphoreInv' /\ NoStaleRegister' /\ ReportInv'
  BY <1>5 DEF PrintGlobal
<1>6. CASE Join
  BY <1>6 DEF Join
<1>7. CASE Destroy
  BY <1>7 DEF Destroy
<1>8. CASE UNCHANGED vars
  BY <1>8 DEF vars
<1>9. QED
  BY <1>1, <1>2, <1>3, <1>4, <1>5, <1>6, <1>7, <1>8 DEF Next, Step

\* The counter and the registers stay between what is sure and what was counted.
LEMMA BoundsStep ==
  IInv /\ [Next]_vars => NeverOvershoots' /\ RegisterInv' /\ AtLeastTwo'
<1> SUFFICES ASSUME IInv, [Next]_vars
             PROVE  NeverOvershoots' /\ RegisterInv' /\ AtLeastTwo'
  OBVIOUS
<1> USE IterationsAssumption
        DEF IInv, TypeOK, NeverOvershoots, RegisterInv, AtLeastTwo, Made, Labels,
            Threads, GoTo, Continue, Start, AfterLoop
<1>1. ASSUME NEW t \in Threads, SemWait(t)
      PROVE  NeverOvershoots' /\ RegisterInv' /\ AtLeastTwo'
  BY <1>1 DEF SemWait
<1>2. ASSUME NEW t \in Threads, Load(t)
      PROVE  NeverOvershoots' /\ RegisterInv' /\ AtLeastTwo'
  BY <1>2 DEF Load
<1>3. ASSUME NEW t \in Threads, Store(t)
      PROVE  NeverOvershoots' /\ RegisterInv' /\ AtLeastTwo'
  <2>1. NeverOvershoots'
    BY <1>3 DEF Store
  <2>2. RegisterInv'
    BY <1>3 DEF Store
  <2>3. AtLeastTwo'
    BY <1>3 DEF Store
  <2>4. QED
    BY <2>1, <2>2, <2>3
<1>4. ASSUME NEW t \in Threads, SemPost(t)
      PROVE  NeverOvershoots' /\ RegisterInv' /\ AtLeastTwo'
  <2>1. NeverOvershoots'
    BY <1>4 DEF SemPost
  <2>2. RegisterInv'
    BY <1>4 DEF SemPost, Critical, SemaphoreInv, NoStaleRegister
  <2>3. AtLeastTwo'
    BY <1>4 DEF SemPost, Critical, SemaphoreInv, NoStaleRegister
  <2>4. QED
    BY <2>1, <2>2, <2>3
<1>5. ASSUME NEW t \in Threads, PrintGlobal(t)
      PROVE  NeverOvershoots' /\ RegisterInv' /\ AtLeastTwo'
  BY <1>5 DEF PrintGlobal
<1>6. CASE Join
  BY <1>6 DEF Join
<1>7. CASE Destroy
  BY <1>7 DEF Destroy
<1>8. CASE UNCHANGED vars
  BY <1>8 DEF vars
<1>9. QED
  BY <1>1, <1>2, <1>3, <1>4, <1>5, <1>6, <1>7, <1>8 DEF Next, Step

\* The inductive invariant holds in every reachable state.
THEOREM Invariance == Spec => []IInv
<1>1. IInv /\ [Next]_vars => IInv'
  BY TypeStep, ProtectedStep, BoundsStep DEF IInv
<1>2. QED
  BY <1>1, InitInv, PTL DEF Spec

\* The values stay in range, and each program at its own labels.
THEOREM TypeCorrect == Spec => []TypeOK
<1>1. IInv => TypeOK
  BY DEF IInv
<1>2. QED
  BY <1>1, Invariance, PTL

\* No thread stores a value that another one has overtaken: no increment is
\* lost between sem_wait and sem_post.
THEOREM ExactCount == Spec => []NoStaleRegister
<1>1. IInv => NoStaleRegister
  BY DEF IInv
<1>2. QED
  BY <1>1, Invariance, PTL

\* Every schedule, protected or not, leaves at least two increments, however many
\* it makes.
THEOREM LowerBound == Spec => []AtLeastTwo
<1>1. IInv => AtLeastTwo
  BY DEF IInv
<1>2. QED
  BY <1>1, Invariance, PTL

\* sem_destroy is called on a free semaphore that nobody uses again.
THEOREM SafeDestroy == Spec => []DestroyedUnused
<1>1. IInv => DestroyedUnused
  BY DEF IInv, DestroyedUnused, ReportInv, SemaphoreInv, TypeOK, Critical, Threads
<1>2. QED
  BY <1>1, Invariance, PTL

-----------------------------------------------------------------------------
\* The store is the abstract addition, and the print of main the report; every
\* other step leaves what is counted alone.
LEMMA StepRefines == IInv /\ [Next]_vars => [S!Next]_(S!vars)
<1> SUFFICES ASSUME IInv, [Next]_vars PROVE [S!Next]_(S!vars)
  OBVIOUS
<1> USE IterationsAssumption
        DEF IInv, TypeOK, Critical, Labels, Threads, GoTo, Continue, Start,
            AfterLoop, Made, S!vars
<1> S!Threads = Threads
  BY DEF S!Threads
<1>1. ASSUME NEW t \in Threads, SemWait(t) PROVE UNCHANGED S!vars
  BY <1>1 DEF SemWait
<1>2. ASSUME NEW t \in Threads, Load(t) PROVE UNCHANGED S!vars
  BY <1>2 DEF Load
<1>3. ASSUME NEW t \in Threads, Store(t) PROVE S!Add(t)
  <2>1. CASE protected
    BY <1>3, <2>1 DEF Store, S!Add, NoStaleRegister
  <2>2. CASE ~protected
    <3>1. /\ Made[t] < Iterations /\ Made' = [Made EXCEPT ![t] = @ + 1]
          /\ UNCHANGED <<protected, printed>>
      BY <1>3, <2>2 DEF Store
    <3>2. global' \in 1 .. Made["main"] + Made["child"] + 1
      BY <1>3, <2>2 DEF Store, RegisterInv
    <3>3. QED
      BY <2>2, <3>1, <3>2 DEF S!Add
  <2>3. QED
    BY <2>1, <2>2
<1>4. ASSUME NEW t \in Threads, SemPost(t) PROVE UNCHANGED S!vars
  BY <1>4 DEF SemPost
<1>5. ASSUME NEW t \in Threads, PrintGlobal(t) PROVE S!Report \/ UNCHANGED S!vars
  <2>1. CASE t = "child"
    BY <1>5, <2>1 DEF PrintGlobal
  <2>2. CASE t = "main"
    <3>1. printed["main"] = -1 /\ Made["main"] = Iterations
      BY <1>5, <2>2 DEF PrintGlobal, ReportInv
    <3>2. protected => global = 2 * Iterations
      BY <1>5, <2>2 DEF PrintGlobal, ReportInv, NoStaleRegister
    <3>3. printed'["main"] = global /\ UNCHANGED <<protected, global, Made>>
      BY <1>5, <2>2 DEF PrintGlobal
    <3>4. QED
      BY <3>1, <3>2, <3>3 DEF S!Report
  <2>3. QED
    BY <2>1, <2>2
<1>6. CASE Join
  BY <1>6 DEF Join
<1>7. CASE Destroy
  BY <1>7 DEF Destroy
<1>8. CASE UNCHANGED vars
  BY <1>8 DEF vars
<1>9. QED
  BY <1>1, <1>2, <1>3, <1>4, <1>5, <1>6, <1>7, <1>8 DEF Next, Step, S!Next

\* With the semaphore the program counts as if every increment were atomic and
\* prints the exact total of both threads; without it, it invents nothing.
THEOREM Implementation == Spec => ImplementsSharedCounter
<1>1. Init => S!Init
  <2> SUFFICES ASSUME Init PROVE S!Init
    OBVIOUS
  <2>1. Made = [t \in S!Threads |-> 0]
    BY DEF Init, Made, Start, S!Threads, Threads
  <2>2. global = 0 /\ printed["main"] = -1
    BY DEF Init, Threads
  <2>3. protected \in BOOLEAN
    BY DEF Init
  <2>4. QED
    BY <2>1, <2>2, <2>3 DEF S!Init
<1>2. QED
  BY <1>1, Invariance, StepRefines, PTL
     DEF Spec, ImplementsSharedCounter, S!Spec

=============================================================================
