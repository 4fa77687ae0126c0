------------------------------- MODULE Counter -------------------------------
(***************************************************************************)
(* The programs of ex3/taskA, taskB and taskC: the main thread and the     *)
(* thread it creates both run fn, which increments global_var Iterations   *)
(* times.  taskA and taskB do so without any protection, and both threads  *)
(* print what they find at the end; in taskC the increment is between      *)
(* sem_wait and sem_post of a semaphore with initial value 1, and main     *)
(* joins the other thread, prints the total and destroys the semaphore.    *)
(*                                                                         *)
(* Built at -O0 (the Makefiles), an increment is a load into a register,   *)
(* an addition and a store; the other thread may run between the load and  *)
(* the store.  local_var equals the loop counter.                          *)
(***************************************************************************)
EXTENDS Integers

CONSTANT Iterations   (* 50 000 000 in the code *)

ASSUME IterationsAssumption == Iterations \in Nat \ {0, 1}

Threads == {"main", "child"}

VARIABLES protected, (* whether it is the program of taskC                *)
          pc,        (* the next call or access of each thread            *)
          i,         (* completed iterations (and local_var)              *)
          reg,       (* the register that global_var is loaded into       *)
          global,    (* global_var                                        *)
          sem,       (* the value of the semaphore                        *)
          printed,   (* the global_var each thread has printed, or -1     *)
          destroyed  (* main has called sem_destroy                       *)

vars == <<protected, pc, i, reg, global, sem, printed, destroyed>>

Labels == {"wait", "load", "store", "post", "print", "join", "destroy", "done"}

Start == IF protected THEN "wait" ELSE "load"

Init ==
  /\ protected \in BOOLEAN
  /\ pc        = [t \in Threads |-> Start]
  /\ i         = [t \in Threads |-> 0]
  /\ reg       = [t \in Threads |-> 0]
  /\ global    = 0
  /\ sem       = 1
  /\ printed   = [t \in Threads |-> -1]
  /\ destroyed = FALSE

-----------------------------------------------------------------------------
GoTo(t, l) == pc' = [pc EXCEPT ![t] = l]

\* After the loop of taskC the created thread returns and main joins it; the
\* other programs print first.
AfterLoop(t) ==
  IF ~protected THEN "print" ELSE IF t = "main" THEN "join" ELSE "done"

\* local_var++, i++ and the test i < 50000000
Continue(t) ==
  /\ i' = [i EXCEPT ![t] = @ + 1]
  /\ GoTo(t, IF i[t] + 1 < Iterations THEN Start ELSE AfterLoop(t))

\* Plausible bug: sem_wait does not block.
SemWait_NoBlock(t) ==
  /\ pc[t] = "wait"
  /\ sem' = IF sem > 0 THEN sem - 1 ELSE sem
  /\ GoTo(t, "load")
  /\ UNCHANGED <<protected, i, reg, global, printed, destroyed>>

\* sem_wait(&sem)
SemWait(t) ==
  /\ pc[t] = "wait"
  /\ sem > 0
  /\ sem' = sem - 1
  /\ GoTo(t, "load")
  /\ UNCHANGED <<protected, i, reg, global, printed, destroyed>>

\* The load of global_var++ ...
Load(t) ==
  /\ pc[t] = "load"
  /\ reg' = [reg EXCEPT ![t] = global]
  /\ GoTo(t, "store")
  /\ UNCHANGED <<protected, i, global, sem, printed, destroyed>>

\* Plausible bug: the loop keeps the value it loaded first.
Store_Hoisted(t) ==
  /\ pc[t] = "store"
  /\ global' = reg[t] + 1
  /\ IF i[t] + 1 < Iterations THEN i' = [i EXCEPT ![t] = @ + 1] /\ UNCHANGED pc
                              ELSE Continue(t)
  /\ UNCHANGED <<protected, reg, sem, printed, destroyed>>

\* ... and its store.
Store(t) ==
  /\ pc[t] = "store"
  /\ global' = reg[t] + 1
  /\ IF protected THEN GoTo(t, "post") /\ UNCHANGED i ELSE Continue(t)
  /\ UNCHANGED <<protected, reg, sem, printed, destroyed>>

\* sem_post(&sem)
SemPost(t) ==
  /\ pc[t] = "post"
  /\ sem' = sem + 1
  /\ Continue(t)
  /\ UNCHANGED <<protected, reg, global, printed, destroyed>>

\* pthread_join, by main
Join ==
  /\ pc["main"] = "join"
  /\ pc["child"] = "done"
  /\ GoTo("main", IF protected THEN "print" ELSE "done")
  /\ UNCHANGED <<protected, i, reg, global, sem, printed, destroyed>>

\* printf("global: %ld\n", global_var), at the end of fn, or in taskC of main
PrintGlobal(t) ==
  /\ pc[t] = "print"
  /\ printed' = [printed EXCEPT ![t] = global]
  /\ GoTo(t, IF protected THEN "destroy" ELSE IF t = "main" THEN "join" ELSE "done")
  /\ UNCHANGED <<protected, i, reg, global, sem, destroyed>>

\* sem_destroy(&sem)
Destroy ==
  /\ pc["main"] = "destroy"
  /\ destroyed' = TRUE
  /\ GoTo("main", "done")
  /\ UNCHANGED <<protected, i, reg, global, sem, printed>>

Step(t) ==
  \/ SemWait(t) \/ Load(t) \/ Store(t) \/ SemPost(t) \/ PrintGlobal(t)

Finished == \A t \in Threads : pc[t] = "done"

Next == \/ \E t \in Threads : Step(t)
        \/ Join \/ Destroy
        \/ Finished /\ UNCHANGED vars

\* The operating system schedules both threads; the semaphore is not fair.
Fairness == /\ \A t \in Threads : WF_vars(Step(t))
            /\ WF_vars(Join \/ Destroy)

Spec == Init /\ [][Next]_vars /\ Fairness

-----------------------------------------------------------------------------
Critical(t) == pc[t] \in {"load", "store", "post"}

\* The values in range; the loop is left exactly after the last iteration; what
\* taskC does only, and what only the others do.
TypeOK ==
  /\ protected \in BOOLEAN
  /\ pc        \in [Threads -> Labels]
  /\ i         \in [Threads -> 0..Iterations]
  /\ \A t \in Threads : i[t] < Iterations <=> pc[t] = "wait" \/ Critical(t)
  /\ reg       \in [Threads -> Nat]
  /\ global    \in Nat
  /\ sem       \in {0, 1}
  /\ printed   \in [Threads -> Nat \cup {-1}]
  /\ destroyed \in BOOLEAN
  /\ pc["child"] \notin {"join", "destroy"}
  /\ IF protected THEN pc["child"] # "print"
     ELSE \A t \in Threads : pc[t] \notin {"wait", "post", "destroy"}

\* The increments a thread has stored, those of the current iteration included.
Made == [t \in Threads |-> IF pc[t] = "post" THEN i[t] + 1 ELSE i[t]]

\* With the semaphore a stored value is never stale: between its load and its
\* store no other thread stores, so no increment is lost (taskC, lines 15-17).
NoStaleRegister ==
  protected =>
    /\ \A t \in Threads : pc[t] = "store" => reg[t] = global
    /\ global = Made["main"] + Made["child"]

\* Updates may be lost but are never invented: the counter is at most the number
\* of increments completed.
NeverOvershoots == global <= Made["main"] + Made["child"]

\* How much can be lost: all but two increments, and no more.  A thread that
\* has stored once loads at least 1 from then on, so the last store leaves at
\* least 2, whatever the interleaving.
AtLeastTwo ==
  (\A t \in Threads : i[t] >= 2) => global >= 2

\* The semaphore is destroyed when it is free and will not be used again.
DestroyedUnused ==
  destroyed => pc["child"] = "done" /\ sem = 1

\* With the semaphore the program counts as if each increment were atomic, and
\* prints the total; without it, it invents nothing.
S == INSTANCE SharedCounter
       WITH exact <- protected, total <- global, made <- Made,
            reported <- printed["main"]
ImplementsSharedCounter == S!Spec

=============================================================================
