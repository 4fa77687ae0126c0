---------------------------- MODULE SharedCounter ----------------------------
(***************************************************************************)
(* What the programs of ex3/taskA..C count: two threads, the main thread   *)
(* and the one it creates, add one to global_var Iterations times each,    *)
(* and the main thread prints it.  With the semaphore of taskC every       *)
(* addition is exact and so is the total.  Without it (taskA, taskB) an    *)
(* addition may undo others, but it invents nothing.                       *)
(***************************************************************************)
EXTENDS Integers

CONSTANT Iterations   (* loop iterations of a thread (50 000 000 in the code) *)

Threads == {"main", "child"}

VARIABLES exact,     (* whether additions are exact              *)
          total,     (* the shared counter                       *)
          made,      (* how many additions each thread has made  *)
          reported   (* what the main thread has printed, or -1  *)

vars == <<exact, total, made, reported>>

Init ==
  /\ exact \in BOOLEAN
  /\ total    = 0
  /\ made     = [t \in Threads |-> 0]
  /\ reported = -1

Add(t) ==
  /\ made[t] < Iterations
  /\ made' = [made EXCEPT ![t] = @ + 1]
  /\ IF exact THEN total' = total + 1
              ELSE total' \in 1 .. made["main"] + made["child"] + 1
  /\ UNCHANGED <<exact, reported>>

Report ==
  /\ reported = -1
  /\ made["main"] = Iterations
  /\ reported' = total
  /\ exact => total = 2 * Iterations
  /\ UNCHANGED <<exact, total, made>>

Next == Report \/ \E t \in Threads : Add(t)

Spec == Init /\ [][Next]_vars

=============================================================================
