----------------------------- MODULE DiningTable -----------------------------
(***************************************************************************)
(* The round table of ex3/taskF/main.c: the philosophers, which are the    *)
(* values of "phil" (the thread's args), and the forks, numbered alike.    *)
(* Philosopher p eats with forks p and Right(p).  The program has five.    *)
(***************************************************************************)
EXTENDS Integers

CONSTANTS N,       (* number of philosophers and of forks (5 in the code) *)
          Nobody   (* the owner of a free mutex                           *)

ASSUME TableAssumption ==
  /\ N \in Nat \ {0, 1}
  /\ Nobody \notin 0..N-1

Phil == 0..N-1

\* The second fork: forks[0] for the last philosopher, forks[phil+1] for others.
Right(p) == IF p = N-1 THEN 0 ELSE p+1

\* A pthread mutex is its owner or Nobody; these are the values of an array of
\* mutexes after fork f has been locked by p, and after it has been unlocked.
Locked(m, f, p) == [m EXCEPT ![f] = p]

\* Plausible bug: the fork is handed to the next philosopher, without wrapping.
Unlocked_HandOver(m, f) == [m EXCEPT ![f] = f+1]

Unlocked(m, f) == [m EXCEPT ![f] = Nobody]

=============================================================================
