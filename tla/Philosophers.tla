---------------------------- MODULE Philosophers ----------------------------
(***************************************************************************)
(* The program of ex3/taskF/main.c: five threads and the main thread that  *)
(* joins them and destroys the forks.  The threads all run one of the      *)
(* three strategies of that file (main passes eat_safe):                   *)
(*                                                                         *)
(*   eat         locks its own fork, then the next one, and eats once;     *)
(*   eat_waiter  asks the mutex "waiter" for permission, takes both forks  *)
(*               with blocking locks, gives the permission back and eats;  *)
(*   eat_safe    tries both forks without blocking, puts the first one     *)
(*               back when the second one is taken, and sits one iteration *)
(*               out after a meal.                                         *)
(*                                                                         *)
(* A step is one call on a pthread mutex together with the local           *)
(* assignments up to the next one.  sleep(2) and printf are left out.      *)
(***************************************************************************)
EXTENDS DiningTable

CONSTANT Rounds   (* iterations of the loops (50 in the code) *)

ASSUME RoundsAssumption == Rounds \in Nat \ {0}

VARIABLES strategy,  (* the function the threads run                          *)
          pc,        (* the next call of each thread                          *)
          iter,      (* the loop counter i of each thread                     *)
          just_ate,  (* the flag of each thread that runs eat_safe            *)
          meals,     (* history: how often the thread printed "%d eating"     *)
          forks,     (* the owner of each fork                                *)
          waiter,    (* the owner of the mutex waiter                         *)
          destroyed  (* how many forks main has destroyed                     *)

vars == <<strategy, pc, iter, just_ate, meals, forks, waiter, destroyed>>

Strategies == {"eat", "eat_waiter", "eat_safe"}

\* "eat" is the first unlock after the meal, "rise" the test of just_ate before it.
Labels == [eat        |-> {"first", "second", "eat", "put2", "done"},
           eat_waiter |-> {"waiter", "first", "second", "seated", "eat", "put2", "done"},
           eat_safe   |-> {"try", "try2", "back", "rise", "eat", "put2", "done"}]

Start == [eat |-> "first", eat_waiter |-> "waiter", eat_safe |-> "try"]

\* eat has no loop.
Loops == IF strategy = "eat" THEN 1 ELSE Rounds

Init ==
  /\ strategy  \in Strategies
  /\ pc        = [p \in Phil |-> Start[strategy]]
  /\ iter      = [p \in Phil |-> 0]
  /\ just_ate  = [p \in Phil |-> FALSE]
  /\ meals     = [p \in Phil |-> 0]
  /\ forks     = [f \in Phil |-> Nobody]
  /\ waiter    = Nobody
  /\ destroyed = 0

-----------------------------------------------------------------------------
GoTo(p, l) == pc' = [pc EXCEPT ![p] = l]

\* Plausible bug: the loop counter is not incremented.
Continue_NoCount(p) ==
  /\ GoTo(p, Start[strategy])
  /\ UNCHANGED iter

\* The end of the function, or "continue": i++ and the test i < 50.
Continue(p) ==
  /\ iter' = [iter EXCEPT ![p] = @ + 1]
  /\ GoTo(p, IF iter[p] + 1 < Loops THEN Start[strategy] ELSE "done")

Eats(p) == meals' = [meals EXCEPT ![p] = @ + 1]

\* Plausible bug: the permission is not waited for.
AskWaiter_NoWait(p) ==
  /\ pc[p] = "waiter"
  /\ waiter' = p
  /\ GoTo(p, "first")
  /\ UNCHANGED <<iter, just_ate, meals, forks>>

\* pthread_mutex_lock(&waiter)
AskWaiter(p) ==
  /\ pc[p] = "waiter"
  /\ waiter = Nobody
  /\ waiter' = p
  /\ GoTo(p, "first")
  /\ UNCHANGED <<iter, just_ate, meals, forks>>

\* pthread_mutex_lock(&forks[phil])
TakeFirst(p) ==
  /\ pc[p] = "first"
  /\ forks[p] = Nobody
  /\ forks' = Locked(forks, p, p)
  /\ GoTo(p, "second")
  /\ UNCHANGED <<iter, just_ate, meals, waiter>>

\* pthread_mutex_lock(&forks[phil+1]), forks[0] for the last philosopher; eat
\* prints "%d eating" at once.
TakeSecond(p) ==
  /\ pc[p] = "second"
  /\ forks[Right(p)] = Nobody
  /\ forks' = Locked(forks, Right(p), p)
  /\ IF strategy = "eat" THEN GoTo(p, "eat") /\ Eats(p)
                         ELSE GoTo(p, "seated") /\ UNCHANGED meals
  /\ UNCHANGED <<iter, just_ate, waiter>>

\* pthread_mutex_unlock(&waiter), and "%d eating" is printed.
ReleaseWaiter(p) ==
  /\ pc[p] = "seated"
  /\ waiter' = Nobody
  /\ Eats(p) /\ GoTo(p, "eat")
  /\ UNCHANGED <<iter, just_ate, forks>>

-----------------------------------------------------------------------------
\* !just_ate && !pthread_mutex_trylock(&forks[phil])
TryFirst(p) ==
  /\ pc[p] = "try"
  /\ ~just_ate[p]
  /\ forks[p] = Nobody
  /\ forks' = Locked(forks, p, p)
  /\ GoTo(p, "try2")
  /\ UNCHANGED <<iter, just_ate, meals, waiter>>

\* The else branch: the philosopher has just eaten, or its fork is taken.
SitOut(p) ==
  /\ pc[p] = "try"
  /\ just_ate[p] \/ forks[p] # Nobody
  /\ just_ate' = [just_ate EXCEPT ![p] = FALSE]
  /\ Continue(p)
  /\ UNCHANGED <<meals, forks, waiter>>

\* Plausible bug: the result of the second trylock is not looked at.
TrySecond_Unchecked(p) ==
  /\ pc[p] = "try2"
  /\ forks' = IF forks[Right(p)] = Nobody
              THEN Locked(forks, Right(p), p) ELSE forks
  /\ Eats(p) /\ GoTo(p, "rise")
  /\ UNCHANGED <<iter, just_ate, waiter>>

\* pthread_mutex_trylock(&forks[index]) succeeds; "%d eating" is printed.
TrySecond(p) ==
  /\ pc[p] = "try2"
  /\ forks[Right(p)] = Nobody
  /\ forks' = Locked(forks, Right(p), p)
  /\ Eats(p) /\ GoTo(p, "rise")
  /\ UNCHANGED <<iter, just_ate, waiter>>

\* pthread_mutex_trylock(&forks[index]) fails.
SecondTaken(p) ==
  /\ pc[p] = "try2"
  /\ forks[Right(p)] # Nobody
  /\ GoTo(p, "back")
  /\ UNCHANGED <<iter, just_ate, meals, forks, waiter>>

\* The first fork is put back and the iteration ends without a meal.
PutBack(p) ==
  /\ pc[p] = "back"
  /\ forks' = Unlocked(forks, p)
  /\ just_ate' = [just_ate EXCEPT ![p] = FALSE]
  /\ Continue(p)
  /\ UNCHANGED <<meals, waiter>>

\* After the meal: "if (just_ate) continue;", which would keep both forks,
\* then just_ate = 1.
Rise(p) ==
  /\ pc[p] = "rise"
  /\ IF just_ate[p]
     THEN Continue(p) /\ UNCHANGED just_ate
     ELSE /\ just_ate' = [just_ate EXCEPT ![p] = TRUE]
          /\ GoTo(p, "eat")
          /\ UNCHANGED iter
  /\ UNCHANGED <<meals, forks, waiter>>

-----------------------------------------------------------------------------
\* pthread_mutex_unlock(&forks[phil]), after the meal
PutFirst(p) ==
  /\ pc[p] = "eat"
  /\ forks' = Unlocked(forks, p)
  /\ GoTo(p, "put2")
  /\ UNCHANGED <<iter, just_ate, meals, waiter>>

\* Plausible bug: the second fork is never unlocked.
PutSecond_Keep(p) ==
  /\ pc[p] = "put2"
  /\ Continue(p)
  /\ UNCHANGED <<just_ate, meals, forks, waiter>>

\* pthread_mutex_unlock of the second fork, and the end of the iteration
PutSecond(p) ==
  /\ pc[p] = "put2"
  /\ forks' = Unlocked(forks, Right(p))
  /\ Continue(p)
  /\ UNCHANGED <<just_ate, meals, waiter>>

Step(p) ==
  /\ \/ AskWaiter(p) \/ TakeFirst(p) \/ TakeSecond(p) \/ ReleaseWaiter(p)
     \/ TryFirst(p) \/ SitOut(p) \/ TrySecond(p) \/ SecondTaken(p)
     \/ PutBack(p) \/ Rise(p) \/ PutFirst(p) \/ PutSecond(p)
  /\ UNCHANGED <<strategy, destroyed>>

\* Plausible bug: main does not join the threads before it cleans up.
DestroyFork_NoJoin ==
  /\ destroyed < N
  /\ destroyed' = destroyed + 1
  /\ UNCHANGED <<strategy, pc, iter, just_ate, meals, forks, waiter>>

\* main: once every thread has been joined, pthread_mutex_destroy(&forks[i]).
DestroyFork ==
  /\ \A p \in Phil : pc[p] = "done"
  /\ destroyed < N
  /\ destroyed' = destroyed + 1
  /\ UNCHANGED <<strategy, pc, iter, just_ate, meals, forks, waiter>>

Next == DestroyFork \/ \E p \in Phil : Step(p)

\* Each thread is scheduled by the operating system, and a mutex that stays
\* free is eventually granted; which of several waiting threads gets a mutex
\* is not fair (PTHREAD_MUTEX_DEFAULT), hence weak fairness only.
Spec == /\ Init /\ [][Next]_vars
        /\ \A p \in Phil : WF_vars(Step(p))
        /\ WF_vars(DestroyFork)

-----------------------------------------------------------------------------
\* The values in range; the loop is left exactly when i reaches the bound.
TypeOK ==
  /\ strategy  \in Strategies
  /\ pc        \in [Phil -> Labels[strategy]]
  /\ iter      \in [Phil -> 0..Loops]
  /\ \A p \in Phil : iter[p] = Loops <=> pc[p] = "done"
  /\ just_ate  \in [Phil -> BOOLEAN]
  /\ meals     \in [Phil -> Nat]
  /\ forks     \in [Phil -> Phil \cup {Nobody}]
  /\ waiter    \in Phil \cup {Nobody}
  /\ destroyed \in 0..N

\* The forks p has locked and not yet unlocked, read off its program counter.
Holding(p) ==
  (IF pc[p] \in {"second", "seated", "try2", "back", "rise", "eat"}
   THEN {p} ELSE {}) \cup
  (IF pc[p] \in {"seated", "rise", "eat", "put2"} THEN {Right(p)} ELSE {})

\* No path through a strategy leaks a mutex or unlocks one it does not own: each
\* thread owns exactly the forks its program counter says it holds, and the
\* waiter's permission is with the one thread between its lock and its unlock.
OwnershipInv ==
  /\ \A p \in Phil : \A f \in Phil : forks[f] = p <=> f \in Holding(p)
  /\ \A p \in Phil :
       waiter = p <=> strategy = "eat_waiter" /\ pc[p] \in {"first", "second", "seated"}

Waiting(p, f) == (pc[p] = "first" /\ f = p) \/ (pc[p] = "second" /\ f = Right(p))

\* With the waiter's permission a philosopher never blocks on a fork whose owner
\* may itself be blocked: whoever holds a fork that another one is waiting for is
\* eating or putting its forks down.  (lines 76-83: the permission covers both.)
WaitsOnlyForEaters ==
  strategy = "eat_waiter" =>
    \A p \in Phil : \A q \in Phil : \A f \in Phil :
      Waiting(p, f) /\ forks[f] = q => pc[q] \in {"eat", "put2"}

\* Whether p can take its next step: the guards of the actions above.
CanStep(p) ==
  \/ pc[p] \in {"seated", "try", "try2", "back", "rise", "eat", "put2"}
  \/ pc[p] = "waiter" /\ waiter = Nobody
  \/ pc[p] = "first"  /\ forks[p] = Nobody
  \/ pc[p] = "second" /\ forks[Right(p)] = Nobody

Finished == \A p \in Phil : pc[p] = "done"

CircularWait == strategy = "eat" /\ \A p \in Phil : pc[p] = "second"

\* The one deadlock: if no thread can take a step and not all have returned,
\* then the strategy is eat, and every philosopher holds its own fork and waits
\* for its neighbour's.  The two other strategies of the file never get stuck.
StuckOnlyInCircle ==
  (\A p \in Phil : ~CanStep(p)) => Finished \/ CircularWait

\* main destroys the forks only when every mutex is free and nobody will lock
\* one again: destroying a locked mutex is undefined (lines 120-127).
DestroyedUnused ==
  destroyed > 0 => \A p \in Phil : pc[p] = "done" /\ forks[p] = Nobody

\* Nobody eats in two consecutive iterations of eat_safe, however the threads
\* are scheduled: at most half of the iterations, rounded up, were meals.
SitsOutAfterMeal ==
  strategy = "eat_safe" =>
    \A p \in Phil :
      2 * meals[p] <= iter[p] + (IF pc[p] \in {"rise", "eat", "put2"} THEN 2
                                 ELSE IF just_ate[p] THEN 1 ELSE 0)

\* The strategies implement the abstract table: the deadlock of eat costs meals,
\* never the exclusion of neighbours.
Eating == {p \in Phil : pc[p] \in {"rise", "eat"}}
Gone   == {p \in Phil : pc[p] = "done"}

D == INSTANCE Dining WITH eating <- Eating, gone <- Gone
ImplementsDining == D!Spec

\* Every thread returns, and so does main, after every meal that is due, unless
\* the circle of eat closes; although no mutex is fair, whoever could overtake a
\* philosopher does so a bounded number of times.
ProgramReturns ==
  \/ <>[](destroyed = N /\ (strategy # "eat_safe" => \A p \in Phil : meals[p] = Loops))
  \/ <>[]CircularWait
=============================================================================
