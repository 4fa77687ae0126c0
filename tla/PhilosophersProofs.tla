------------------------- MODULE PhilosophersProofs -------------------------
(***************************************************************************)
(* Proofs about the three strategies of ex3/taskF/main.c, for every number *)
(* of philosophers and rounds.  The inductive invariant adds two facts to  *)
(* OwnershipInv and SitsOutAfterMeal: what the flag just_ate says at each  *)
(* label, and that main destroys forks only after every thread returned.   *)
(* Exclusion at the table, the absence of waiting chains and the one       *)
(* deadlock follow from it.                                                *)
(***************************************************************************)
EXTENDS Philosophers, WellFoundedInduction, TLAPS

\* The neighbour's fork exists, is not one's own, and is nobody else's second
\* fork (the choice between forks[0] and forks[phil+1]).
LEMMA RightFork ==
  /\ \A p \in Phil : Right(p) \in Phil /\ Right(p) # p
  /\ \A p, q \in Phil : Right(p) = Right(q) => p = q
  /\ \A p \in Phil : p # Nobody
  BY TableAssumption DEF Phil, Right

\* The strategies have a first label among their labels, and loop at least once.
LEMMA StrategyFacts ==
  ASSUME strategy \in Strategies
  PROVE  /\ Loops \in Nat /\ Loops > 0
         /\ Start[strategy] \in Labels[strategy] /\ Start[strategy] # "done"
  BY RoundsAssumption DEF Strategies, Loops, Start, Labels

\* A set of natural numbers that is not empty has a least element.
LEMMA LeastElement ==
  ASSUME NEW T \in SUBSET Nat, T # {}
  PROVE  \E m \in T : \A k \in T : m <= k
<1> DEFINE Less == {ss \in Nat \X Nat : ss[1] < ss[2]}
<1>1. IsWellFoundedOn(Less, Nat)
  BY NatLessThanWellFounded DEF OpToRel
<1>2. PICK m \in T : \A k \in T : ~(<<k, m>> \in Less)
  BY <1>1, WFMin
<1>3. ASSUME NEW k \in T PROVE m <= k
  <2>1. k < m => <<k, m>> \in Less
    OBVIOUS
  <2>2. ~(k < m)
    BY <1>2, <2>1
  <2>3. QED
    BY <2>2
<1>4. QED
  BY <1>3

\* Whoever is stuck makes the right neighbour stuck, and so around the table.
LEMMA RoundTheTable ==
  ASSUME NEW S \in SUBSET Phil, S # {}, \A p \in S : Right(p) \in S
  PROVE  S = Phil
<1> DEFINE Rest == Phil \ S
           Far  == {k \in Nat : k < N /\ N-1-k \in S}
<1> USE TableAssumption
<1>1. N-1 \in S
  <2>1. Far # {} /\ Far \in SUBSET Nat
    <3>1. PICK p \in S : TRUE
      OBVIOUS
    <3>2. p \in Int /\ N-1-p \in Nat /\ N-1-p < N /\ N-1-(N-1-p) = p
      BY <3>1 DEF Phil
    <3>3. N-1-p \in Far
      BY <3>2, <3>1
    <3>4. QED
      BY <3>3
  <2>2. PICK k \in Far : \A j \in Far : k <= j
    BY <2>1, LeastElement
  <2>3. CASE k = 0
    BY <2>3, <2>2
  <2>4. CASE k # 0
    <3>1. N-1-k \in S /\ N-1-k # N-1
      BY <2>4, <2>2
    <3>2. N-1-(k-1) \in S
      BY <3>1 DEF Right
    <3>3. k-1 \in Far
      BY <3>2, <2>4
    <3>4. QED
      BY <3>3, <2>2
  <2>5. QED
    BY <2>3, <2>4
<1>2. 0 \in S
  BY <1>1 DEF Right
<1>3. ASSUME Rest # {} PROVE FALSE
  <2>0. Rest \in SUBSET Nat
    BY DEF Phil
  <2>1. PICK m \in Rest : \A k \in Rest : m <= k
    BY <1>3, <2>0, LeastElement
  <2>2. m-1 \in Phil /\ m-1 # N-1
    BY <2>1, <1>2 DEF Phil
  <2>3. m-1 \in S
    BY <2>1, <2>2 DEF Phil
  <2>4. m \in S
    BY <2>3, <2>2 DEF Right, Phil
  <2>5. QED
    BY <2>4, <2>1
<1>4. QED
  BY <1>3

Same == UNCHANGED <<strategy, destroyed>>

\* The flag is down whenever a meal begins, so the second test of just_ate in
\* the code (line 58) never leaves the loop body with the forks held.
FlagInv ==
  \A p \in Phil :
    /\ pc[p] \in {"try2", "back", "rise"} => ~just_ate[p]
    /\ strategy = "eat_safe" /\ pc[p] \in {"eat", "put2"} => just_ate[p]

JoinedInv == destroyed > 0 => \A p \in Phil : pc[p] = "done"

-----------------------------------------------------------------------------
\* Going on to the next iteration, or out of the loop, keeps the counters in range.
LEMMA ContinueType ==
  ASSUME TypeOK, Same, NEW p \in Phil, pc[p] # "done", Continue(p)
  PROVE  /\ strategy' \in Strategies /\ Loops' = Loops
         /\ pc' \in [Phil -> Labels[strategy]] /\ iter' \in [Phil -> 0..Loops]
         /\ \A q \in Phil : iter'[q] = Loops <=> pc'[q] = "done"
<1> USE DEF TypeOK, Same, Continue, GoTo
<1>1. strategy' = strategy /\ Loops' = Loops
  BY DEF Loops
<1>2. /\ Loops \in Nat /\ iter[p] \in 0..Loops /\ iter[p] # Loops
      /\ Start[strategy] \in Labels[strategy] /\ Start[strategy] # "done"
  BY StrategyFacts
<1>3. "done" \in Labels[strategy]
  BY DEF Strategies, Labels
<1>4. QED
  BY <1>1, <1>2, <1>3

\* No call takes a program counter, a loop counter or a mutex out of its range.
LEMMA TypeStep ==
  TypeOK /\ FlagInv /\ [Next]_vars => TypeOK'
<1> SUFFICES ASSUME TypeOK, FlagInv, [Next]_vars PROVE TypeOK'
  OBVIOUS
<1> USE RightFork
        DEF TypeOK, Strategies, Labels, Loops, Same, GoTo, Eats, Locked, Unlocked
<1>1. ASSUME NEW p \in Phil, AskWaiter(p), Same PROVE TypeOK'
  BY <1>1 DEF AskWaiter
<1>2. ASSUME NEW p \in Phil, TakeFirst(p), Same PROVE TypeOK'
  BY <1>2 DEF TakeFirst
<1>3. ASSUME NEW p \in Phil, TakeSecond(p), Same PROVE TypeOK'
  <2>1. CASE strategy = "eat"
    BY SMTT(30), <1>3, <2>1 DEF TakeSecond
  <2>2. CASE strategy # "eat"
    BY SMTT(30), <1>3, <2>2 DEF TakeSecond
  <2>3. QED
    BY <2>1, <2>2
<1>4. ASSUME NEW p \in Phil, ReleaseWaiter(p), Same PROVE TypeOK'
  BY <1>4 DEF ReleaseWaiter
<1>5. ASSUME NEW p \in Phil, TryFirst(p), Same PROVE TypeOK'
  BY <1>5 DEF TryFirst
<1>6. ASSUME NEW p \in Phil, SitOut(p), Same PROVE TypeOK'
  <2>1. pc[p] # "done" /\ Continue(p)
    BY <1>6 DEF SitOut
  <2>2. QED
    BY <1>6, <2>1, ContinueType DEF SitOut
<1>7. ASSUME NEW p \in Phil, TrySecond(p), Same PROVE TypeOK'
  BY <1>7 DEF TrySecond
<1>8. ASSUME NEW p \in Phil, SecondTaken(p), Same PROVE TypeOK'
  BY <1>8 DEF SecondTaken
<1>9. ASSUME NEW p \in Phil, PutBack(p), Same PROVE TypeOK'
  <2>1. pc[p] # "done" /\ Continue(p)
    BY <1>9 DEF PutBack
  <2>2. QED
    BY <1>9, <2>1, ContinueType DEF PutBack
<1>10. ASSUME NEW p \in Phil, Rise(p), Same PROVE TypeOK'
  <2>1. ~just_ate[p]
    BY <1>10 DEF Rise, FlagInv
  <2>2. /\ pc[p] = "rise" /\ pc' = [pc EXCEPT ![p] = "eat"]
        /\ just_ate' = [just_ate EXCEPT ![p] = TRUE]
        /\ UNCHANGED <<strategy, iter, meals, forks, waiter, destroyed>>
    BY <1>10, <2>1 DEF Rise
  <2>3. "eat" \in Labels[strategy]
    OBVIOUS
  <2>4. QED
    BY <2>2, <2>3
<1>11. ASSUME NEW p \in Phil, PutFirst(p), Same PROVE TypeOK'
  BY <1>11 DEF PutFirst
<1>12. ASSUME NEW p \in Phil, PutSecond(p), Same PROVE TypeOK'
  <2>1. pc[p] # "done" /\ Continue(p)
    BY <1>12 DEF PutSecond
  <2>2. QED
    BY <1>12, <2>1, ContinueType DEF PutSecond
<1>13. CASE DestroyFork
  BY TableAssumption, <1>13 DEF DestroyFork
<1>14. CASE UNCHANGED vars
  BY <1>14 DEF vars
<1>15. QED
  BY <1>1, <1>2, <1>3, <1>4, <1>5, <1>6, <1>7, <1>8, <1>9, <1>10, <1>11,
     <1>12, <1>13, <1>14 DEF Next, Step, Same

\* The flag and the program counter of a thread change together.
LEMMA FlagStep ==
  TypeOK /\ FlagInv /\ [Next]_vars => FlagInv'
<1> SUFFICES ASSUME TypeOK, FlagInv, [Next]_vars PROVE FlagInv'
  OBVIOUS
<1> USE DEF TypeOK, FlagInv, Strategies, Labels, Start, Loops, Same, GoTo, Continue, Eats
<1>1. ASSUME NEW p \in Phil, AskWaiter(p), Same PROVE FlagInv'
  BY <1>1 DEF AskWaiter
<1>2. ASSUME NEW p \in Phil, TakeFirst(p), Same PROVE FlagInv'
  BY <1>2 DEF TakeFirst
<1>3. ASSUME NEW p \in Phil, TakeSecond(p), Same PROVE FlagInv'
  BY <1>3 DEF TakeSecond
<1>4. ASSUME NEW p \in Phil, ReleaseWaiter(p), Same PROVE FlagInv'
  BY <1>4 DEF ReleaseWaiter
<1>5. ASSUME NEW p \in Phil, TryFirst(p), Same PROVE FlagInv'
  BY <1>5 DEF TryFirst
<1>6. ASSUME NEW p \in Phil, SitOut(p), Same PROVE FlagInv'
  BY <1>6 DEF SitOut
<1>7. ASSUME NEW p \in Phil, TrySecond(p), Same PROVE FlagInv'
  BY <1>7 DEF TrySecond
<1>8. ASSUME NEW p \in Phil, SecondTaken(p), Same PROVE FlagInv'
  BY <1>8 DEF SecondTaken
<1>9. ASSUME NEW p \in Phil, PutBack(p), Same PROVE FlagInv'
  BY <1>9 DEF PutBack
<1>10. ASSUME NEW p \in Phil, Rise(p), Same PROVE FlagInv'
  BY <1>10 DEF Rise
<1>11. ASSUME NEW p \in Phil, PutFirst(p), Same PROVE FlagInv'
  BY <1>11 DEF PutFirst
<1>12. ASSUME NEW p \in Phil, PutSecond(p), Same PROVE FlagInv'
  BY <1>12 DEF PutSecond
<1>13. CASE DestroyFork
  BY <1>13 DEF DestroyFork
<1>14. CASE UNCHANGED vars
  BY <1>14 DEF vars
<1>15. QED
  BY <1>1, <1>2, <1>3, <1>4, <1>5, <1>6, <1>7, <1>8, <1>9, <1>10, <1>11,
     <1>12, <1>13, <1>14 DEF Next, Step, Same

\* A lock, a trylock or an unlock moves the owner of a mutex and the program
\* counter of the caller together.
LEMMA OwnershipStep ==
  TypeOK /\ FlagInv /\ OwnershipInv /\ [Next]_vars => OwnershipInv'
<1> SUFFICES ASSUME TypeOK, FlagInv, OwnershipInv, [Next]_vars PROVE OwnershipInv'
  OBVIOUS
<1> USE RightFork
        DEF TypeOK, OwnershipInv, Holding, Strategies, Labels, Start, Loops, Same,
            GoTo, Continue, Eats, Locked, Unlocked
<1>1. ASSUME NEW p \in Phil, AskWaiter(p), Same PROVE OwnershipInv'
  BY <1>1 DEF AskWaiter
<1>2. ASSUME NEW p \in Phil, TakeFirst(p), Same PROVE OwnershipInv'
  BY <1>2 DEF TakeFirst
<1>3. ASSUME NEW p \in Phil, TakeSecond(p), Same PROVE OwnershipInv'
  BY <1>3 DEF TakeSecond
<1>4. ASSUME NEW p \in Phil, ReleaseWaiter(p), Same PROVE OwnershipInv'
  BY <1>4 DEF ReleaseWaiter
<1>5. ASSUME NEW p \in Phil, TryFirst(p), Same PROVE OwnershipInv'
  BY <1>5 DEF TryFirst
<1>6. ASSUME NEW p \in Phil, SitOut(p), Same PROVE OwnershipInv'
  BY <1>6 DEF SitOut
<1>7. ASSUME NEW p \in Phil, TrySecond(p), Same PROVE OwnershipInv'
  BY <1>7 DEF TrySecond
<1>8. ASSUME NEW p \in Phil, SecondTaken(p), Same PROVE OwnershipInv'
  BY <1>8 DEF SecondTaken
<1>9. ASSUME NEW p \in Phil, PutBack(p), Same PROVE OwnershipInv'
  BY <1>9 DEF PutBack
<1>10. ASSUME NEW p \in Phil, Rise(p), Same PROVE OwnershipInv'
  BY <1>10 DEF Rise, FlagInv
<1>11. ASSUME NEW p \in Phil, PutFirst(p), Same PROVE OwnershipInv'
  BY <1>11 DEF PutFirst
<1>12. ASSUME NEW p \in Phil, PutSecond(p), Same PROVE OwnershipInv'
  BY <1>12 DEF PutSecond
<1>13. CASE DestroyFork
  BY <1>13 DEF DestroyFork
<1>14. CASE UNCHANGED vars
  BY <1>14 DEF vars
<1>15. QED
  BY <1>1, <1>2, <1>3, <1>4, <1>5, <1>6, <1>7, <1>8, <1>9, <1>10, <1>11,
     <1>12, <1>13, <1>14 DEF Next, Step, Same

\* Every iteration of eat_safe with a meal is followed by one without.
LEMMA PauseStep ==
  TypeOK /\ FlagInv /\ SitsOutAfterMeal /\ [Next]_vars => SitsOutAfterMeal'
<1> SUFFICES ASSUME TypeOK, FlagInv, SitsOutAfterMeal, [Next]_vars PROVE SitsOutAfterMeal'
  OBVIOUS
<1> USE RoundsAssumption
        DEF TypeOK, FlagInv, SitsOutAfterMeal, Strategies, Labels, Start, Loops,
            Same, GoTo, Continue, Eats
<1>1. ASSUME NEW p \in Phil, AskWaiter(p), Same PROVE SitsOutAfterMeal'
  BY <1>1 DEF AskWaiter
<1>2. ASSUME NEW p \in Phil, TakeFirst(p), Same PROVE SitsOutAfterMeal'
  BY <1>2 DEF TakeFirst
<1>3. ASSUME NEW p \in Phil, TakeSecond(p), Same PROVE SitsOutAfterMeal'
  BY <1>3 DEF TakeSecond
<1>4. ASSUME NEW p \in Phil, ReleaseWaiter(p), Same PROVE SitsOutAfterMeal'
  BY <1>4 DEF ReleaseWaiter
<1>5. ASSUME NEW p \in Phil, TryFirst(p), Same PROVE SitsOutAfterMeal'
  BY <1>5 DEF TryFirst
<1>6. ASSUME NEW p \in Phil, SitOut(p), Same PROVE SitsOutAfterMeal'
  BY <1>6 DEF SitOut
<1>7. ASSUME NEW p \in Phil, TrySecond(p), Same PROVE SitsOutAfterMeal'
  BY <1>7 DEF TrySecond
<1>8. ASSUME NEW p \in Phil, SecondTaken(p), Same PROVE SitsOutAfterMeal'
  BY <1>8 DEF SecondTaken
<1>9. ASSUME NEW p \in Phil, PutBack(p), Same PROVE SitsOutAfterMeal'
  BY <1>9 DEF PutBack
<1>10. ASSUME NEW p \in Phil, Rise(p), Same PROVE SitsOutAfterMeal'
  BY <1>10 DEF Rise
<1>11. ASSUME NEW p \in Phil, PutFirst(p), Same PROVE SitsOutAfterMeal'
  BY <1>11 DEF PutFirst
<1>12. ASSUME NEW p \in Phil, PutSecond(p), Same PROVE SitsOutAfterMeal'
  BY <1>12 DEF PutSecond
<1>13. CASE DestroyFork
  BY <1>13 DEF DestroyFork
<1>14. CASE UNCHANGED vars
  BY <1>14 DEF vars
<1>15. QED
  BY <1>1, <1>2, <1>3, <1>4, <1>5, <1>6, <1>7, <1>8, <1>9, <1>10, <1>11,
     <1>12, <1>13, <1>14 DEF Next, Step, Same

\* Once main destroys forks no thread takes a step any more.
LEMMA JoinedStep == TypeOK /\ JoinedInv /\ [Next]_vars => JoinedInv'
<1> SUFFICES ASSUME TypeOK, JoinedInv, [Next]_vars PROVE JoinedInv'
  OBVIOUS
<1>1. ASSUME NEW p \in Phil, Step(p) PROVE JoinedInv'
  <2>1. pc[p] # "done" /\ UNCHANGED destroyed
    BY <1>1 DEF Step, AskWaiter, TakeFirst, TakeSecond, ReleaseWaiter, TryFirst,
                SitOut, TrySecond, SecondTaken, PutBack, Rise, PutFirst, PutSecond
  <2>2. QED
    BY <2>1 DEF JoinedInv
<1>2. CASE DestroyFork
  BY <1>2 DEF DestroyFork, JoinedInv
<1>3. CASE UNCHANGED vars
  BY <1>3 DEF vars, JoinedInv
<1>4. QED
  BY <1>1, <1>2, <1>3 DEF Next

IInv == TypeOK /\ FlagInv /\ OwnershipInv /\ SitsOutAfterMeal /\ JoinedInv

\* The inductive invariant holds in every reachable state.
THEOREM Invariance == Spec => []IInv
<1>1. Init => IInv
  <2> SUFFICES ASSUME Init PROVE IInv
    OBVIOUS
  <2> USE TableAssumption, RightFork, StrategyFacts DEF Init
  <2>1. TypeOK
    BY DEF TypeOK, Phil
  <2>2. FlagInv /\ OwnershipInv
    BY DEF FlagInv, OwnershipInv, Holding, Strategies, Start
  <2>3. SitsOutAfterMeal /\ JoinedInv
    BY DEF SitsOutAfterMeal, JoinedInv, Start
  <2>4. QED
    BY <2>1, <2>2, <2>3 DEF IInv
<1>2. IInv /\ [Next]_vars => IInv'
  BY TypeStep, FlagStep, OwnershipStep, PauseStep, JoinedStep DEF IInv
<1>3. QED
  BY <1>1, <1>2, PTL DEF Spec

\* The program counters, loop counters, flags and mutexes stay in range.
THEOREM TypeCorrect == Spec => []TypeOK
<1>1. IInv => TypeOK
  BY DEF IInv
<1>2. QED
  BY <1>1, Invariance, PTL

\* Each thread owns exactly the mutexes its program counter says it holds.
THEOREM Ownership == Spec => []OwnershipInv
<1>1. IInv => OwnershipInv
  BY DEF IInv
<1>2. QED
  BY <1>1, Invariance, PTL

\* At most every second iteration of eat_safe is a meal, in every schedule.
THEOREM Pauses == Spec => []SitsOutAfterMeal
<1>1. IInv => SitsOutAfterMeal
  BY DEF IInv
<1>2. QED
  BY <1>1, Invariance, PTL

\* main destroys only free forks that no thread will lock again.
THEOREM SafeCleanup == Spec => []DestroyedUnused
<1>1. IInv => DestroyedUnused
  <2> SUFFICES ASSUME IInv, destroyed > 0, NEW p \in Phil
               PROVE  pc[p] = "done" /\ forks[p] = Nobody
    BY DEF DestroyedUnused
  <2> USE DEF IInv
  <2>1. \A q \in Phil : pc[q] = "done"
    BY DEF JoinedInv
  <2>2. forks[p] \notin Phil
    BY <2>1 DEF OwnershipInv, Holding
  <2>3. QED
    BY <2>1, <2>2 DEF TypeOK
<1>2. QED
  BY <1>1, Invariance, PTL

-----------------------------------------------------------------------------
\* Whoever waits for a fork of eat_waiter waits for a philosopher who is eating
\* or putting its forks down, for a table of any size.
LEMMA WaitsFollow == IInv => WaitsOnlyForEaters
<1> SUFFICES ASSUME IInv, strategy = "eat_waiter",
                    NEW p \in Phil, NEW q \in Phil, NEW f \in Phil,
                    Waiting(p, f), forks[f] = q
             PROVE  pc[q] \in {"eat", "put2"}
  BY DEF WaitsOnlyForEaters
<1>1. waiter = p
  BY DEF IInv, OwnershipInv, Waiting
<1>2. q # p
  BY RightFork DEF IInv, OwnershipInv, Holding, Waiting
<1>3. pc[q] \notin {"second", "seated"}
  BY <1>1, <1>2 DEF IInv, OwnershipInv
<1>4. f \in Holding(q) /\ pc[q] \in Labels[strategy]
  BY DEF IInv, OwnershipInv, TypeOK
<1>5. QED
  BY <1>3, <1>4 DEF Holding, Labels

\* eat_waiter's permission rules out chains of blocked philosophers.
THEOREM NoWaitingChains == Spec => []WaitsOnlyForEaters
  BY Invariance, WaitsFollow, PTL

\* With eat_waiter someone can always take a step: the owner of the permission if
\* it is not waiting for a fork, else the fork's owner; and if nobody has the
\* permission, whoever asks for it.
LEMMA WaiterNotStuck ==
  ASSUME IInv, strategy = "eat_waiter", ~Finished
  PROVE  \E p \in Phil : CanStep(p)
<1> USE DEF IInv
<1>1. PICK p \in Phil : pc[p] # "done"
  BY DEF Finished
<1>2. CASE waiter = Nobody
  <2>1. pc[p] \in {"waiter", "eat", "put2"}
    BY <1>1, <1>2, RightFork DEF TypeOK, Labels, OwnershipInv
  <2>2. QED
    BY <2>1, <1>2 DEF CanStep
<1>3. CASE waiter \in Phil
  <2>1. PICK w \in Phil : w = waiter
    BY <1>3
  <2>2. pc[w] \in {"first", "second", "seated"}
    BY <2>1 DEF OwnershipInv
  <2>3. CASE pc[w] = "seated"
    BY <2>3 DEF CanStep
  <2>4. ASSUME NEW f \in Phil, Waiting(w, f)
        PROVE  \E q \in Phil : CanStep(q)
    <3>1. CASE forks[f] = Nobody
      BY <2>4, <3>1 DEF Waiting, CanStep
    <3>2. CASE forks[f] \in Phil
      BY <2>4, <3>2, WaitsFollow DEF WaitsOnlyForEaters, CanStep
    <3>3. QED
      BY <3>1, <3>2 DEF TypeOK
  <2>5. CASE pc[w] \in {"first", "second"}
    BY <2>4, <2>5, RightFork DEF Waiting
  <2>6. QED
    BY <2>2, <2>3, <2>5
<1>4. QED
  BY <1>2, <1>3 DEF TypeOK

\* A stuck philosopher of eat holds its own fork and waits for one whose owner is
\* stuck in the same way; following the neighbours closes the circle.
LEMMA EatStuckInCircle ==
  ASSUME IInv, strategy = "eat", \A p \in Phil : ~CanStep(p), ~Finished
  PROVE  CircularWait
<1> USE DEF IInv
<1> DEFINE S == {p \in Phil : pc[p] = "second"}
<1>1. \A p \in Phil : pc[p] \in {"first", "second", "done"}
  BY DEF TypeOK, Labels, CanStep
<1>2. ASSUME NEW f \in Phil, forks[f] # Nobody PROVE f \in S
  <2>1. PICK q \in Phil : forks[f] = q
    BY <1>2 DEF TypeOK
  <2>2. f \in Holding(q)
    BY <2>1 DEF OwnershipInv
  <2>3. QED
    BY <2>2, <1>1 DEF Holding
<1>3. \A p \in Phil : pc[p] # "first"
  BY <1>2 DEF CanStep
<1>4. S # {}
  BY <1>1, <1>3 DEF Finished
<1>5. \A p \in S : Right(p) \in S
  BY <1>2, RightFork DEF CanStep
<1>6. S = Phil
  BY <1>4, <1>5, RoundTheTable
<1>7. QED
  BY <1>6 DEF CircularWait

\* The only deadlock of the file is the circle in which every philosopher of eat
\* holds its first fork, for a table of any size.
THEOREM OnlyDeadlock == Spec => []StuckOnlyInCircle
<1>1. IInv => StuckOnlyInCircle
  <2> SUFFICES ASSUME IInv, \A p \in Phil : ~CanStep(p), ~Finished
               PROVE  CircularWait
    BY DEF StuckOnlyInCircle
  <2>1. CASE strategy = "eat_safe"
    BY <2>1 DEF IInv, TypeOK, Labels, CanStep, Finished
  <2>2. QED
    BY <2>1, WaiterNotStuck, EatStuckInCircle DEF IInv, TypeOK, Strategies
<1>2. QED
  BY <1>1, Invariance, PTL

-----------------------------------------------------------------------------
\* The philosopher who begins to eat has no neighbour who is eating.
LEMMA EatersApart ==
  ASSUME IInv, NEW p \in Phil, NEW q \in Phil, q \in Eating,
         TakeSecond(p) \/ ReleaseWaiter(p) \/ TrySecond(p)
  PROVE  ~D!Neighbours(p, q)
  BY RightFork
     DEF IInv, OwnershipInv, Holding, TakeSecond, ReleaseWaiter, TrySecond, Eating,
         D!Neighbours, D!Right, Right

\* Every step of the program is a step of the abstract table or changes
\* nothing there.
LEMMA StepRefines == IInv /\ [Next]_vars => [D!Next]_(D!vars)
<1> SUFFICES ASSUME IInv, [Next]_vars PROVE [D!Next]_(D!vars)
  OBVIOUS
<1> USE DEF IInv, TypeOK, Strategies, Labels, Start, Loops, Same, GoTo, Continue, Eating, Gone,
            D!vars
<1> D!Phil = Phil
  BY DEF D!Phil, Phil
<1>1. ASSUME NEW p \in Phil, AskWaiter(p) PROVE UNCHANGED D!vars
  BY <1>1 DEF AskWaiter
<1>2. ASSUME NEW p \in Phil, TakeFirst(p) PROVE UNCHANGED D!vars
  BY <1>2 DEF TakeFirst
<1>3. ASSUME NEW p \in Phil, TakeSecond(p)
      PROVE  D!StartEating(p) \/ UNCHANGED D!vars
  <2>1. CASE strategy = "eat"
    <3>1. p \notin Eating \cup Gone /\ \A q \in Eating : ~D!Neighbours(p, q)
      BY <1>3, EatersApart DEF TakeSecond
    <3>2. Eating' = Eating \cup {p} /\ Gone' = Gone
      BY <1>3, <2>1 DEF TakeSecond
    <3>3. QED
      BY <3>1, <3>2 DEF D!StartEating
  <2>2. CASE strategy # "eat"
    BY <1>3, <2>2 DEF TakeSecond
  <2>3. QED
    BY <2>1, <2>2
<1>4. ASSUME NEW p \in Phil, ReleaseWaiter(p) PROVE D!StartEating(p)
  <2>1. p \notin Eating \cup Gone /\ \A q \in Eating : ~D!Neighbours(p, q)
    BY <1>4, EatersApart DEF ReleaseWaiter
  <2>2. Eating' = Eating \cup {p} /\ Gone' = Gone
    BY <1>4 DEF ReleaseWaiter
  <2>3. QED
    BY <2>1, <2>2 DEF D!StartEating
<1>5. ASSUME NEW p \in Phil, TryFirst(p) PROVE UNCHANGED D!vars
  BY <1>5 DEF TryFirst
<1>6. ASSUME NEW p \in Phil, SitOut(p) PROVE D!Leave(p) \/ UNCHANGED D!vars
  BY <1>6 DEF SitOut, D!Leave
<1>7. ASSUME NEW p \in Phil, TrySecond(p) PROVE D!StartEating(p)
  <2>1. p \notin Eating \cup Gone /\ \A q \in Eating : ~D!Neighbours(p, q)
    BY <1>7, EatersApart DEF TrySecond
  <2>2. Eating' = Eating \cup {p} /\ Gone' = Gone
    BY <1>7 DEF TrySecond
  <2>3. QED
    BY <2>1, <2>2 DEF D!StartEating
<1>8. ASSUME NEW p \in Phil, SecondTaken(p) PROVE UNCHANGED D!vars
  BY <1>8 DEF SecondTaken
<1>9. ASSUME NEW p \in Phil, PutBack(p) PROVE D!Leave(p) \/ UNCHANGED D!vars
  BY <1>9 DEF PutBack, D!Leave
<1>10. ASSUME NEW p \in Phil, Rise(p) PROVE UNCHANGED D!vars
  BY <1>10 DEF Rise, FlagInv
<1>11. ASSUME NEW p \in Phil, PutFirst(p) PROVE D!StopEating(p)
  BY <1>11 DEF PutFirst, D!StopEating
<1>12. ASSUME NEW p \in Phil, PutSecond(p) PROVE D!Leave(p) \/ UNCHANGED D!vars
  BY <1>12 DEF PutSecond, D!Leave
<1>13. CASE DestroyFork
  BY <1>13 DEF DestroyFork
<1>14. CASE UNCHANGED vars
  BY <1>14 DEF vars
<1>15. QED
  BY <1>1, <1>2, <1>3, <1>4, <1>5, <1>6, <1>7, <1>8, <1>9, <1>10, <1>11,
     <1>12, <1>13, <1>14 DEF Next, Step, D!Next

\* All three strategies implement the abstract table: neighbours never eat
\* together, also when the circle closes.
THEOREM Implementation == Spec => ImplementsDining
<1>1. Init => D!Init
  BY DEF Init, D!Init, Eating, Gone, Strategies, Start
<1>2. QED
  BY <1>1, Invariance, StepRefines, PTL DEF Spec, ImplementsDining, D!Spec
=============================================================================
