------------------------------ MODULE MCResponses ------------------------------
(***************************************************************************)
(* The programs of ex4, ex5 and ex6 that answer the tester.  Each behaviour *)
(* is one of them; the variables of the others keep an initial value.      *)
(***************************************************************************)
EXTENDS DeferredInterrupt, Timespec, Sequences

CONSTANTS MaxDue, Period, MaxTime, MaxSets

ASSUME PeriodAssumption == Period \in Nat

VARIABLES program,
          setup, k, place, call, spent, low, due, struck,
          clock, start, latest, sets, waketime, does, rounds

tasksVars  == <<setup, k, place, call, spent, low, due, struck>>
threadVars == <<clock, start, latest, sets, waketime, does, rounds>>
allVars    == <<program, vars, tasksVars, threadVars>>

\* What main starts; the same with equal priorities; and the earlier parts of the
\* exercise, of which the first shows more with equal priorities.
MainSetup == [fn |-> "responseTaskE", equal |-> FALSE]
Setups == {MainSetup} \cup
  [fn : {"responseTaskE", "responseTask", "responseTaskC"}, equal : {TRUE}]

R == INSTANCE ResponseTasks WITH
  Task <- {"A", "B", "C", "idle"}, Idle <- "idle", None <- "none", EventList <- {},
  Priorities <- 3, Ticks <- 2, Overflows <- 1, pc <- place, Setups <- Setups

P == INSTANCE PeriodicThread WITH pc <- does

AllInit ==
  /\ program \in {"ex4", "ex5", "ex6"}
  /\ Init /\ R!Init /\ P!Init
  /\ program # "ex5" => setup = MainSetup
  /\ program # "ex6" => clock = 0

Ex4(A) == program = "ex4" /\ A /\ UNCHANGED <<program, tasksVars, threadVars>>
Ex5(A) == program = "ex5" /\ A /\ UNCHANGED <<program, vars, threadVars>>
Ex6(A) == program = "ex6" /\ A /\ UNCHANGED <<program, vars, tasksVars>>

AllNext == Ex4(Next) \/ Ex5(R!Next) \/ Ex6(P!Next)

AllSpec ==
  /\ AllInit /\ [][AllNext]_allVars
  /\ WF_allVars(Ex4(Handler \/ Loop))
  /\ program = "ex5" => R!Fairness

InTime          == R!InTime
SignalsAnswered == R!SignalsAnswered
KeepsPace       == P!KeepsPace
=============================================================================
