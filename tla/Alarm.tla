-------------------------------- MODULE Alarm --------------------------------
(***************************************************************************)
(* What a kernel promises to tasks that sleep: a task that asks for n      *)
(* ticks wakes at the n-th tick from then, neither before nor after; only  *)
(* while the scheduler is held are those that are due kept waiting, and    *)
(* then until it is released.  A sleep ends early only by stopping the     *)
(* task.                                                                   *)
(***************************************************************************)
EXTENDS Integers

CONSTANTS Task, MaxSleep

VARIABLES asleep,    (* the tasks that sleep                               *)
          left,      (* the ticks each has left to sleep, 0 if awake       *)
          held,      (* the scheduler is held                              *)
          stopped    (* the tasks that are suspended, deleted or yet to be *)

vars == <<asleep, left, held, stopped>>

\* S are asleep, and remaining[t] is what t has left.
Asleep(S, remaining) ==
  /\ asleep' = S
  /\ left'   = [t \in Task |-> IF t \in S THEN remaining[t] ELSE 0]

Init ==
  /\ asleep = {} /\ left = [t \in Task |-> 0]
  /\ held = FALSE /\ stopped = Task

Sleep(t, n) ==
  /\ ~held /\ t \notin asleep \cup stopped
  /\ Asleep(asleep \cup {t}, [left EXCEPT ![t] = n])
  /\ held' = TRUE /\ UNCHANGED stopped

Tick ==
  LET less == [t \in Task |-> left[t] - 1]
  IN  /\ Asleep({t \in asleep : held \/ less[t] > 0}, less)
      /\ UNCHANGED <<held, stopped>>

Hold == ~held /\ held' = TRUE /\ UNCHANGED <<asleep, left, stopped>>

\* Releasing the scheduler also lets those go on that were resumed meanwhile.
Release ==
  /\ held /\ held' = FALSE
  /\ Asleep({t \in asleep : left[t] > 0}, left)
  /\ stopped' \in SUBSET stopped

Stop(t) ==
  /\ Asleep(asleep \ {t}, left)
  /\ stopped' = stopped \cup {t} /\ UNCHANGED held

Go(t) == stopped' = stopped \ {t} /\ UNCHANGED <<asleep, left, held>>

Next == \/ \E t \in Task : Stop(t) \/ Go(t) \/ \E n \in 1 .. MaxSleep : Sleep(t, n)
        \/ Tick \/ Hold \/ Release

Spec == Init /\ [][Next]_vars
=============================================================================
