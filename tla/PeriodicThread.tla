----------------------------- MODULE PeriodicThread -----------------------------
(***************************************************************************)
(* ex6/main.c: a thread that looks at its test pin once in each period. It *)
(* adds the period to its wake time and sleeps until then, by a clock that *)
(* runs on while it works and waits for a processor, and that can be set.  *)
(***************************************************************************)
EXTENDS Timespec

CONSTANTS Period,     (* the nanoseconds in a period; less than a second   *)
          MaxTime,    (* the clock is not followed further                 *)
          MaxSets     (* how often the clock is set                        *)

VARIABLES clock,      (* CLOCK_REALTIME                                    *)
          start,      (* history: its value when the thread started        *)
          latest,     (* history: its greatest value since                 *)
          sets,       (* how often it has been set, and whether back       *)
          waketime,   (* the variable of the thread                        *)
          pc,         (* "work", "add" or "sleep"                          *)
          rounds      (* history: the rounds begun                         *)

vars == <<clock, start, latest, sets, waketime, pc, rounds>>

Init ==
  /\ clock \in 0 .. Second - 1 /\ start = clock /\ latest = clock
  /\ sets = [count |-> 0, back |-> FALSE]
  /\ waketime = timespec_normalized(0, clock)
  /\ pc = "work" /\ rounds = 1

\* The look at the pin, and the response, take any time.
Work ==
  /\ pc = "work" /\ pc' = "add"
  /\ UNCHANGED <<clock, start, latest, sets, waketime, rounds>>

Add ==
  /\ pc = "add" /\ pc' = "sleep"
  /\ waketime' = timespec_add(waketime, [sec |-> 0, nsec |-> Period])
  /\ UNCHANGED <<clock, start, latest, sets, rounds>>

\* clock_nanosleep returns when the time has come, and at once if it is not a
\* time; the thread does not look why.
WakeUp ==
  /\ pc = "sleep" /\ pc' = "work"
  /\ IsValid(waketime) => clock >= Nanoseconds(waketime)
  /\ rounds' = rounds + 1
  /\ UNCHANGED <<clock, start, latest, sets, waketime>>

Becomes(c) ==
  /\ clock' = c /\ latest' = IF c > latest THEN c ELSE latest
  /\ UNCHANGED <<start, waketime, pc, rounds>>

TimePasses == clock < MaxTime /\ Becomes(clock + 1) /\ UNCHANGED sets

SetClock ==
  /\ sets.count < MaxSets
  /\ \E c \in 0 .. MaxTime :
       /\ Becomes(c)
       /\ sets' = [count |-> sets.count + 1, back |-> sets.back \/ c < clock]

Next == Work \/ Add \/ WakeUp \/ TimePasses \/ SetClock

Spec == Init /\ [][Next]_vars

-----------------------------------------------------------------------------
\* Over carries of the nanoseconds, late rounds and settings of the clock, the
\* thread begins no round before its time, and when it sleeps it has made up for
\* all that were late, unless the clock was set back: then it sleeps for longer.
KeepsPace ==
  /\ (rounds - 1) * Period <= latest - start
  /\ pc = "sleep" /\ clock < Nanoseconds(waketime) /\ ~sets.back =>
       latest - start < rounds * Period
=============================================================================
