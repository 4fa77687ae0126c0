-------------------------------- MODULE Timespec --------------------------------
(***************************************************************************)
(* clock_gettime.h: arithmetic on times in seconds and nanoseconds.        *)
(***************************************************************************)
EXTENDS Integers

CONSTANT Second   (* the nanoseconds in a second; 1000000000 *)

ASSUME SecondAssumption == Second \in Nat \ {0}

\* Plausible bug: a whole second of nanoseconds is not carried.
timespec_normalized_KeepsSecond(sec, nsec) ==
  IF nsec = Second THEN [sec |-> sec, nsec |-> nsec]
                   ELSE [sec |-> sec + nsec \div Second, nsec |-> nsec % Second]

\* The loops carry whole seconds one way or the other.
timespec_normalized(sec, nsec) ==
  [sec |-> sec + nsec \div Second, nsec |-> nsec % Second]

timespec_add(lhs, rhs) == timespec_normalized(lhs.sec + rhs.sec, lhs.nsec + rhs.nsec)

\* What the clock functions make of a timespec, and which they accept.
Nanoseconds(t) == t.sec * Second + t.nsec
IsValid(t)     == t.nsec \in 0 .. Second - 1
=============================================================================
