--------------------------- MODULE ResponsesProofs ---------------------------
(***************************************************************************)
(* Proofs about the programs that answer the tester: the deferred interrupt *)
(* handling of ex4, for any number of pins, and the periodic thread of ex6, *)
(* for any period, length of a second and settings of the clock.           *)
(*                                                                         *)
(* What the invariants of ex4 lack to be inductive is why Clear, which     *)
(* resets a flag without looking at it again, loses nothing but late       *)
(* edges: an edge that is owed while main is answering its pin is late.    *)
(***************************************************************************)
EXTENDS MCResponses, TLAPS

LateInv == \A p \in Pins : owed[p] /\ Answering(p) => late[p]

IInv == TypeOK /\ LateInv /\ LostOnlyIfLate /\ NoPhantomResponse

LEMMA Initially == Init => IInv
BY NAssumption DEF Init, IInv, TypeOK, LateInv, LostOnlyIfLate,
                   NoPhantomResponse, Answering, Pins

LEMMA EdgeStep ==
  ASSUME IInv, NEW p \in Pins, Edge(p)
  PROVE  IInv'
<1>1. TypeOK'
  BY DEF IInv, TypeOK, Edge, Answering
<1>2. \A q \in Pins : Answering(q)' = Answering(q)
  BY DEF Edge, Answering
<1>3. ASSUME NEW q \in Pins
      PROVE  /\ ifr'[q] = (q = p \/ ifr[q])
             /\ owed'[q] = (q = p \/ owed[q])
             /\ late'[q] = IF q = p THEN Answering(p) ELSE late[q]
             /\ FLAG'[q] = FLAG[q]
  BY DEF IInv, TypeOK, Edge
<1>4. LateInv'
  BY <1>2, <1>3 DEF IInv, LateInv
<1>5. LostOnlyIfLate'
  BY <1>3 DEF IInv, LostOnlyIfLate
<1>6. NoPhantomResponse'
  BY <1>2, <1>3 DEF IInv, NoPhantomResponse
<1> QED BY <1>1, <1>4, <1>5, <1>6 DEF IInv

LEMMA HandlerStep ==
  ASSUME IInv, NEW p \in Pins, interrupt_J3(p)
  PROVE  IInv'
<1>1. TypeOK'
  BY DEF IInv, TypeOK, interrupt_J3
<1>2. UNCHANGED <<pc, pin, owed, late>> /\ ifr[p]
  BY DEF interrupt_J3
<1>3. ASSUME NEW q \in Pins
      PROVE  /\ ifr'[q] = (q # p /\ ifr[q])
             /\ FLAG'[q] = (q = p \/ FLAG[q])
  BY DEF IInv, TypeOK, interrupt_J3
<1>4. LateInv'
  BY <1>2 DEF IInv, LateInv, Answering
<1>5. LostOnlyIfLate'
  BY <1>2, <1>3 DEF IInv, LostOnlyIfLate
<1>6. NoPhantomResponse'
  BY <1>2, <1>3 DEF IInv, NoPhantomResponse, Answering
<1> QED BY <1>1, <1>4, <1>5, <1>6 DEF IInv

LEMMA TestStep ==
  ASSUME IInv, Test \/ SetHigh
  PROVE  IInv'
<1>1. TypeOK'
  BY NAssumption DEF IInv, TypeOK, Test, SetHigh, NextPin, Pins
<1>2. UNCHANGED <<ifr, FLAG, owed, late>>
  BY DEF Test, SetHigh
<1>3. \A q \in Pins : Answering(q)' = Answering(q)
  BY DEF Test, SetHigh, Answering
<1> QED BY <1>1, <1>2, <1>3 DEF IInv, LateInv, LostOnlyIfLate, NoPhantomResponse

LEMMA SetLowStep ==
  ASSUME IInv, SetLow
  PROVE  IInv'
<1>1. TypeOK'
  BY DEF IInv, TypeOK, SetLow
<1>2. UNCHANGED <<ifr, FLAG, pin>> /\ pc = "low" /\ pc' = "high"
  BY DEF SetLow
<1>3. ASSUME NEW q \in Pins
      PROVE  /\ owed'[q] = (q # pin /\ owed[q])
             /\ late'[q] = (q # pin /\ late[q])
             /\ ~Answering(q)
             /\ Answering(q)' = (q = pin)
  BY <1>2 DEF IInv, TypeOK, SetLow, Answering
<1>4. LateInv'
  BY <1>3 DEF LateInv
<1>5. LostOnlyIfLate'
  BY <1>2, <1>3 DEF IInv, LostOnlyIfLate
<1>6. NoPhantomResponse'
  BY <1>2, <1>3 DEF IInv, NoPhantomResponse
<1> QED BY <1>1, <1>4, <1>5, <1>6 DEF IInv

LEMMA ClearStep ==
  ASSUME IInv, Clear
  PROVE  IInv'
<1>1. TypeOK'
  BY NAssumption DEF IInv, TypeOK, Clear, NextPin, Pins
<1>2. UNCHANGED <<ifr, owed, late>> /\ pc = "clear" /\ pc' = "test"
  BY DEF Clear
<1>3. ASSUME NEW q \in Pins
      PROVE  /\ ~ifr[q]
             /\ FLAG'[q] = (q # pin /\ FLAG[q])
             /\ Answering(q) = (q = pin)
             /\ ~Answering(q)'
  BY <1>2 DEF IInv, TypeOK, Clear, NoInterrupt, Answering
<1>4. LateInv'
  BY <1>3 DEF LateInv
<1>5. LostOnlyIfLate'
  BY <1>2, <1>3 DEF IInv, LateInv, LostOnlyIfLate
<1>6. NoPhantomResponse'
  BY <1>2, <1>3 DEF IInv, NoPhantomResponse
<1> QED BY <1>1, <1>4, <1>5, <1>6 DEF IInv

LEMMA Inductive == IInv /\ [Next]_vars => IInv'
<1> SUFFICES ASSUME IInv, [Next]_vars PROVE IInv'
  OBVIOUS
<1>1. CASE Next
  BY <1>1, EdgeStep, HandlerStep, TestStep, SetLowStep, ClearStep
     DEF Next, Handler, Loop
<1>2. CASE UNCHANGED vars
  BY <1>2 DEF vars, IInv, TypeOK, LateInv, LostOnlyIfLate, NoPhantomResponse,
              Answering
<1> QED BY <1>1, <1>2

THEOREM Invariance == Spec => []IInv
<1> QED BY Initially, Inductive, PTL DEF Spec

\* The flags, pins and positions of main stay in range, for any number of pins.
THEOREM TypeCorrect == Spec => []TypeOK
<1>1. IInv => TypeOK
  BY DEF IInv
<1> QED BY <1>1, Invariance, PTL

\* No edge is lost but one that comes while main is answering the same pin.
THEOREM LossOnlyInWindow == Spec => []LostOnlyIfLate
<1>1. IInv => LostOnlyIfLate
  BY DEF IInv
<1> QED BY <1>1, Invariance, PTL

\* main answers only edges, and each only once.
THEOREM OnlyEdgesAnswered == Spec => []NoPhantomResponse
<1>1. IInv => NoPhantomResponse
  BY DEF IInv
<1> QED BY <1>1, Invariance, PTL

-----------------------------------------------------------------------------
(* The periodic thread *)

\* Carrying whole seconds, one way or the other, leaves the time as it is and
\* the nanoseconds in range.
LEMMA Normalized ==
  ASSUME NEW s \in Int, NEW n \in Int, NEW t, t = P!timespec_normalized(s, n)
  PROVE  /\ t \in [sec : Int, nsec : 0 .. Second - 1]
         /\ P!Nanoseconds(t) = s * Second + n
<1> DEFINE q == n \div Second  r == n % Second
<1>1. q \in Int /\ r \in 0 .. Second - 1 /\ n = Second * q + r
  BY SecondAssumption
<1>2. t = [sec |-> s + q, nsec |-> r]
  BY DEF P!timespec_normalized
<1> HIDE DEF q, r
<1>3. (s + q) * Second + r = s * Second + (Second * q + r)
  BY <1>1, SecondAssumption
<1> QED BY <1>1, <1>2, <1>3 DEF P!Nanoseconds

\* The wake time is the start and a whole number of periods, over all carries; the
\* thread has reached it unless it sleeps, and the clock has passed nothing that
\* it is not at now, unless it was set back.
PaceInv ==
  /\ does \in {"work", "add", "sleep"} /\ rounds \in Nat
  /\ start \in Nat /\ clock \in Nat /\ latest \in Nat /\ sets.back \in BOOLEAN
  /\ waketime \in [sec : Int, nsec : 0 .. Second - 1]
  /\ P!Nanoseconds(waketime) =
       start + (IF does = "sleep" THEN rounds * Period ELSE (rounds - 1) * Period)
  /\ (rounds - 1) * Period <= latest - start
  /\ clock <= latest
  /\ ~sets.back => clock = latest

LEMMA PaceStarts == P!Init => PaceInv
<1> SUFFICES ASSUME P!Init PROVE PaceInv
  OBVIOUS
<1> USE DEF P!Init
<1>1. clock \in Nat /\ 0 * Second + clock = clock /\ (1 - 1) * Period = 0
  BY SecondAssumption, PeriodAssumption
<1>2. /\ waketime \in [sec : Int, nsec : 0 .. Second - 1]
      /\ P!Nanoseconds(waketime) = 0 * Second + clock
  BY <1>1, Normalized
<1> QED BY <1>1, <1>2 DEF PaceInv

LEMMA PaceKept ==
  ASSUME PaceInv, [P!Next]_(P!vars)
  PROVE  PaceInv'
<1> DEFINE w == P!Nanoseconds(waketime)
<1>1. Period \in Nat /\ rounds * Period = (rounds - 1) * Period + Period
      /\ rounds * Period \in Int /\ (rounds - 1) * Period \in Int
  BY PeriodAssumption DEF PaceInv
<1>2. CASE UNCHANGED P!vars
  BY <1>2 DEF P!vars, PaceInv, P!Nanoseconds
<1>3. CASE P!Work
  BY <1>3 DEF P!Work, PaceInv, P!Nanoseconds
<1>4. CASE P!Add
  <2> DEFINE s == waketime.sec + 0  n == waketime.nsec + Period
  <2>1. s \in Int /\ n \in Int
    BY <1>1 DEF PaceInv
  <2>2. waketime' = P!timespec_normalized(s, n)
    BY <1>4 DEF P!Add, P!timespec_add
  <2>3. s * Second + n = w + Period
    BY <1>1, <2>1, SecondAssumption DEF PaceInv, P!Nanoseconds
  <2> HIDE DEF s, n
  <2>4. /\ waketime' \in [sec : Int, nsec : 0 .. Second - 1]
        /\ P!Nanoseconds(waketime)' = w + Period
    BY <2>1, <2>2, <2>3, Normalized DEF P!Nanoseconds
  <2>5. w + Period = start + rounds * Period
    BY <1>1, <1>4 DEF P!Add, PaceInv
  <2> QED BY <1>4, <2>4, <2>5 DEF P!Add, PaceInv
<1>5. CASE P!WakeUp
  <2>1. rounds' = rounds + 1 /\ does = "sleep" /\ does' = "work" /\ clock >= w
        /\ UNCHANGED <<clock, start, latest, sets, waketime>>
    BY <1>5 DEF P!WakeUp, P!IsValid, PaceInv
  <2>2. (rounds' - 1) * Period = rounds * Period
    <3>1. rounds' - 1 = rounds
      BY <2>1 DEF PaceInv
    <3> QED BY <3>1
  <2>3. rounds * Period <= latest - start
    BY <1>1, <2>1 DEF PaceInv
  <2>4. P!Nanoseconds(waketime)' = start + rounds * Period
    BY <2>1 DEF PaceInv, P!Nanoseconds
  <2> QED BY <2>1, <2>2, <2>3, <2>4 DEF PaceInv
<1>6. ASSUME NEW c \in Nat, P!Becomes(c), sets'.back \in BOOLEAN,
             ~sets'.back => ~sets.back /\ clock <= c
      PROVE  PaceInv'
  <2>1. /\ clock' = c /\ latest' = IF c > latest THEN c ELSE latest
        /\ UNCHANGED <<start, waketime, does, rounds>>
    BY <1>6 DEF P!Becomes
  <2>2. latest' \in Nat /\ latest' >= latest /\ clock' <= latest'
        /\ (~sets'.back => clock' = latest')
    BY <1>6, <2>1 DEF PaceInv
  <2> QED BY <1>1, <2>1, <2>2, <1>6 DEF PaceInv, P!Nanoseconds
<1>7. CASE P!TimePasses
  BY <1>6, <1>7 DEF P!TimePasses, PaceInv
<1>8. CASE P!SetClock
  <2>1. PICK c \in 0 .. MaxTime :
          P!Becomes(c) /\ sets' = [count |-> sets.count + 1, back |-> sets.back \/ c < clock]
    BY <1>8 DEF P!SetClock
  <2>2. sets'.back <=> sets.back \/ c < clock
    BY <2>1
  <2>3. sets'.back \in BOOLEAN
    BY <2>1
  <2>4. c \in Nat /\ (~sets'.back => ~sets.back /\ clock <= c)
    BY <2>2 DEF PaceInv
  <2> QED BY <1>6, <2>1, <2>3, <2>4
<1> QED BY <1>2, <1>3, <1>4, <1>5, <1>7, <1>8 DEF P!Next

\* The thread begins no round before its time, and sleeps only when it has made up
\* for all late rounds, unless the clock was set back.
THEOREM Pace == P!Spec => []P!KeepsPace
<1>1. PaceInv => P!KeepsPace
  BY PeriodAssumption DEF PaceInv, P!KeepsPace
<1> QED BY <1>1, PaceStarts, PaceKept, PTL DEF P!Spec

\* The program of ex6, among those that answer the tester, keeps its pace.
THEOREM PaceOfAll == AllSpec => []KeepsPace
<1>1. AllInit => P!Init
  BY DEF AllInit
<1>2. [AllNext]_allVars => [P!Next]_(P!vars)
  BY DEF AllNext, Ex4, Ex5, Ex6, allVars, threadVars, P!vars
<1> QED BY <1>1, <1>2, Pace, PTL DEF AllSpec, P!Spec, KeepsPace
=============================================================================
