---------------------------- MODULE DynamicArray ----------------------------
(***************************************************************************)
(* The Array of ex2/taskB, ex2/taskC and ex2/taskD: a block of memory, the *)
(* indices front and back of the elements in it, and its capacity.  The    *)
(* three versions differ in how insertBack grows the array: not at all, by *)
(* 2 and by 1.5.  A copy made by array_save, as both array_foreach make    *)
(* one, shares the block, which array_reserve may free.                    *)
(*                                                                         *)
(* Callers do what the programs do: they pop, or read through a copy, only *)
(* what is not empty.  malloc succeeds.  An insertion out of bounds ends   *)
(* the behaviour: what happens then is undefined.                          *)
(***************************************************************************)
EXTENDS Integers

CONSTANTS Values,       (* the elements                                     *)
          Undef,        (* the contents of memory that is not written yet   *)
          Factors,      (* <<m, n>>: the capacity grows by m/n.  taskB has  *)
                        (* <<1, 1>>, taskC <<2, 1>> and taskD <<3, 2>>      *)
          Capacities,   (* the capacities an array may be created with      *)
          MaxCapacity,  (* bound on the argument of array_reserve           *)
          MaxBack       (* bound on the number of insertions                *)

ASSUME FactorsAssumption ==
  \A f \in Factors : f[1] \in Nat /\ f[2] \in Nat \ {0}
ASSUME CapacitiesAssumption == Capacities \subseteq Nat \ {0}
ASSUME BoundsAssumption == MaxCapacity \in Nat /\ MaxBack \in Nat
ASSUME UndefAssumption == Undef \notin Values

VARIABLES factor,       (* which version of the code; never changes         *)
          block,        (* which block data points to                       *)
          data,         (* the contents of that block                       *)
          front, back, capacity,
          saved,        (* a copy of the struct: block and indices          *)
          overflow      (* insertBack has written beyond the block          *)

vars == <<factor, block, data, front, back, capacity, saved, overflow>>

Struct == [block |-> block, front |-> front, back |-> back,
           capacity |-> capacity]

\* array_new
Init ==
  /\ factor   \in Factors
  /\ capacity \in Capacities
  /\ block    = 0
  /\ data     = [k \in 0..capacity-1 |-> Undef]
  /\ front    = 0
  /\ back     = 0
  /\ saved    = Struct
  /\ overflow = FALSE

-----------------------------------------------------------------------------
Length == back - front

Empty == back <= front

\* array_reserve(a, c): a larger block replaces the old one, which is freed.
Larger(c) == IF c <= capacity THEN capacity ELSE c

\* Plausible bug: as many elements as there are, from the start of the block.
Moved_FromZero(c) ==
  IF c <= capacity
  THEN data
  ELSE [k \in 0..c-1 |-> IF k \in 0..Length-1 THEN data[k] ELSE Undef]

Moved(c) ==
  IF c <= capacity
  THEN data
  ELSE [k \in 0..c-1 |-> IF k \in front..back-1 THEN data[k] ELSE Undef]

\* Plausible bug: no early return, the block is always replaced.
NextBlock_Always(c) == block + 1

NextBlock(c) == IF c <= capacity THEN block ELSE block + 1

Reserve(c) ==
  /\ factor # <<1, 1>>
  /\ data'     = Moved(c)
  /\ capacity' = Larger(c)
  /\ block'    = NextBlock(c)
  /\ UNCHANGED <<factor, front, back, saved, overflow>>

Grown == (capacity * factor[1]) \div factor[2]

\* Plausible bug: the array grows one insertion too late.
Needed_Late == IF capacity < Length THEN Grown ELSE capacity

\* The capacity that insertBack asks for.
Needed == IF capacity <= Length THEN Grown ELSE capacity

InsertBack(v) ==
  /\ back < MaxBack
  /\ back < Larger(Needed)
  /\ data'     = [Moved(Needed) EXCEPT ![back] = v]
  /\ capacity' = Larger(Needed)
  /\ block'    = NextBlock(Needed)
  /\ back'     = back + 1
  /\ UNCHANGED <<factor, front, saved, overflow>>

\* insertBack when back is no valid index, not even after array_reserve.
InsertBeyond ==
  /\ back < MaxBack
  /\ back >= Larger(Needed)
  /\ overflow' = TRUE
  /\ UNCHANGED <<factor, block, data, front, back, capacity, saved>>

PopFront ==
  /\ ~Empty
  /\ front' = front + 1
  /\ UNCHANGED <<factor, block, data, back, capacity, saved, overflow>>

PopBack ==
  /\ ~Empty
  /\ back' = back - 1
  /\ UNCHANGED <<factor, block, data, front, capacity, saved, overflow>>

\* array_save
Save ==
  /\ saved' = Struct
  /\ UNCHANGED <<factor, block, data, front, back, capacity, overflow>>

\* A step of array_foreach and of array_foreachReverse, which read the element
\* and shorten the copy.
VisitFront ==
  /\ saved.back > saved.front
  /\ saved' = [saved EXCEPT !.front = @ + 1]
  /\ UNCHANGED <<factor, block, data, front, back, capacity, overflow>>

VisitBack ==
  /\ saved.back > saved.front
  /\ saved' = [saved EXCEPT !.back = @ - 1]
  /\ UNCHANGED <<factor, block, data, front, back, capacity, overflow>>

Call == \/ \E c \in 1..MaxCapacity : Reserve(c)
        \/ \E v \in Values : InsertBack(v)
        \/ InsertBeyond
        \/ PopFront \/ PopBack
        \/ Save \/ VisitFront \/ VisitBack

Next == \/ ~overflow /\ Call
        \/ overflow /\ UNCHANGED vars

Spec == Init /\ [][Next]_vars

-----------------------------------------------------------------------------
\* The values in range; in particular all elements are inside the block.
TypeOK ==
  /\ factor   \in Factors
  /\ capacity \in Nat \ {0}
  /\ block    \in Nat
  /\ data     \in [0..capacity-1 -> Values \cup {Undef}]
  /\ front    \in 0..back
  /\ back     \in 0..capacity
  /\ saved    \in [block : Nat, front : Nat, back : Nat, capacity : Nat]
  /\ overflow \in BOOLEAN

\* The array holds what has been inserted and not popped, in order, whatever
\* reallocations happen: no element is lost, moved or left behind.
Contents == [k \in 1..Length |-> data[front + k - 1]]

D == INSTANCE Deque WITH contents <- Contents
ImplementsDeque == D!Spec

\* insertBack compares the capacity with the length, so what it writes is in
\* bounds as long as nothing has been popped at the front, and the growth
\* does not round to nothing (1 * 1.5) or is missing (taskB).
OverflowOnlyWhenShifted ==
  overflow => front > 0 \/ Grown <= capacity

\* The elements of a saved copy may be read, with array_front or array_back,
\* as long as the array still has the capacity it had when it was saved: its
\* block is not freed, and all its elements have been written.
SavedReadable ==
  saved.capacity = capacity =>
    /\ saved.block = block
    /\ \A k \in saved.front..saved.back-1 : k < capacity /\ data[k] # Undef

=============================================================================
