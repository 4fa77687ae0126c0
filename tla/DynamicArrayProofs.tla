-------------------------- MODULE DynamicArrayProofs --------------------------
(***************************************************************************)
(* Proofs about the arrays of ex2, for any growth factors, elements and    *)
(* bounds.  The invariant adds to the types that every element has been    *)
(* written, and that a saved copy of the present capacity refers to the    *)
(* present block: capacities only ever grow, and every new block has a     *)
(* larger one.                                                             *)
(***************************************************************************)
EXTENDS DynamicArray, Sequences, TLAPS

Written == \A k \in front..back-1 : data[k] \in Values

SavedInv ==
  /\ saved.capacity <= capacity
  /\ saved.capacity = capacity =>
       /\ saved.block = block
       /\ saved.back <= capacity
       /\ \A k \in saved.front..saved.back-1 : data[k] \in Values

IInv == TypeOK /\ Written /\ SavedInv /\ OverflowOnlyWhenShifted

-----------------------------------------------------------------------------
\* What array_reserve does to the block: it has the larger capacity, keeps the
\* elements, and is a new one exactly if the capacity changes (lines 83-96).
LEMMA ReserveFacts ==
  ASSUME IInv, NEW c \in Int
  PROVE  /\ Larger(c) \in Nat \ {0} /\ Larger(c) >= capacity
         /\ Moved(c) \in [0..Larger(c)-1 -> Values \cup {Undef}]
         /\ \A k \in front..back-1 : Moved(c)[k] = data[k]
         /\ NextBlock(c) \in Nat /\ NextBlock(c) >= block
         /\ \/ Larger(c) = capacity /\ Moved(c) = data /\ NextBlock(c) = block
            \/ Larger(c) > capacity
BY DEF IInv, TypeOK, Larger, Moved, NextBlock

\* The capacity insertBack asks for is an integer, for every factor.
LEMMA NeededInt ==
  ASSUME IInv
  PROVE  Grown \in Int /\ Needed \in Int
<1>1. capacity \in Int /\ factor[1] \in Int /\ factor[2] \in Nat \ {0}
  BY FactorsAssumption DEF IInv, TypeOK
<1>2. capacity * factor[1] \in Int
  BY <1>1
<1>3. Grown \in Int
  BY <1>1, <1>2 DEF Grown
<1> QED BY <1>1, <1>3 DEF Needed

LEMMA Initially == Init => IInv
<1> SUFFICES ASSUME Init PROVE IInv
  OBVIOUS
<1>1. capacity \in Nat \ {0} /\ front = 0 /\ back = 0
  BY CapacitiesAssumption DEF Init
<1>2. TypeOK
  <2>1. saved = [block |-> 0, front |-> 0, back |-> 0, capacity |-> capacity]
    BY <1>1 DEF Init, Struct
  <2>2. saved \in [block : Nat, front : Nat, back : Nat, capacity : Nat]
    BY <1>1, <2>1
  <2>3. data \in [0..capacity-1 -> Values \cup {Undef}]
    BY DEF Init
  <2>4. factor \in Factors /\ block \in Nat /\ overflow \in BOOLEAN
    BY DEF Init
  <2> QED BY <1>1, <2>2, <2>3, <2>4 DEF TypeOK
<1>3. Written /\ SavedInv
  BY <1>1 DEF Init, Written, SavedInv, Struct
<1>4. OverflowOnlyWhenShifted
  BY DEF Init, OverflowOnlyWhenShifted
<1> QED BY <1>2, <1>3, <1>4 DEF IInv

\* A step that replaces the block as array_reserve does and then writes no
\* index of an element leaves the saved copy valid, or recognisably stale.
LEMMA SavedKept ==
  ASSUME IInv, NEW c \in Int, UNCHANGED saved,
         capacity' = Larger(c), block' = NextBlock(c),
         Larger(c) = capacity =>
           \A k \in 0..capacity-1 : data'[k] = data[k] \/ data'[k] \in Values
  PROVE  SavedInv'
<1>1. saved'.capacity <= capacity'
  <2>1. capacity' \in Nat /\ capacity' >= capacity
    BY ReserveFacts
  <2>2. saved.capacity \in Nat /\ capacity \in Nat /\ saved.capacity <= capacity
    BY DEF IInv, TypeOK, SavedInv
  <2> QED BY <2>1, <2>2
<1>2. CASE Larger(c) > capacity
  BY <1>1, <1>2 DEF IInv, TypeOK, SavedInv
<1>3. CASE Larger(c) = capacity
  <2>1. block' = block
    BY <1>3, ReserveFacts DEF IInv, TypeOK
  <2>2. ASSUME saved.capacity = capacity, NEW k \in saved.front..saved.back-1
        PROVE  data'[k] \in Values
    <3>1. k \in 0..capacity-1 /\ data[k] \in Values
      BY <2>2 DEF IInv, TypeOK, SavedInv
    <3> QED BY <1>3, <3>1
  <2> QED BY <1>1, <1>3, <2>1, <2>2 DEF IInv, SavedInv
<1> QED BY <1>2, <1>3, ReserveFacts

LEMMA ReserveStep ==
  ASSUME IInv, NEW c \in 1..MaxCapacity, ~overflow, Reserve(c)
  PROVE  IInv'
<1> c \in Int
  BY BoundsAssumption
<1>1. TypeOK'
  <2>1. capacity' \in Nat \ {0} /\ capacity' >= capacity /\ block' \in Nat
    BY ReserveFacts DEF Reserve
  <2>2. data' \in [0..capacity'-1 -> Values \cup {Undef}]
    BY ReserveFacts DEF Reserve
  <2> QED BY <2>1, <2>2 DEF IInv, TypeOK, Reserve
<1>2. Written'
  BY ReserveFacts DEF IInv, TypeOK, Written, Reserve
<1>3. SavedInv'
  <2>1. Larger(c) = capacity => data' = data
    BY ReserveFacts DEF IInv, TypeOK, Reserve
  <2>2. /\ UNCHANGED saved /\ capacity' = Larger(c) /\ block' = NextBlock(c)
        /\ Larger(c) = capacity => \A k \in 0..capacity-1 : data'[k] = data[k]
    BY <2>1 DEF Reserve
  <2> QED BY <2>2, SavedKept
<1>4. OverflowOnlyWhenShifted'
  BY DEF Reserve, OverflowOnlyWhenShifted
<1> QED BY <1>1, <1>2, <1>3, <1>4 DEF IInv

LEMMA InsertBackStep ==
  ASSUME IInv, NEW v \in Values, ~overflow, InsertBack(v)
  PROVE  IInv'
<1>0. Needed \in Int
  BY NeededInt
<1>1. TypeOK'
  <2>1. capacity' \in Nat \ {0} /\ block' \in Nat
    BY <1>0, ReserveFacts DEF InsertBack
  <2>2. data' \in [0..capacity'-1 -> Values \cup {Undef}]
    BY <1>0, ReserveFacts DEF InsertBack
  <2>3. front' \in 0..back' /\ back' \in 0..capacity'
    BY <2>1 DEF IInv, TypeOK, InsertBack
  <2> QED BY <2>1, <2>2, <2>3 DEF IInv, TypeOK, InsertBack
<1>2. Written'
  <2> SUFFICES ASSUME NEW k \in front'..back'-1 PROVE data'[k] \in Values
    BY DEF Written
  <2>1. k \in 0..Larger(Needed)-1 /\ (k = back \/ k \in front..back-1)
    <3>1. Larger(Needed) \in Nat
      BY <1>0, ReserveFacts
    <3>2. front' = front /\ back' = back + 1 /\ back < Larger(Needed)
      BY DEF InsertBack
    <3>3. front \in Nat /\ back \in Nat
      BY DEF IInv, TypeOK
    <3> QED BY <3>1, <3>2, <3>3
  <2>2. data'[k] = IF k = back THEN v ELSE Moved(Needed)[k]
    BY <1>0, <2>1, ReserveFacts DEF InsertBack
  <2>3. k # back => Moved(Needed)[k] \in Values
    BY <1>0, <2>1, ReserveFacts DEF IInv, Written
  <2> QED BY <2>1, <2>2, <2>3
<1>3. SavedInv'
  <2>1. ASSUME Larger(Needed) = capacity, NEW k \in 0..capacity-1
        PROVE  data'[k] = data[k] \/ data'[k] \in Values
    <3>1. Moved(Needed) = data
      BY <1>0, <2>1, ReserveFacts DEF IInv, TypeOK
    <3> QED BY <2>1, <3>1 DEF IInv, TypeOK, InsertBack
  <2> QED BY <1>0, <2>1, SavedKept DEF InsertBack
<1>4. OverflowOnlyWhenShifted'
  BY DEF InsertBack, OverflowOnlyWhenShifted
<1> QED BY <1>1, <1>2, <1>3, <1>4 DEF IInv

\* The only step that overflows: nothing popped at the front means that the
\* length is back, so that array_reserve has been asked for more than back.
LEMMA InsertBeyondStep ==
  ASSUME IInv, ~overflow, InsertBeyond
  PROVE  IInv'
<1>1. TypeOK' /\ Written' /\ SavedInv'
  BY DEF IInv, TypeOK, Written, SavedInv, InsertBeyond
<1>2. OverflowOnlyWhenShifted'
  <2>1. front > 0 \/ Grown <= capacity
    BY NeededInt DEF IInv, TypeOK, InsertBeyond, Larger, Needed, Length
  <2>2. front' = front /\ capacity' = capacity /\ factor' = factor
    BY DEF InsertBeyond
  <2>3. Grown' = Grown
    BY <2>2 DEF Grown
  <2> QED BY <2>1, <2>2, <2>3 DEF OverflowOnlyWhenShifted
<1> QED BY <1>1, <1>2 DEF IInv

LEMMA PopStep ==
  ASSUME IInv, ~overflow, PopFront \/ PopBack
  PROVE  IInv'
<1>1. TypeOK'
  BY DEF IInv, TypeOK, PopFront, PopBack, Empty
<1>2. Written'
  BY DEF IInv, TypeOK, Written, PopFront, PopBack, Empty
<1>3. SavedInv'
  BY DEF IInv, SavedInv, PopFront, PopBack
<1>4. OverflowOnlyWhenShifted'
  BY DEF OverflowOnlyWhenShifted, PopFront, PopBack
<1> QED BY <1>1, <1>2, <1>3, <1>4 DEF IInv

LEMMA CopyStep ==
  ASSUME IInv, ~overflow, Save \/ VisitFront \/ VisitBack
  PROVE  IInv'
<1>1. TypeOK' /\ SavedInv'
  <2>1. CASE Save
    <3>1. saved' = [block |-> block, front |-> front, back |-> back,
                    capacity |-> capacity]
      BY <2>1 DEF Save, Struct
    <3>2. saved' \in [block : Nat, front : Nat, back : Nat, capacity : Nat]
      BY <3>1 DEF IInv, TypeOK
    <3>3. TypeOK'
      BY <2>1, <3>2 DEF Save, IInv, TypeOK
    <3>4. SavedInv'
      BY <2>1, <3>1 DEF Save, IInv, TypeOK, Written, SavedInv
    <3> QED BY <3>3, <3>4
  <2>2. CASE VisitFront \/ VisitBack
    <3>1. /\ saved'.capacity = saved.capacity /\ saved'.block = saved.block
          /\ saved'.front \in Nat /\ saved'.back \in Nat
          /\ saved'.front >= saved.front /\ saved'.back <= saved.back
      BY <2>2 DEF IInv, TypeOK, VisitFront, VisitBack
    <3>2. saved' \in [block : Nat, front : Nat, back : Nat, capacity : Nat]
      BY <2>2 DEF IInv, TypeOK, VisitFront, VisitBack
    <3>3. TypeOK'
      BY <2>2, <3>2 DEF IInv, TypeOK, VisitFront, VisitBack
    <3>4. UNCHANGED <<data, block, capacity>>
      BY <2>2 DEF VisitFront, VisitBack
    <3>5. saved.front \in Nat /\ saved.back \in Nat /\ capacity \in Nat
      BY DEF IInv, TypeOK
    <3>6. SavedInv'
      BY <3>1, <3>4, <3>5 DEF IInv, SavedInv
    <3> QED BY <3>3, <3>6
  <2> QED BY <2>1, <2>2
<1>2. Written' /\ OverflowOnlyWhenShifted'
  BY DEF IInv, Written, OverflowOnlyWhenShifted, Save, VisitFront, VisitBack, Grown
<1> QED BY <1>1, <1>2 DEF IInv

LEMMA Inductive == IInv /\ [Next]_vars => IInv'
<1> SUFFICES ASSUME IInv, [Next]_vars PROVE IInv'
  OBVIOUS
<1>1. CASE ~overflow /\ Call
  BY <1>1, ReserveStep, InsertBackStep, InsertBeyondStep, PopStep, CopyStep DEF Call
<1>2. CASE UNCHANGED vars
  BY <1>2 DEF vars, IInv, TypeOK, Written, SavedInv, OverflowOnlyWhenShifted, Grown
<1> QED BY <1>1, <1>2 DEF Next

THEOREM Invariance == Spec => []IInv
<1> QED BY Initially, Inductive, PTL DEF Spec

-----------------------------------------------------------------------------
\* The indices stay inside the block, whatever is called in whatever order.
THEOREM TypeCorrect == Spec => []TypeOK
<1>1. IInv => TypeOK
  BY DEF IInv
<1> QED BY <1>1, Invariance, PTL

\* Without a pop at the front, insertBack of a version that grows is safe.
THEOREM SafeInsertion == Spec => []OverflowOnlyWhenShifted
<1>1. IInv => OverflowOnlyWhenShifted
  BY DEF IInv
<1> QED BY <1>1, Invariance, PTL

\* array_foreach reads only live and written memory as long as the array has
\* not grown since it made its copy.
THEOREM SafeIteration == Spec => []SavedReadable
<1>1. IInv => SavedReadable
  BY UndefAssumption DEF IInv, TypeOK, SavedInv, SavedReadable
<1> QED BY <1>1, Invariance, PTL

-----------------------------------------------------------------------------
LEMMA ContentsFacts ==
  ASSUME IInv
  PROVE  /\ Contents \in Seq(Values)
         /\ Len(Contents) = back - front /\ back - front \in Nat
         /\ \A k \in 1..back-front : Contents[k] = data[front + k - 1]
<1>1. front \in Nat /\ back \in Nat /\ back - front \in Nat
  BY DEF IInv, TypeOK
<1>2. \A k \in 1..back-front : data[front + k - 1] \in Values
  BY <1>1 DEF IInv, Written
<1> QED BY <1>1, <1>2 DEF Contents, Length

\* A step that changes neither the indices nor the elements is invisible.
LEMMA SameContents ==
  ASSUME IInv, UNCHANGED <<front, back>>,
         \A k \in front..back-1 : data'[k] = data[k]
  PROVE  UNCHANGED Contents
<1>1. front \in Nat /\ back \in Nat
  BY DEF IInv, TypeOK
<1>2. \A k \in 1..back-front : data'[front + k - 1] = data[front + k - 1]
  BY <1>1
<1> QED BY <1>1, <1>2 DEF Contents, Length

LEMMA InsertBackRefines ==
  ASSUME IInv, IInv', NEW v \in Values, InsertBack(v)
  PROVE  D!InsertBack(v)
<1>0. Needed \in Int
  BY NeededInt
<1>1. front \in Nat /\ back \in Nat /\ front' = front /\ back' = back + 1
  BY DEF IInv, TypeOK, InsertBack
<1>2. back < Larger(Needed) /\ Larger(Needed) \in Nat
  BY <1>0, ReserveFacts DEF InsertBack
<1>3. Moved(Needed) \in [0..Larger(Needed)-1 -> Values \cup {Undef}]
  BY <1>0, ReserveFacts
<1>4. data' = [Moved(Needed) EXCEPT ![back] = v]
  BY DEF InsertBack
<1>5. data'[back] = v
  BY <1>1, <1>2, <1>3, <1>4
<1>6. \A k \in front..back-1 : data'[k] = data[k]
  <2> SUFFICES ASSUME NEW k \in front..back-1 PROVE data'[k] = data[k]
    OBVIOUS
  <2>1. k # back
    BY <1>1
  <2>2. k \in 0..Larger(Needed)-1
    BY <1>1, <1>2
  <2>3. Moved(Needed)[k] = data[k]
    BY <1>0, ReserveFacts
  <2> QED BY <1>3, <1>4, <2>1, <2>2, <2>3
<1> DEFINE s == Append(Contents, v)
<1>7. s \in Seq(Values) /\ Len(s) = back' - front'
  BY <1>1, ContentsFacts
<1>8. ASSUME NEW k \in 1..back'-front' PROVE s[k] = data'[front' + k - 1]
  <2>1. CASE k = back - front + 1
    BY <1>1, <1>5, <2>1, ContentsFacts
  <2>2. CASE k # back - front + 1
    <3>1. k \in 1..back-front /\ front + k - 1 \in front..back-1
      BY <1>1, <2>2
    <3> QED BY <1>1, <1>6, <3>1, ContentsFacts
  <2> QED BY <2>1, <2>2
<1>9. Contents' = s
  <2>1. Contents' = [k \in 1..back'-front' |-> data'[front' + k - 1]]
    BY DEF Contents, Length
  <2> HIDE DEF s
  <2>2. s = [k \in 1..back'-front' |-> s[k]]
    BY <1>7
  <2> QED BY <1>8, <2>1, <2>2
<1> QED BY <1>9 DEF D!InsertBack

LEMMA PopRefines ==
  ASSUME IInv, IInv', PopFront \/ PopBack
  PROVE  D!PopFront \/ D!PopBack
<1>1. front \in Nat /\ back \in Nat /\ back > front /\ data' = data
  BY DEF IInv, TypeOK, PopFront, PopBack, Empty
<1>2. Contents # <<>>
  BY <1>1, ContentsFacts
<1>3. CASE PopFront
  <2> DEFINE s == Tail(Contents)
  <2>1. front' = front + 1 /\ back' = back
    BY <1>3 DEF PopFront
  <2>2. s \in Seq(Values) /\ Len(s) = back' - front'
    BY <1>1, <1>2, <2>1, ContentsFacts
  <2>3. \A k \in 1..back'-front' : s[k] = data'[front' + k - 1]
    BY <1>1, <1>2, <2>1, ContentsFacts
  <2>4. Contents' = s
    BY <2>1, <2>2, <2>3, <1>1 DEF Contents, Length
  <2> QED BY <1>2, <2>4 DEF D!PopFront
<1>4. CASE PopBack
  <2> DEFINE s == SubSeq(Contents, 1, Len(Contents) - 1)
  <2>1. front' = front /\ back' = back - 1
    BY <1>4 DEF PopBack
  <2>2. s \in Seq(Values) /\ Len(s) = back' - front'
    BY <1>1, <1>2, <2>1, ContentsFacts
  <2>3. \A k \in 1..back'-front' : s[k] = data'[front' + k - 1]
    BY <1>1, <1>2, <2>1, ContentsFacts
  <2>4. Contents' = s
    BY <2>1, <2>2, <2>3, <1>1 DEF Contents, Length
  <2> QED BY <1>2, <2>4 DEF D!PopBack
<1> QED BY <1>3, <1>4

\* Every version of the array is a deque: whatever is reallocated, freed or
\* iterated over, the elements are those inserted and not popped, in order.
THEOREM Implementation == Spec => ImplementsDeque
<1>1. Init => D!Init
  <2> SUFFICES ASSUME Init PROVE Contents = <<>>
    BY DEF D!Init
  <2>1. Contents = [k \in 1..0 |-> data[front + k - 1]]
    BY DEF Init, Contents, Length
  <2> QED BY <2>1
<1>2. IInv /\ IInv' /\ [Next]_vars => [D!Next]_Contents
  <2> SUFFICES ASSUME IInv, IInv', [Next]_vars PROVE D!Next \/ UNCHANGED Contents
    OBVIOUS
  <2>1. ASSUME NEW c \in 1..MaxCapacity, Reserve(c) PROVE UNCHANGED Contents
    <3>1. c \in Int
      BY BoundsAssumption
    <3>2. UNCHANGED <<front, back>> /\ \A k \in front..back-1 : data'[k] = data[k]
      BY <2>1, <3>1, ReserveFacts DEF Reserve
    <3> QED BY <3>2, SameContents
  <2>2. ASSUME NEW v \in Values, InsertBack(v) PROVE D!Next
    BY <2>2, InsertBackRefines DEF D!Next
  <2>3. CASE PopFront \/ PopBack
    BY <2>3, PopRefines DEF D!Next
  <2>4. CASE \/ InsertBeyond \/ Save \/ VisitFront \/ VisitBack
             \/ UNCHANGED vars
    BY <2>4 DEF InsertBeyond, Save, VisitFront, VisitBack, vars, Contents, Length
  <2> QED BY <2>1, <2>2, <2>3, <2>4 DEF Next, Call
<1> QED BY <1>1, <1>2, Invariance, PTL DEF Spec, ImplementsDeque, D!Spec

=============================================================================
