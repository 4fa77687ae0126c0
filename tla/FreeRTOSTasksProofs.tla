------------------------ MODULE FreeRTOSTasksProofs -------------------------
(***************************************************************************)
(* Proofs about the kernel of FreeRTOS and its task control, for any tasks, *)
(* any number of priorities and a tick counter of any size.  First, what   *)
(* each operator of FreeRTOSKernel makes of a record in which every task is *)
(* in one list, once, and the lists are in order; H says which list each   *)
(* task is in.  Then, that whatever tasks and interrupts do, the lists stay *)
(* consistent, the task that should run does, vTaskDelayUntil keeps its    *)
(* periods, and every sleep ends at its tick.  The last sections are about *)
(* event lists, for the proofs about queues.                               *)
(***************************************************************************)
EXTENDS FreeRTOSTasks, FiniteSets, SequenceTheorems, FiniteSetTheorems,
        WellFoundedInduction, TLAPS

-----------------------------------------------------------------------------
(* The tick counter                                                          *)

\* A counter of N values, as a name that the provers need not look into.
Wrapped(x, N) == x % N

\* The remainder of a number that is at most one turn out of range.
LEMMA OneTurn ==
  ASSUME NEW N \in Nat \ {0}, NEW x \in Int, -N <= x, x < 2*N
  PROVE  Wrapped(x, N) = IF x < 0 THEN x + N ELSE IF x < N THEN x ELSE x - N
<1> USE DEF Wrapped
<1>1. CASE x < 0
  <2>1. x + N \in 0 .. N-1 /\ x = N * (-1) + (x + N)
    BY <1>1
  <2>2. QED
    BY <1>1, <2>1
<1>2. CASE x >= 0 /\ x < N
  BY <1>2
<1>3. CASE x >= N
  <2>1. x - N \in 0 .. N-1 /\ x = N * 1 + (x - N)
    BY <1>3
  <2>2. QED
    BY <1>3, <2>1
<1>4. QED
  BY <1>1, <1>2, <1>3

\* vTaskDelayUntil blocks exactly if the wake time is to come: the counter was at
\* last age ticks ago, less than a turn, and the task asks for n ticks from there.
THEOREM ShouldDelayIsRight ==
  ASSUME NEW N \in Nat \ {0}, NEW last \in 0 .. N-1,
         NEW age \in 0 .. N-1, NEW n \in 0 .. N-1
  PROVE  ShouldDelay(last, (last + n) % N, (last + age) % N) <=> age < n
<1> DEFINE toWake == Wrapped(last + n, N)
           tick   == Wrapped(last + age, N)
<1>1. toWake = IF last + n < N THEN last + n ELSE last + n - N
  BY OneTurn
<1>2. tick = IF last + age < N THEN last + age ELSE last + age - N
  BY OneTurn
<1> HIDE DEF toWake, tick
<1>3. ShouldDelay(last, toWake, tick) <=> age < n
  BY <1>1, <1>2 DEF ShouldDelay
<1>4. QED
  BY <1>3 DEF toWake, tick, Wrapped

\* xTaskCheckForTimeOut says that the time is over exactly if wait ticks have
\* passed since the counter was at entering, if not more ticks have passed than
\* until the counter is to wrap for the second time; overflowed compares
\* the numbers of the overflows.
THEOREM TimedOutIsRight ==
  ASSUME NEW N \in Nat \ {0}, NEW entering \in 0 .. N-1, NEW wait \in 1 .. N-1,
         NEW elapsed \in Nat, entering + elapsed < 2 * N
  PROVE  TimedOut(entering + elapsed >= N, entering, (entering + elapsed) % N, wait, N)
           <=> elapsed >= wait
<1> DEFINE tick == Wrapped(entering + elapsed, N)
<1>1. tick = IF entering + elapsed < N THEN entering + elapsed
                                       ELSE entering + elapsed - N
  BY OneTurn
<1>2. Wrapped(tick - entering, N) = IF tick < entering THEN tick - entering + N
                                             ELSE tick - entering
  BY <1>1, OneTurn
<1> HIDE DEF tick
<1>3. TimedOut(entering + elapsed >= N, entering, tick, wait, N) <=> elapsed >= wait
  <2>1. CASE entering + elapsed < N
    BY <2>1, <1>1, <1>2 DEF TimedOut, Elapsed, Wrapped
  <2>2. CASE entering + elapsed >= N
    BY <2>2, <1>1, <1>2 DEF TimedOut, Elapsed, Wrapped
  <2>3. QED
    BY <2>1, <2>2
<1>4. QED
  BY <1>3 DEF tick, Wrapped

\* What is left of a wait after it was deducted is what is left of the time: a
\* call that is woken and waits again waits for wait ticks in all.
THEOREM DeductionIsRight ==
  ASSUME NEW N \in Nat \ {0}, NEW entering \in 0 .. N-1, NEW wait \in 1 .. N-1,
         NEW elapsed \in Nat, entering + elapsed < 2 * N,
         ~TimedOut(entering + elapsed >= N, entering, (entering + elapsed) % N, wait, N)
  PROVE  /\ wait - Elapsed(entering, (entering + elapsed) % N, N) = wait - elapsed
         /\ wait - elapsed > 0
<1> DEFINE tick == Wrapped(entering + elapsed, N)
<1>1. elapsed < wait
  BY TimedOutIsRight
<1>2. tick = IF entering + elapsed < N THEN entering + elapsed
                                       ELSE entering + elapsed - N
  BY OneTurn
<1>3. Wrapped(tick - entering, N) = IF tick < entering THEN tick - entering + N
                                             ELSE tick - entering
  <2>1. tick \in 0 .. N-1
    BY <1>2
  <2> HIDE DEF tick
  <2>2. QED
    BY <2>1, OneTurn
<1> HIDE DEF tick
<1>4. Elapsed(entering, tick, N) = elapsed
  BY <1>1, <1>2, <1>3 DEF Elapsed, Wrapped
<1>5. QED
  BY <1>1, <1>4 DEF tick, Wrapped

-----------------------------------------------------------------------------
(* Lists                                                                     *)

\* The lists of tasks, without doubles.
Lists   == {s \in Seq(Task) : IsInjective(s)}
List(s) == s \in Lists

\* A list in the order of the values w.
InOrder(s, w) == \A i, j \in 1 .. Len(s) : i < j => w[s[i]] <= w[s[j]]

\* What it is to be a list of tasks without doubles.
LEMMA ListFacts ==
  ASSUME NEW s, List(s)
  PROVE  /\ Len(s) \in Nat /\ DOMAIN s = 1 .. Len(s)
         /\ \A i \in 1 .. Len(s) : s[i] \in Task
         /\ \A i, j \in 1 .. Len(s) : s[i] = s[j] => i = j
BY LenProperties, ElementOfSeq DEF List, Lists, IsInjective

\* A sequence of tasks without doubles is such a list.
LEMMA MadeList ==
  ASSUME NEW s \in Seq(Task), \A i, j \in 1 .. Len(s) : s[i] = s[j] => i = j
  PROVE  List(s)
BY LenProperties DEF List, Lists, IsInjective

\* Nobody is in the empty list, and it is in order.
LEMMA EmptyList ==
  /\ List(<<>>)
  /\ \A t : ~Contains(<<>>, t)
  /\ \A w : InOrder(<<>>, w)
<1>1. <<>> \in Seq(Task) /\ Len(<<>>) = 0
  BY EmptySeq
<1>2. List(<<>>)
  <2>1. \A i, j \in 1 .. Len(<<>>) : <<>>[i] = <<>>[j] => i = j
    BY <1>1
  <2>2. QED
    BY <1>1, <2>1, MadeList
<1>3. QED
  BY <1>1, <1>2 DEF Contains, InOrder

\* Only the empty list contains nobody.
LEMMA SomeoneInList ==
  ASSUME NEW s \in Seq(Task), s # <<>>
  PROVE  /\ Head(s) \in Task /\ Contains(s, Head(s))
         /\ Len(s) \in Nat \ {0} /\ Head(s) = s[1]
<1>1. Len(s) \in Nat \ {0} /\ Head(s) \in Task
  BY EmptySeq, HeadTailProperties
<1>2. Head(s) = s[1]
  BY <1>1, HeadTailOfSubSeq, SubSeqFull
<1>3. QED
  BY <1>1, <1>2 DEF Contains

\* Who is in a list is a task.
LEMMA ContainsTask ==
  ASSUME NEW s \in Seq(Task), NEW t, Contains(s, t)
  PROVE  t \in Task /\ s # <<>>
BY ElementOfSeq, EmptySeq, LenProperties DEF Contains

\* The first of a list in order has the least value.
LEMMA HeadFirst ==
  ASSUME NEW s \in Seq(Task), NEW w, InOrder(s, w), \A t \in Task : w[t] \in Int,
         NEW t, Contains(s, t)
  PROVE  w[Head(s)] <= w[t]
<1>1. s # <<>> /\ t \in Task
  BY ContainsTask
<1>2. Len(s) \in Nat \ {0} /\ Head(s) = s[1]
  BY <1>1, SomeoneInList
<1>3. PICK i \in 1 .. Len(s) : s[i] = t
  BY DEF Contains
<1>4. QED
  BY <1>1, <1>2, <1>3 DEF InOrder

\* A task that is added at the end.
LEMMA AppendToList ==
  ASSUME NEW s, List(s), NEW t \in Task, ~Contains(s, t)
  PROVE  /\ List(Append(s, t)) /\ Append(s, t) # <<>>
         /\ \A u : Contains(Append(s, t), u) <=> Contains(s, u) \/ u = t
<1> DEFINE r == Append(s, t)
<1>1. /\ r \in Seq(Task) /\ Len(r) = Len(s) + 1 /\ Len(s) \in Nat
      /\ \A i \in 1 .. Len(s) : r[i] = s[i]
      /\ r[Len(s) + 1] = t
  BY AppendProperties, LenProperties DEF List, Lists
<1> HIDE DEF r
<1>2. \A i \in 1 .. Len(s) : s[i] # t
  BY DEF Contains
<1>3. List(r)
  <2>1. \A i, j \in 1 .. Len(r) : r[i] = r[j] => i = j
    BY <1>1, <1>2, ListFacts
  <2>2. QED
    BY <1>1, <2>1, MadeList
<1>4. r # <<>>
  BY <1>1, EmptySeq
<1>5. ASSUME NEW u PROVE Contains(r, u) <=> Contains(s, u) \/ u = t
  BY <1>1 DEF Contains
<1>6. QED
  BY <1>3, <1>4, <1>5 DEF r

\* What RemoveAt and InsertAt make of a list.
LEMMA RemoveAtFacts ==
  ASSUME NEW s \in Seq(Task), NEW i \in 1 .. Len(s)
  PROVE  /\ RemoveAt(s, i) \in Seq(Task)
         /\ Len(RemoveAt(s, i)) = Len(s) - 1
         /\ \A j \in 1 .. Len(s) - 1 :
              RemoveAt(s, i)[j] = IF j < i THEN s[j] ELSE s[j + 1]
<1> DEFINE a == SubSeq(s, 1, i - 1)
           b == SubSeq(s, i + 1, Len(s))
<1>1. Len(s) \in Nat /\ \A j \in 1 .. Len(s) : s[j] \in Task
  BY LenProperties, ElementOfSeq
<1>2. /\ a \in Seq(Task) /\ Len(a) = i - 1
      /\ \A j \in 1 .. i - 1 : a[j] = s[j]
  <2>1. \A j \in 1 .. i - 1 : s[j] \in Task
    BY <1>1
  <2>2. /\ a \in Seq(Task) /\ Len(a) = (IF 1 <= i - 1 THEN i - 1 - 1 + 1 ELSE 0)
        /\ \A j \in 1 .. i - 1 - 1 + 1 : a[j] = s[1 + j - 1]
    BY <1>1, <2>1, SubSeqProperties
  <2>3. QED
    BY <1>1, <2>2
<1>3. /\ b \in Seq(Task) /\ Len(b) = Len(s) - i
      /\ \A j \in 1 .. Len(s) - i : b[j] = s[i + j]
  <2>1. \A j \in i + 1 .. Len(s) : s[j] \in Task
    BY <1>1
  <2>2. /\ b \in Seq(Task) /\ Len(b) = (IF i + 1 <= Len(s) THEN Len(s) - (i + 1) + 1 ELSE 0)
        /\ \A j \in 1 .. Len(s) - (i + 1) + 1 : b[j] = s[i + 1 + j - 1]
    BY <1>1, <2>1, SubSeqProperties
  <2>3. QED
    BY <1>1, <2>2
<1> HIDE DEF a, b
<1>4. /\ a \o b \in Seq(Task) /\ Len(a \o b) = Len(a) + Len(b)
      /\ \A j \in 1 .. Len(a) + Len(b) :
           (a \o b)[j] = IF j <= Len(a) THEN a[j] ELSE b[j - Len(a)]
  BY <1>2, <1>3, ConcatProperties
<1>5. ASSUME NEW j \in 1 .. Len(s) - 1
      PROVE  (a \o b)[j] = IF j < i THEN s[j] ELSE s[j + 1]
  <2>1. CASE j < i
    BY <1>1, <1>2, <1>3, <1>4, <2>1
  <2>2. CASE j >= i
    <3>1. j - Len(a) \in 1 .. Len(s) - i /\ i + (j - Len(a)) = j + 1
      BY <1>1, <1>2, <2>2
    <3>2. b[j - Len(a)] = s[j + 1]
      BY <1>3, <3>1
    <3>3. QED
      BY <1>1, <1>2, <1>3, <1>4, <2>2, <3>2
  <2>3. j < i \/ j >= i
    BY <1>1
  <2>4. QED
    BY <2>1, <2>2, <2>3
<1>6. RemoveAt(s, i) = a \o b
  BY DEF a, b, RemoveAt
<1>7. QED
  BY <1>1, <1>2, <1>3, <1>4, <1>5, <1>6

\* The community modules' InsertAt, element by element.
LEMMA InsertAtFacts ==
  ASSUME NEW s \in Seq(Task), NEW i \in 1 .. Len(s), NEW t \in Task
  PROVE  /\ InsertAt(s, i, t) \in Seq(Task)
         /\ Len(InsertAt(s, i, t)) = Len(s) + 1
         /\ \A j \in 1 .. Len(s) + 1 :
              InsertAt(s, i, t)[j] = IF j < i THEN s[j] ELSE IF j = i THEN t ELSE s[j - 1]
<1> DEFINE a == SubSeq(s, 1, i - 1)
           b == SubSeq(s, i, Len(s))
           c == <<t>>
<1>1. Len(s) \in Nat /\ \A j \in 1 .. Len(s) : s[j] \in Task
  BY LenProperties, ElementOfSeq
<1>2. /\ a \in Seq(Task) /\ Len(a) = i - 1
      /\ \A j \in 1 .. i - 1 : a[j] = s[j]
  <2>1. \A j \in 1 .. i - 1 : s[j] \in Task
    BY <1>1
  <2>2. /\ a \in Seq(Task) /\ Len(a) = (IF 1 <= i - 1 THEN i - 1 - 1 + 1 ELSE 0)
        /\ \A j \in 1 .. i - 1 - 1 + 1 : a[j] = s[1 + j - 1]
    BY <1>1, <2>1, SubSeqProperties
  <2>3. QED
    BY <1>1, <2>2
<1>3. /\ b \in Seq(Task) /\ Len(b) = Len(s) - i + 1
      /\ \A j \in 1 .. Len(s) - i + 1 : b[j] = s[i + j - 1]
  <2>1. \A j \in i .. Len(s) : s[j] \in Task
    BY <1>1
  <2>2. /\ b \in Seq(Task) /\ Len(b) = (IF i <= Len(s) THEN Len(s) - i + 1 ELSE 0)
        /\ \A j \in 1 .. Len(s) - i + 1 : b[j] = s[i + j - 1]
    BY <1>1, <2>1, SubSeqProperties
  <2>3. QED
    BY <1>1, <2>2
<1>4. c \in Seq(Task) /\ Len(c) = 1 /\ c[1] = t
  OBVIOUS
<1> HIDE DEF a, b, c
<1>5. /\ a \o c \in Seq(Task) /\ Len(a \o c) = i
      /\ \A j \in 1 .. i : (a \o c)[j] = IF j < i THEN s[j] ELSE t
  <2>1. /\ a \o c \in Seq(Task) /\ Len(a \o c) = Len(a) + Len(c)
        /\ \A j \in 1 .. Len(a) + Len(c) :
             (a \o c)[j] = IF j <= Len(a) THEN a[j] ELSE c[j - Len(a)]
    BY <1>2, <1>4, ConcatProperties
  <2>2. QED
    BY <1>1, <1>2, <1>4, <2>1
<1>6. /\ (a \o c) \o b \in Seq(Task) /\ Len((a \o c) \o b) = Len(a \o c) + Len(b)
      /\ \A j \in 1 .. Len(a \o c) + Len(b) :
           ((a \o c) \o b)[j] = IF j <= Len(a \o c) THEN (a \o c)[j] ELSE b[j - Len(a \o c)]
  BY <1>3, <1>5, ConcatProperties
<1>7. ASSUME NEW j \in 1 .. Len(s) + 1
      PROVE  ((a \o c) \o b)[j] = IF j < i THEN s[j] ELSE IF j = i THEN t ELSE s[j - 1]
  <2>1. CASE j <= i
    BY <1>1, <1>3, <1>5, <1>6, <2>1
  <2>2. CASE j > i
    <3>1. j - i \in 1 .. Len(s) - i + 1 /\ i + (j - i) - 1 = j - 1
      BY <1>1, <2>2
    <3>2. b[j - i] = s[j - 1]
      BY <1>3, <3>1
    <3>3. QED
      BY <1>1, <1>3, <1>5, <1>6, <2>2, <3>2
  <2>3. j <= i \/ j > i
    BY <1>1
  <2>4. QED
    BY <2>1, <2>2, <2>3
<1>8. InsertAt(s, i, t) = (a \o c) \o b
  BY DEF a, b, c, InsertAt
<1>9. QED
  BY <1>1, <1>3, <1>5, <1>6, <1>7, <1>8

\* vListRemove takes one task out and leaves the order of the others.
LEMMA WithoutFacts ==
  ASSUME NEW s, List(s), NEW t
  PROVE  /\ List(Without(s, t))
         /\ \A u : Contains(Without(s, t), u) <=> Contains(s, u) /\ u # t
         /\ \A w : InOrder(s, w) => InOrder(Without(s, t), w)
         /\ ~Contains(s, t) => Without(s, t) = s
         /\ Contains(s, t)  => Len(Without(s, t)) = Len(s) - 1
<1>1. CASE ~Contains(s, t)
  BY <1>1 DEF Without
<1>2. CASE Contains(s, t)
  <2> DEFINE i == CHOOSE i \in 1 .. Len(s) : s[i] = t
             r == RemoveAt(s, i)
  <2>1. i \in 1 .. Len(s) /\ s[i] = t
    BY <1>2 DEF Contains
  <2> HIDE DEF i
  <2>2. /\ r \in Seq(Task) /\ Len(r) = Len(s) - 1
        /\ \A j \in 1 .. Len(s) - 1 : r[j] = IF j < i THEN s[j] ELSE s[j + 1]
    BY <2>1, RemoveAtFacts DEF List, Lists
  <2>3. /\ Len(s) \in Nat /\ \A j \in 1 .. Len(s) : s[j] \in Task
        /\ \A j, m \in 1 .. Len(s) : s[j] = s[m] => j = m
    BY ListFacts
  <2> HIDE DEF r
  <2>4. List(r)
    <3>1. \A j, m \in 1 .. Len(r) : r[j] = r[m] => j = m
      BY <2>1, <2>2, <2>3
    <3>2. QED
      BY <2>2, <3>1, MadeList
  <2>5. ASSUME NEW u PROVE Contains(r, u) <=> Contains(s, u) /\ u # t
    <3>1. ASSUME Contains(r, u) PROVE Contains(s, u) /\ u # t
      <4>1. PICK j \in 1 .. Len(s) - 1 : r[j] = u
        BY <2>2, <3>1 DEF Contains
      <4> DEFINE m == IF j < i THEN j ELSE j + 1
      <4>2. m \in 1 .. Len(s) /\ m # i /\ s[m] = u
        BY <2>1, <2>2, <2>3, <4>1
      <4>3. QED
        BY <2>1, <2>3, <4>2 DEF Contains
    <3>2. ASSUME Contains(s, u), u # t PROVE Contains(r, u)
      <4>1. PICK j \in 1 .. Len(s) : s[j] = u
        BY <3>2 DEF Contains
      <4> DEFINE m == IF j < i THEN j ELSE j - 1
      <4>2. m \in 1 .. Len(s) - 1 /\ r[m] = u
        BY <2>1, <2>2, <2>3, <3>2, <4>1
      <4>3. QED
        BY <2>2, <4>2 DEF Contains
    <3>3. QED
      BY <3>1, <3>2
  <2>6. ASSUME NEW w, InOrder(s, w) PROVE InOrder(r, w)
    BY <2>1, <2>2, <2>3, <2>6 DEF InOrder
  <2>7. Without(s, t) = r
    BY <1>2 DEF Without, r, i
  <2>8. QED
    BY <1>2, <2>2, <2>4, <2>5, <2>6, <2>7
<1>3. QED
  BY <1>1, <1>2

\* The first task leaves.
LEMMA TailOfList ==
  ASSUME NEW s, List(s), s # <<>>
  PROVE  /\ List(Tail(s))
         /\ \A u : Contains(Tail(s), u) <=> Contains(s, u) /\ u # Head(s)
<1>1. /\ Tail(s) \in Seq(Task) /\ Len(Tail(s)) = Len(s) - 1
      /\ \A i \in 1 .. Len(s) - 1 : Tail(s)[i] = s[i + 1]
  BY HeadTailProperties DEF List, Lists
<1>2. Len(s) \in Nat \ {0} /\ Head(s) = s[1]
  BY SomeoneInList DEF List, Lists
<1>3. \A i, j \in 1 .. Len(s) : s[i] = s[j] => i = j
  BY ListFacts
<1>4. List(Tail(s))
  <2>1. \A i, j \in 1 .. Len(Tail(s)) : Tail(s)[i] = Tail(s)[j] => i = j
    BY <1>1, <1>2, <1>3
  <2>2. QED
    BY <1>1, <2>1, MadeList
<1>5. ASSUME NEW u PROVE Contains(Tail(s), u) <=> Contains(s, u) /\ u # Head(s)
  <2>1. ASSUME Contains(Tail(s), u) PROVE Contains(s, u) /\ u # Head(s)
    <3>1. PICK i \in 1 .. Len(s) - 1 : s[i + 1] = u
      BY <1>1, <2>1 DEF Contains
    <3>2. i + 1 \in 1 .. Len(s) /\ i + 1 # 1
      BY <1>2, <3>1
    <3>3. QED
      BY <1>2, <1>3, <3>1, <3>2 DEF Contains
  <2>2. ASSUME Contains(s, u), u # Head(s) PROVE Contains(Tail(s), u)
    <3>1. PICK i \in 1 .. Len(s) : s[i] = u
      BY <2>2 DEF Contains
    <3>2. i - 1 \in 1 .. Len(s) - 1 /\ Tail(s)[i - 1] = u
      BY <1>1, <1>2, <2>2, <3>1
    <3>3. QED
      BY <1>1, <3>2 DEF Contains
  <2>3. QED
    BY <2>1, <2>2
<1>6. QED
  BY <1>4, <1>5

\* The next in turn goes to the end.
LEMMA TurnedList ==
  ASSUME NEW s, List(s), s # <<>>
  PROVE  /\ List(Append(Tail(s), Head(s))) /\ Append(Tail(s), Head(s)) # <<>>
         /\ \A u : Contains(Append(Tail(s), Head(s)), u) <=> Contains(s, u)
<1>1. Head(s) \in Task /\ Contains(s, Head(s))
  BY SomeoneInList DEF List, Lists
<1>2. /\ List(Tail(s)) /\ ~Contains(Tail(s), Head(s))
      /\ \A u : Contains(Tail(s), u) <=> Contains(s, u) /\ u # Head(s)
  BY TailOfList
<1>3. QED
  BY <1>1, <1>2, AppendToList

\* The least and the greatest of a set of numbers, and induction, from the
\* well-foundedness of < alone.
Below == {p \in Nat \X Nat : p[1] < p[2]}

\* A set of natural numbers that is not empty has a least element.
LEMMA Least ==
  ASSUME NEW T, T \subseteq Nat, T # {}
  PROVE  \E m \in T : \A n \in T : m <= n
<1>1. IsWellFoundedOn(Below, Nat)
  <2>1. OpToRel(<, Nat) = Below
    BY Zenon DEF OpToRel, Below
  <2>2. QED
    BY <2>1, NatLessThanWellFounded, Zenon
<1>2. PICK m \in T : \A n \in T : ~(<<n, m>> \in Below)
  BY <1>1, WFMin
<1>3. \A n \in T : ~(n < m)
  BY <1>2 DEF Below
<1>4. \A n \in T : m <= n
  BY <1>3
<1>5. QED
  BY <1>4

\* Induction over the natural numbers, for a set instead of a predicate.
LEMMA Induction ==
  ASSUME NEW T, 0 \in T, \A n \in Nat : n \in T => n + 1 \in T
  PROVE  Nat \subseteq T
<1>1. SUFFICES ASSUME Nat \ T # {} PROVE FALSE
  OBVIOUS
<1>2. PICK m \in Nat \ T : \A n \in Nat \ T : m <= n
  BY <1>1, Least
<1>3. m # 0 /\ m - 1 \in Nat /\ m - 1 \in T
  BY <1>2
<1>4. QED
  BY <1>2, <1>3

\* The community modules' Min is the least element,
LEMMA MinFacts ==
  ASSUME NEW T, T \subseteq Nat, T # {}
  PROVE  Min(T) \in T /\ \A n \in T : Min(T) <= n
BY Least, Zenon DEF Min

\* and Max the greatest of a set that is bounded.
LEMMA MaxFacts ==
  ASSUME NEW N \in Nat, NEW T, T \subseteq 0 .. N, T # {}
  PROVE  Max(T) \in T /\ \A n \in T : Max(T) >= n
<1> DEFINE U == {i \in 0 .. N : N - i \in T}
<1>1. U \subseteq Nat /\ U # {}
  <2>1. PICK n \in T : TRUE
    OBVIOUS
  <2>2. N - n \in 0 .. N /\ N - (N - n) = n
    BY <2>1
  <2>3. N - n \in U
    BY <2>2
  <2>4. U \subseteq Nat
    OBVIOUS
  <2> HIDE DEF U
  <2>5. QED
    BY <2>3, <2>4
<1>2. PICK m \in U : \A n \in U : m <= n
  BY <1>1, Least
<1>3. N - m \in T
  BY <1>2
<1>4. ASSUME NEW n \in T PROVE N - m >= n
  <2>1. n \in 0 .. N /\ N - n \in 0 .. N /\ N - (N - n) = n
    OBVIOUS
  <2>2. N - n \in U
    BY <2>1
  <2>3. QED
    BY <1>2, <2>1, <2>2
<1>5. \E x \in T : \A y \in T : x >= y
  BY <1>3, <1>4
<1>6. QED
  BY <1>5, Zenon DEF Max

\* vListInsert puts a task into a list and keeps the order of the values.
LEMMA InsertFacts ==
  ASSUME NEW s, List(s), NEW t \in Task, ~Contains(s, t),
         NEW w, \A u \in Task : w[u] \in Int
  PROVE  /\ List(vListInsert(s, t, w))
         /\ \A u : Contains(vListInsert(s, t, w), u) <=> Contains(s, u) \/ u = t
         /\ InOrder(s, w) => InOrder(vListInsert(s, t, w), w)
<1> DEFINE after == {i \in 1 .. Len(s) : w[s[i]] > w[t]}
<1>1. /\ Len(s) \in Nat /\ \A j \in 1 .. Len(s) : s[j] \in Task /\ s[j] # t
      /\ \A j, m \in 1 .. Len(s) : s[j] = s[m] => j = m
  BY ListFacts DEF Contains
<1>2. CASE after = {}
  <2>1. vListInsert(s, t, w) = Append(s, t)
    BY <1>2 DEF vListInsert
  <2>2. /\ Len(Append(s, t)) = Len(s) + 1
        /\ \A j \in 1 .. Len(s) : Append(s, t)[j] = s[j]
        /\ Append(s, t)[Len(s) + 1] = t
    BY AppendProperties DEF List, Lists
  <2>3. \A i \in 1 .. Len(s) : w[s[i]] <= w[t]
    BY <1>1, <1>2
  <2>4. ASSUME InOrder(s, w) PROVE InOrder(Append(s, t), w)
    BY <1>1, <2>2, <2>3, <2>4 DEF InOrder
  <2>5. QED
    BY <2>1, <2>4, AppendToList
<1>3. CASE after # {}
  <2> DEFINE i == Min(after)
             r == InsertAt(s, i, t)
  <2>1. i \in after /\ \A j \in after : i <= j
    <3>1. after \subseteq Nat
      BY <1>1
    <3> HIDE DEF after
    <3>2. QED
      BY <1>3, <3>1, MinFacts
  <2>2. i \in 1 .. Len(s) /\ w[s[i]] > w[t]
    BY <2>1
  <2>3. \A j \in 1 .. Len(s) : j < i => w[s[j]] <= w[t]
    BY <1>1, <2>1
  <2> HIDE DEF after, i
  <2>4. /\ r \in Seq(Task) /\ Len(r) = Len(s) + 1
        /\ \A j \in 1 .. Len(s) + 1 :
             r[j] = IF j < i THEN s[j] ELSE IF j = i THEN t ELSE s[j - 1]
    BY <2>2, InsertAtFacts DEF List, Lists
  <2> HIDE DEF r
  <2>5. List(r)
    <3>1. ASSUME NEW j \in 1 .. Len(r), NEW m \in 1 .. Len(r), r[j] = r[m] PROVE j = m
      <4>1. \A n \in 1 .. Len(r) : n # i =>
              /\ (IF n < i THEN n ELSE n - 1) \in 1 .. Len(s)
              /\ r[n] = s[IF n < i THEN n ELSE n - 1]
        BY <1>1, <2>2, <2>4
      <4>2. r[i] = t
        BY <1>1, <2>2, <2>4
      <4>3. CASE j = i \/ m = i
        BY <1>1, <3>1, <4>1, <4>2, <4>3
      <4>4. CASE j # i /\ m # i
        <5> DEFINE a == IF j < i THEN j ELSE j - 1
                   b == IF m < i THEN m ELSE m - 1
        <5>1. a \in 1 .. Len(s) /\ b \in 1 .. Len(s) /\ s[a] = s[b]
          BY <3>1, <4>1, <4>4
        <5>2. a = b
          BY <1>1, <5>1
        <5>3. QED
          BY <1>1, <2>2, <2>4, <4>4, <5>2
      <4>5. QED
        BY <4>3, <4>4
    <3>2. QED
      BY <2>4, <3>1, MadeList
  <2>6. ASSUME NEW u PROVE Contains(r, u) <=> Contains(s, u) \/ u = t
    <3>1. ASSUME Contains(r, u), u # t PROVE Contains(s, u)
      <4>1. PICK j \in 1 .. Len(s) + 1 : r[j] = u
        BY <2>4, <3>1 DEF Contains
      <4> DEFINE m == IF j < i THEN j ELSE j - 1
      <4>2. m \in 1 .. Len(s) /\ s[m] = u
        BY <1>1, <2>2, <2>4, <3>1, <4>1
      <4>3. QED
        BY <4>2 DEF Contains
    <3>2. ASSUME Contains(s, u) PROVE Contains(r, u)
      <4>1. PICK j \in 1 .. Len(s) : s[j] = u
        BY <3>2 DEF Contains
      <4> DEFINE m == IF j < i THEN j ELSE j + 1
      <4>2. m \in 1 .. Len(s) + 1 /\ r[m] = u
        BY <1>1, <2>2, <2>4, <4>1
      <4>3. QED
        BY <2>4, <4>2 DEF Contains
    <3>3. i \in 1 .. Len(s) + 1 /\ r[i] = t
      BY <1>1, <2>2, <2>4
    <3>4. Contains(r, t)
      BY <2>4, <3>3 DEF Contains
    <3>5. QED
      BY <3>1, <3>2, <3>4
  <2>7. ASSUME InOrder(s, w) PROVE InOrder(r, w)
    <3>1. \A j, m \in 1 .. Len(s) : j < m => w[s[j]] <= w[s[m]]
      BY <2>7 DEF InOrder
    <3>2. \A j \in 1 .. Len(s) : j >= i => w[t] <= w[s[j]]
      BY <1>1, <2>2, <3>1
    <3>3. \A j \in 1 .. Len(s) : w[s[j]] \in Int
      BY <1>1
    <3>4. ASSUME NEW j \in 1 .. Len(r), NEW m \in 1 .. Len(r), j < m
          PROVE  w[r[j]] <= w[r[m]]
      <4>1. CASE m < i
        BY <1>1, <2>2, <2>4, <3>1, <3>4, <4>1
      <4>2. CASE m = i
        <5>1. r[m] = t /\ j \in 1 .. Len(s) /\ j < i /\ r[j] = s[j]
          BY <1>1, <2>2, <2>4, <3>4, <4>2
        <5>2. QED
          BY <2>3, <5>1
      <4>3. CASE m > i /\ j < i
        <5>1. m - 1 \in 1 .. Len(s) /\ r[m] = s[m - 1] /\ r[j] = s[j] /\ j < m - 1 /\ j \in 1 .. Len(s)
          BY <1>1, <2>2, <2>4, <4>3
        <5>2. QED
          BY <3>1, <5>1
      <4>4. CASE m > i /\ j = i
        <5>1. m - 1 \in 1 .. Len(s) /\ r[m] = s[m - 1] /\ r[j] = t /\ m - 1 >= i
          BY <1>1, <2>2, <2>4, <4>4
        <5>2. QED
          BY <3>2, <5>1
      <4>5. CASE m > i /\ j > i
        <5>1. /\ m - 1 \in 1 .. Len(s) /\ r[m] = s[m - 1]
              /\ j - 1 \in 1 .. Len(s) /\ r[j] = s[j - 1] /\ j - 1 < m - 1
          BY <1>1, <2>2, <2>4, <3>4, <4>5
        <5>2. QED
          BY <3>1, <5>1
      <4>6. QED
        BY <1>1, <2>2, <2>4, <4>1, <4>2, <4>3, <4>4, <4>5
    <3>5. QED
      BY <3>4 DEF InOrder
  <2>8. vListInsert(s, t, w) = r
    BY <1>3 DEF vListInsert, r, i, after
  <2>9. QED
    BY <2>5, <2>6, <2>7, <2>8
<1>4. QED
  BY <1>2, <1>3

-----------------------------------------------------------------------------
(* Items enter and leave lists                                               *)

\* The records of the kernel.
Kernels ==
  [running : BOOLEAN, current : Task \cup {None}, tick : 0 .. MaxDelay,
   overflows : 0 .. Overflows - 1, ready : [Prio -> Lists], delayed : Lists,
   overflow : Lists, wake : [Task -> 0 .. MaxDelay], suspended : SUBSET Task,
   pending : Lists, terminated : Lists, waiting : [EventList -> Lists],
   item : [Task -> Prio], prio : [Task -> Prio], base : [Task -> Prio],
   top : Prio, next : 0 .. MaxDelay, locks : {0, 1}, missed : Nat,
   missedYield : BOOLEAN]

\* What the assumptions say of the constants.
LEMMA Numbers ==
  /\ MaxDelay \in Nat \ {0} /\ Ticks = MaxDelay + 1 /\ 0 .. MaxDelay \subseteq Int
  /\ 0 \in 0 .. MaxDelay /\ MaxDelay \in 0 .. MaxDelay
  /\ 0 \in Prio /\ Prio \subseteq Nat
  /\ 0 \in 0 .. Overflows - 1
BY KernelAssumption DEF MaxDelay, Prio

\* What the types say of the numbers in a record.
LEMMA KernelNumbers ==
  ASSUME NEW K \in Kernels
  PROVE  /\ K.tick \in 0 .. MaxDelay /\ K.next \in 0 .. MaxDelay
         /\ \A t \in Task : K.wake[t] \in 0 .. MaxDelay /\ K.prio[t] \in Prio
         /\ K.top \in Prio /\ K.missed \in Nat
BY DEF Kernels

\* A list stays a list when a task leaves it.
LEMMA WithoutType ==
  ASSUME NEW s \in Lists, NEW t
  PROVE  Without(s, t) \in Lists
BY WithoutFacts DEF List

\* vListRemove, field by field.
LEMMA RemoveGenericItemFields ==
  ASSUME NEW K \in Kernels, NEW t \in Task
  PROVE  LET k1 == RemoveGenericItem(K, t) IN
    /\ k1 \in Kernels
    /\ \A p \in Prio : k1.ready[p] = Without(K.ready[p], t)
    /\ k1.delayed = Without(K.delayed, t)
    /\ k1.overflow = Without(K.overflow, t)
    /\ k1.terminated = Without(K.terminated, t)
    /\ k1.suspended = K.suspended \ {t}
    /\ k1.wake = [K.wake EXCEPT ![t] = 0]
    /\ k1.running = K.running /\ k1.current = K.current /\ k1.tick = K.tick
    /\ k1.overflows = K.overflows /\ k1.pending = K.pending /\ k1.waiting = K.waiting
    /\ k1.item = K.item /\ k1.prio = K.prio /\ k1.base = K.base /\ k1.top = K.top
    /\ k1.next = K.next /\ k1.locks = K.locks /\ k1.missed = K.missed
    /\ k1.missedYield = K.missedYield
<1> DEFINE ready == [p \in Prio |-> Without(K.ready[p], t)]
           wake  == [K.wake EXCEPT ![t] = 0]
<1>1. 0 \in 0 .. MaxDelay
  BY KernelAssumption DEF MaxDelay
<1>2. ready \in [Prio -> Lists] /\ wake \in [Task -> 0 .. MaxDelay]
  BY <1>1, WithoutType DEF Kernels
<1>3. /\ Without(K.delayed, t) \in Lists /\ Without(K.overflow, t) \in Lists
      /\ Without(K.terminated, t) \in Lists /\ K.suspended \ {t} \in SUBSET Task
  BY WithoutType DEF Kernels
<1>4. \A p \in Prio : ready[p] = Without(K.ready[p], t)
  OBVIOUS
<1>5. RemoveGenericItem(K, t) = [K EXCEPT !.ready = ready, !.delayed = Without(K.delayed, t),
            !.overflow = Without(K.overflow, t), !.suspended = K.suspended \ {t},
            !.terminated = Without(K.terminated, t), !.wake = wake]
  BY DEF RemoveGenericItem, Kernels
<1>6. wake = [K.wake EXCEPT ![t] = 0]
  OBVIOUS
<1> DEFINE delayed == Without(K.delayed, t)
           overflow == Without(K.overflow, t)
           terminated == Without(K.terminated, t)
           suspended == K.suspended \ {t}
           k1 == RemoveGenericItem(K, t)
<1> HIDE DEF ready, wake, delayed, overflow, terminated, suspended
<1>7. k1 = [K EXCEPT !.ready = ready, !.delayed = delayed,
            !.overflow = overflow, !.suspended = suspended,
            !.terminated = terminated, !.wake = wake]
  BY <1>5 DEF delayed, overflow, terminated, suspended
<1>8. /\ delayed \in Lists /\ overflow \in Lists
      /\ terminated \in Lists /\ suspended \in SUBSET Task
  BY <1>3 DEF delayed, overflow, terminated, suspended
<1> HIDE DEF k1
<1>9. k1 \in Kernels
  BY <1>2, <1>7, <1>8 DEF Kernels
<1>10. /\ k1.ready = ready /\ k1.delayed = delayed /\ k1.overflow = overflow
       /\ k1.terminated = terminated /\ k1.suspended = suspended /\ k1.wake = wake
  BY <1>7 DEF Kernels
<1>11. 
    /\ k1.running = K.running /\ k1.current = K.current /\ k1.tick = K.tick
    /\ k1.overflows = K.overflows /\ k1.pending = K.pending /\ k1.waiting = K.waiting
    /\ k1.item = K.item /\ k1.prio = K.prio /\ k1.base = K.base /\ k1.top = K.top
    /\ k1.next = K.next /\ k1.locks = K.locks /\ k1.missed = K.missed
    /\ k1.missedYield = K.missedYield
  BY <1>7 DEF Kernels
<1>12. QED
  BY <1>4, <1>6, <1>9, <1>10, <1>11 DEF delayed, overflow, terminated, suspended, k1

\* The same for the event item.
LEMMA RemoveEventItemFields ==
  ASSUME NEW K \in Kernels, NEW t \in Task
  PROVE  LET k1 == RemoveEventItem(K, t) IN
    /\ k1 \in Kernels
    /\ k1.pending = Without(K.pending, t)
    /\ k1.ready = K.ready /\ k1.delayed = K.delayed /\ k1.overflow = K.overflow
    /\ k1.terminated = K.terminated /\ k1.suspended = K.suspended /\ k1.wake = K.wake
    /\ k1.running = K.running /\ k1.current = K.current /\ k1.tick = K.tick
    /\ k1.item = K.item /\ k1.prio = K.prio /\ k1.base = K.base /\ k1.top = K.top
    /\ k1.next = K.next /\ k1.locks = K.locks /\ k1.missed = K.missed
    /\ k1.missedYield = K.missedYield
<1> DEFINE waiting == [e \in EventList |-> Without(K.waiting[e], t)]
           pending == Without(K.pending, t)
           k1      == RemoveEventItem(K, t)
<1>1. waiting \in [EventList -> Lists] /\ pending \in Lists
  BY WithoutType DEF Kernels
<1>2. k1 = [K EXCEPT !.waiting = waiting, !.pending = pending]
  BY DEF RemoveEventItem, Kernels
<1> HIDE DEF waiting, pending, k1
<1>3. k1 \in Kernels
  BY <1>1, <1>2 DEF Kernels
<1>4. /\ k1.pending = pending
      /\ k1.ready = K.ready /\ k1.delayed = K.delayed /\ k1.overflow = K.overflow
      /\ k1.terminated = K.terminated /\ k1.suspended = K.suspended /\ k1.wake = K.wake
      /\ k1.running = K.running /\ k1.current = K.current /\ k1.tick = K.tick
      /\ k1.item = K.item /\ k1.prio = K.prio /\ k1.base = K.base /\ k1.top = K.top
      /\ k1.next = K.next /\ k1.locks = K.locks /\ k1.missed = K.missed
      /\ k1.missedYield = K.missedYield
  BY <1>2 DEF Kernels
<1>5. QED
  BY <1>3, <1>4 DEF pending, k1

-----------------------------------------------------------------------------
\* t is in the list l of its priority, if l is "ready", and in no other list.
Places == {"ready", "delayed", "overflow", "suspended", "terminated", "none"}

\* l is the list that t is in.
HasPlace(K, t, l) ==
  /\ \A p \in Prio : Contains(K.ready[p], t) <=> l = "ready" /\ p = K.prio[t]
  /\ Contains(K.delayed, t)    <=> l = "delayed"
  /\ Contains(K.overflow, t)   <=> l = "overflow"
  /\ Contains(K.terminated, t) <=> l = "terminated"
  /\ t \in K.suspended         <=> l = "suspended"

\* Who is pending is still in the list in which it waited.
Stopped == {"suspended", "delayed", "overflow"}

\* Every task t is in the one list H[t]; the sleeping are in order, no ready
\* task is above top, and who is pending is stopped.
Good(K, H) ==
  /\ K \in Kernels /\ H \in [Task -> Places]
  /\ \A t \in Task : HasPlace(K, t, H[t])
  /\ InOrder(K.delayed, K.wake) /\ InOrder(K.overflow, K.wake)
  /\ \A t \in Task : H[t] = "ready" => K.prio[t] <= K.top
  /\ \A t \in Task : Contains(K.pending, t) => H[t] \in Stopped

\* Who sleeps is to be woken, in this turn of the counter or in the next, and
\* not before xNextTaskUnblockTime.
Times(K, H) ==
  \A t \in Task :
    /\ H[t] = "delayed"  => K.wake[t] > K.tick /\ K.next <= K.wake[t]
    /\ H[t] = "overflow" => K.wake[t] < K.tick

\* What most operators leave as it is.
Same(K, k1) ==
  /\ k1.running = K.running /\ k1.current = K.current /\ k1.tick = K.tick
  /\ k1.item = K.item /\ k1.prio = K.prio /\ k1.base = K.base
  /\ k1.locks = K.locks /\ k1.missed = K.missed /\ k1.missedYield = K.missedYield

\* The order of a list depends on the values of its own tasks alone.
LEMMA OrderElsewhere ==
  ASSUME NEW s \in Lists, NEW w, NEW t, NEW x, InOrder(s, w), ~Contains(s, t),
         DOMAIN w = Task
  PROVE  InOrder(s, [w EXCEPT ![t] = x])
<1>1. \A i \in 1 .. Len(s) : s[i] \in Task /\ s[i] # t
  BY ListFacts DEF Contains, List
<1>2. \A i \in 1 .. Len(s) : [w EXCEPT ![t] = x][s[i]] = w[s[i]]
  BY <1>1
<1>3. QED
  BY <1>2 DEF InOrder

\* A task is taken out of its list, and is not pending any more.
LEMMA Removed ==
  ASSUME NEW K, NEW H, Good(K, H), NEW t \in Task, NEW k1 \in Kernels,
         LET k2 == RemoveGenericItem(K, t) IN
           /\ k1.ready = k2.ready /\ k1.delayed = k2.delayed /\ k1.overflow = k2.overflow
           /\ k1.terminated = k2.terminated /\ k1.suspended = k2.suspended
           /\ k1.wake = k2.wake /\ Same(k2, k1) /\ k1.top = k2.top /\ k1.next = k2.next,
         ~Contains(k1.pending, t),
         \A u \in Task : Contains(k1.pending, u) => Contains(K.pending, u)
  PROVE  LET H1 == [H EXCEPT ![t] = "none"] IN
    /\ Good(k1, H1) /\ Same(K, k1)
    /\ Times(K, H) => Times(k1, H1)
    /\ k1.delayed = Without(K.delayed, t) /\ k1.next = K.next
    /\ \A u \in Task \ {t} : k1.wake[u] = K.wake[u]
<1> DEFINE H1 == [H EXCEPT ![t] = "none"]
<1>1. K \in Kernels /\ H \in [Task -> Places]
  BY DEF Good
<1>2. /\ \A p \in Prio : k1.ready[p] = Without(K.ready[p], t)
      /\ k1.delayed = Without(K.delayed, t) /\ k1.overflow = Without(K.overflow, t)
      /\ k1.terminated = Without(K.terminated, t) /\ k1.suspended = K.suspended \ {t}
      /\ k1.wake = [K.wake EXCEPT ![t] = 0] /\ Same(K, k1) /\ k1.top = K.top
      /\ k1.next = K.next
  <2> DEFINE k2 == RemoveGenericItem(K, t)
  <2>1. /\ \A p \in Prio : k2.ready[p] = Without(K.ready[p], t)
        /\ k2.delayed = Without(K.delayed, t) /\ k2.overflow = Without(K.overflow, t)
        /\ k2.terminated = Without(K.terminated, t) /\ k2.suspended = K.suspended \ {t}
        /\ k2.wake = [K.wake EXCEPT ![t] = 0] /\ k2.top = K.top /\ k2.next = K.next
    BY <1>1, RemoveGenericItemFields
  <2>2. Same(K, k2)
    BY <1>1, RemoveGenericItemFields DEF Same
  <2>3. /\ k1.ready = k2.ready /\ k1.delayed = k2.delayed /\ k1.overflow = k2.overflow
        /\ k1.terminated = k2.terminated /\ k1.suspended = k2.suspended
        /\ k1.wake = k2.wake /\ k1.top = k2.top /\ k1.next = k2.next
    OBVIOUS
  <2>4. Same(k2, k1)
    OBVIOUS
  <2> HIDE DEF k2
  <2>5. Same(K, k1)
    BY <2>2, <2>4 DEF Same
  <2>6. QED
    BY <2>1, <2>3, <2>5
<1>3. /\ \A p \in Prio : K.ready[p] \in Lists
      /\ K.delayed \in Lists /\ K.overflow \in Lists /\ K.terminated \in Lists
      /\ K.wake \in [Task -> 0 .. MaxDelay] /\ K.prio \in [Task -> Prio]
  BY <1>1 DEF Kernels
<1>4. H1 \in [Task -> Places] /\ H1[t] = "none" /\ \A u \in Task \ {t} : H1[u] = H[u]
  BY <1>1 DEF Places
<1>5. k1.prio = K.prio /\ k1.tick = K.tick
  BY <1>2 DEF Same
<1> HIDE DEF H1
<1>6. ASSUME NEW u \in Task PROVE HasPlace(k1, u, H1[u])
  <2>1. /\ \A p \in Prio : Contains(k1.ready[p], u) <=> Contains(K.ready[p], u) /\ u # t
        /\ Contains(k1.delayed, u)    <=> Contains(K.delayed, u) /\ u # t
        /\ Contains(k1.overflow, u)   <=> Contains(K.overflow, u) /\ u # t
        /\ Contains(k1.terminated, u) <=> Contains(K.terminated, u) /\ u # t
        /\ u \in k1.suspended         <=> u \in K.suspended /\ u # t
    BY <1>2, <1>3, WithoutFacts DEF List
  <2>2. HasPlace(K, u, H[u])
    BY DEF Good
  <2>3. CASE u = t
    BY <1>4, <2>1, <2>3 DEF HasPlace
  <2>4. CASE u # t
    BY <1>4, <1>5, <2>1, <2>2, <2>4 DEF HasPlace
  <2>5. QED
    BY <2>3, <2>4
<1>7. InOrder(k1.delayed, k1.wake) /\ InOrder(k1.overflow, k1.wake)
  <2>1. /\ InOrder(k1.delayed, K.wake) /\ InOrder(k1.overflow, K.wake)
        /\ ~Contains(k1.delayed, t) /\ ~Contains(k1.overflow, t)
        /\ k1.delayed \in Lists /\ k1.overflow \in Lists
    BY <1>2, <1>3, WithoutFacts DEF List, Good
  <2>2. QED
    BY <1>2, <1>3, <2>1, OrderElsewhere
<1>8. \A u \in Task : H1[u] = "ready" => k1.prio[u] <= k1.top
  BY <1>2, <1>4, <1>5 DEF Good
<1>9. \A u \in Task : Contains(k1.pending, u) => H1[u] \in Stopped
  BY <1>4 DEF Good
<1>10. Good(k1, H1)
  BY <1>4, <1>6, <1>7, <1>8, <1>9 DEF Good
<1>11. ASSUME Times(K, H) PROVE Times(k1, H1)
  <2>1. \A u \in Task \ {t} : k1.wake[u] = K.wake[u]
    BY <1>2, <1>3
  <2>2. QED
    BY <1>2, <1>4, <1>5, <1>11, <2>1 DEF Times
<1>12. \A u \in Task \ {t} : k1.wake[u] = K.wake[u]
  BY <1>2, <1>3
<1>13. QED
  BY <1>2, <1>10, <1>11, <1>12 DEF H1

\* A task that is not pending leaves its list.
LEMMA RemovedGenericItem ==
  ASSUME NEW K, NEW H, Good(K, H), NEW t \in Task, ~Contains(K.pending, t)
  PROVE  LET k1 == RemoveGenericItem(K, t)
             H1 == [H EXCEPT ![t] = "none"] IN
    /\ Good(k1, H1) /\ Same(K, k1) /\ k1.pending = K.pending
    /\ Times(K, H) => Times(k1, H1)
    /\ \A u \in Task \ {t} : k1.wake[u] = K.wake[u]
<1> DEFINE k1 == RemoveGenericItem(K, t)
<1>1. K \in Kernels
  BY DEF Good
<1>2. k1 \in Kernels /\ k1.pending = K.pending
  BY <1>1, RemoveGenericItemFields
<1>3. /\ Same(k1, k1)
      /\ \A u \in Task : Contains(k1.pending, u) => Contains(K.pending, u)
  BY <1>2 DEF Same
<1> HIDE DEF k1
<1>4. /\ k1.ready = RemoveGenericItem(K, t).ready /\ k1.delayed = RemoveGenericItem(K, t).delayed
      /\ k1.overflow = RemoveGenericItem(K, t).overflow
      /\ k1.terminated = RemoveGenericItem(K, t).terminated
      /\ k1.suspended = RemoveGenericItem(K, t).suspended
      /\ k1.wake = RemoveGenericItem(K, t).wake /\ Same(RemoveGenericItem(K, t), k1)
      /\ k1.top = RemoveGenericItem(K, t).top /\ k1.next = RemoveGenericItem(K, t).next
  BY <1>3 DEF k1
<1>5. QED
  BY <1>2, <1>3, <1>4, Removed DEF k1

\* A task leaves its list and the lists of events.
LEMMA Freed ==
  ASSUME NEW K, NEW H, Good(K, H), NEW t \in Task
  PROVE  LET k1 == RemoveEventItem(RemoveGenericItem(K, t), t)
             H1 == [H EXCEPT ![t] = "none"] IN
    /\ Good(k1, H1) /\ Same(K, k1) /\ k1.pending = Without(K.pending, t)
    /\ Times(K, H) => Times(k1, H1)
    /\ k1.delayed = Without(K.delayed, t) /\ k1.next = K.next
    /\ \A u \in Task \ {t} : k1.wake[u] = K.wake[u]
<1> DEFINE k0 == RemoveGenericItem(K, t)
           k1 == RemoveEventItem(k0, t)
<1>1. K \in Kernels /\ K.pending \in Lists
  BY DEF Good, Kernels
<1>2. k0 \in Kernels /\ k0.pending = K.pending
  BY <1>1, RemoveGenericItemFields
<1> HIDE DEF k0
<1>3. /\ k1 \in Kernels /\ k1.pending = Without(K.pending, t)
      /\ k1.ready = k0.ready /\ k1.delayed = k0.delayed /\ k1.overflow = k0.overflow
      /\ k1.terminated = k0.terminated /\ k1.suspended = k0.suspended
      /\ k1.wake = k0.wake /\ k1.top = k0.top /\ k1.next = k0.next
  BY <1>2, RemoveEventItemFields
<1>4. Same(k0, k1)
  BY <1>2, RemoveEventItemFields DEF Same
<1>5. /\ ~Contains(k1.pending, t)
      /\ \A u \in Task : Contains(k1.pending, u) => Contains(K.pending, u)
  BY <1>1, <1>3, WithoutFacts DEF List
<1> HIDE DEF k1
<1>6. QED
  BY <1>3, <1>4, <1>5, Removed DEF k0, k1

\* prvAddTaskToReadyQueue, field by field.
LEMMA AddFields ==
  ASSUME NEW K \in Kernels, NEW t \in Task, ~Contains(K.ready[K.prio[t]], t)
  PROVE  LET k1 == prvAddTaskToReadyQueue(K, t) IN
    /\ k1 \in Kernels
    /\ k1.ready = [K.ready EXCEPT ![K.prio[t]] = Append(@, t)]
    /\ k1.top = MaxOf(K.top, K.prio[t])
    /\ k1.delayed = K.delayed /\ k1.overflow = K.overflow /\ k1.pending = K.pending
    /\ k1.terminated = K.terminated /\ k1.suspended = K.suspended /\ k1.wake = K.wake
    /\ k1.next = K.next /\ Same(K, k1)
<1> DEFINE ready == [K.ready EXCEPT ![K.prio[t]] = Append(@, t)]
           top   == MaxOf(K.top, K.prio[t])
           k1    == prvAddTaskToReadyQueue(K, t)
<1>1. K.prio[t] \in Prio /\ K.top \in Prio /\ K.ready[K.prio[t]] \in Lists
  BY DEF Kernels
<1>2. Append(K.ready[K.prio[t]], t) \in Lists
  BY <1>1, AppendToList DEF List
<1>3. ready \in [Prio -> Lists]
  BY <1>1, <1>2 DEF Kernels
<1>4. top \in Prio
  BY <1>1 DEF MaxOf
<1>5. k1 = [K EXCEPT !.top = top, !.ready = ready]
  BY <1>1 DEF prvAddTaskToReadyQueue, Kernels
<1> HIDE DEF ready, top, k1
<1>6. k1 \in Kernels
  BY <1>3, <1>4, <1>5 DEF Kernels
<1>7. /\ k1.ready = ready /\ k1.top = top
      /\ k1.delayed = K.delayed /\ k1.overflow = K.overflow /\ k1.pending = K.pending
      /\ k1.terminated = K.terminated /\ k1.suspended = K.suspended /\ k1.wake = K.wake
      /\ k1.next = K.next
  BY <1>5 DEF Kernels
<1>8. Same(K, k1)
  BY <1>5 DEF Kernels, Same
<1>9. QED
  BY <1>6, <1>7, <1>8 DEF k1, ready, top

\* A task that is in no list is made ready.
LEMMA Readied ==
  ASSUME NEW K, NEW H, Good(K, H), NEW t \in Task, H[t] = "none"
  PROVE  LET k1 == prvAddTaskToReadyQueue(K, t)
             H1 == [H EXCEPT ![t] = "ready"] IN
    /\ Good(k1, H1) /\ Same(K, k1) /\ k1.pending = K.pending
    /\ Times(K, H) => Times(k1, H1)
    /\ k1.delayed = K.delayed /\ k1.next = K.next /\ k1.wake = K.wake
<1> DEFINE k1 == prvAddTaskToReadyQueue(K, t)
           H1 == [H EXCEPT ![t] = "ready"]
           q  == K.prio[t]
<1>1. /\ K \in Kernels /\ H \in [Task -> Places] /\ q \in Prio
      /\ \A p \in Prio : K.ready[p] \in Lists
      /\ K.ready \in [Prio -> Lists] /\ K.prio \in [Task -> Prio] /\ K.top \in Prio
  BY DEF Good, Kernels
<1>2. ~Contains(K.ready[q], t)
  BY <1>1 DEF Good, HasPlace
<1>3. /\ k1 \in Kernels
      /\ k1.ready = [K.ready EXCEPT ![q] = Append(@, t)]
      /\ k1.top = MaxOf(K.top, q)
      /\ k1.delayed = K.delayed /\ k1.overflow = K.overflow /\ k1.pending = K.pending
      /\ k1.terminated = K.terminated /\ k1.suspended = K.suspended /\ k1.wake = K.wake
      /\ k1.next = K.next /\ Same(K, k1)
  BY <1>1, <1>2, AddFields
<1>4. k1.prio = K.prio /\ k1.tick = K.tick
  BY <1>3 DEF Same
<1>5. H1 \in [Task -> Places] /\ H1[t] = "ready" /\ \A u \in Task \ {t} : H1[u] = H[u]
  BY <1>1 DEF Places
<1> HIDE DEF k1, H1
<1>6. ASSUME NEW u \in Task PROVE HasPlace(k1, u, H1[u])
  <2>1. HasPlace(K, u, H[u])
    BY DEF Good
  <2>2. ASSUME NEW p \in Prio
        PROVE  Contains(k1.ready[p], u) <=> Contains(K.ready[p], u) \/ (p = q /\ u = t)
    <3>1. CASE p = q
      <4>1. k1.ready[p] = Append(K.ready[q], t)
        BY <1>1, <1>3, <3>1
      <4>2. QED
        BY <1>1, <1>2, <3>1, <4>1, AppendToList DEF List
    <3>2. CASE p # q
      BY <1>1, <1>3, <3>2
    <3>3. QED
      BY <3>1, <3>2
  <2>3. CASE u = t
    BY <1>3, <1>4, <1>5, <2>1, <2>2, <2>3 DEF HasPlace
  <2>4. CASE u # t
    BY <1>3, <1>4, <1>5, <2>1, <2>2, <2>4 DEF HasPlace
  <2>5. QED
    BY <2>3, <2>4
<1>7. \A u \in Task : H1[u] = "ready" => k1.prio[u] <= k1.top
  BY <1>1, <1>3, <1>4, <1>5 DEF Good, MaxOf, Prio
<1>8. Good(k1, H1)
  BY <1>3, <1>5, <1>6, <1>7 DEF Good, Stopped
<1>9. ASSUME Times(K, H) PROVE Times(k1, H1)
  BY <1>3, <1>4, <1>5, <1>9 DEF Times
<1>10. QED
  BY <1>3, <1>8, <1>9 DEF k1, H1

\* A task is made ready, wherever it was.
LEMMA Unblocked ==
  ASSUME NEW K, NEW H, Good(K, H), NEW t \in Task
  PROVE  LET k1 == Unblock(K, t)
             H1 == [H EXCEPT ![t] = "ready"] IN
    /\ Good(k1, H1) /\ Same(K, k1) /\ k1.pending = Without(K.pending, t)
    /\ Times(K, H) => Times(k1, H1)
    /\ k1.delayed = Without(K.delayed, t) /\ k1.next = K.next
    /\ \A u \in Task \ {t} : k1.wake[u] = K.wake[u]
<1> DEFINE k0 == RemoveEventItem(RemoveGenericItem(K, t), t)
           H0 == [H EXCEPT ![t] = "none"]
           k1 == Unblock(K, t)
           H1 == [H EXCEPT ![t] = "ready"]
<1>1. /\ Good(k0, H0) /\ Same(K, k0) /\ k0.pending = Without(K.pending, t)
      /\ Times(K, H) => Times(k0, H0)
      /\ k0.delayed = Without(K.delayed, t) /\ k0.next = K.next
      /\ \A u \in Task \ {t} : k0.wake[u] = K.wake[u]
  BY Freed
<1>2. H \in [Task -> Places]
  BY DEF Good
<1>3. H0[t] = "none" /\ [H0 EXCEPT ![t] = "ready"] = H1
  BY <1>2
<1>4. k1 = prvAddTaskToReadyQueue(k0, t)
  BY DEF Unblock
<1> HIDE DEF k0, H0, k1, H1
<1>5. /\ Good(k1, H1) /\ Same(k0, k1) /\ k1.pending = k0.pending
      /\ Times(k0, H0) => Times(k1, H1)
      /\ k1.delayed = k0.delayed /\ k1.next = k0.next /\ k1.wake = k0.wake
  BY <1>1, <1>3, <1>4, Readied
<1>6. Same(K, k1)
  BY <1>1, <1>5 DEF Same
<1>7. QED
  BY <1>1, <1>5, <1>6 DEF k1, H1

\* The fields that are not in Same, for each of the operators above.
LEMMA OtherFields ==
  ASSUME NEW K \in Kernels, NEW t \in Task
  PROVE  /\ RemoveEventItem(K, t).waiting = [e \in EventList |-> Without(K.waiting[e], t)]
         /\ RemoveEventItem(K, t).overflows = K.overflows
         /\ RemoveGenericItem(K, t).waiting = K.waiting
         /\ RemoveGenericItem(K, t).overflows = K.overflows
         /\ prvAddTaskToReadyQueue(K, t).waiting = K.waiting
         /\ prvAddTaskToReadyQueue(K, t).overflows = K.overflows
<1>1. /\ RemoveEventItem(K, t).waiting = [e \in EventList |-> Without(K.waiting[e], t)]
      /\ RemoveEventItem(K, t).overflows = K.overflows
  BY DEF RemoveEventItem, Kernels
<1>2. /\ RemoveGenericItem(K, t).waiting = K.waiting
      /\ RemoveGenericItem(K, t).overflows = K.overflows
  BY DEF RemoveGenericItem, Kernels
<1>3. /\ prvAddTaskToReadyQueue(K, t).waiting = K.waiting
      /\ prvAddTaskToReadyQueue(K, t).overflows = K.overflows
  BY DEF prvAddTaskToReadyQueue, Kernels
<1>4. QED
  BY <1>1, <1>2, <1>3

\* A task that is made ready leaves the event lists.
LEMMA UnblockFields ==
  ASSUME NEW K \in Kernels, NEW t \in Task
  PROVE  LET k1 == Unblock(K, t) IN
    /\ k1.waiting = [e \in EventList |-> Without(K.waiting[e], t)]
    /\ k1.overflows = K.overflows
<1> DEFINE k0 == RemoveGenericItem(K, t)
           k2 == RemoveEventItem(k0, t)
<1>1. k0 \in Kernels /\ k0.waiting = K.waiting /\ k0.overflows = K.overflows
  <2>1. k0 \in Kernels
    BY RemoveGenericItemFields
  <2>2. QED
    BY <2>1, OtherFields
<1> HIDE DEF k0
<1>2. k2 \in Kernels
  BY <1>1, RemoveEventItemFields
<1>3. /\ k2.overflows = K.overflows
      /\ k2.waiting = [e \in EventList |-> Without(K.waiting[e], t)]
  BY <1>1, OtherFields
<1>4. Unblock(K, t) = prvAddTaskToReadyQueue(k2, t)
  BY DEF Unblock, k0
<1> HIDE DEF k2
<1>5. /\ prvAddTaskToReadyQueue(k2, t).waiting = k2.waiting
      /\ prvAddTaskToReadyQueue(k2, t).overflows = k2.overflows
  BY <1>2, OtherFields
<1>6. QED
  BY <1>3, <1>4, <1>5

-----------------------------------------------------------------------------
(* The tick                                                                  *)

\* The N turns of a loop whose body F stays in S.
StaysIn(F, S)        == F \in [S -> S]
IsLoop(g, F, S, x, N) ==
  /\ g \in [0 .. N -> S]
  /\ g[0] = x
  /\ \A n \in 1 .. N : g[n] = F[g[n - 1]]

\* A loop of N turns can be unrolled.
LEMMA Iterates ==
  ASSUME NEW S, NEW F, StaysIn(F, S), NEW x \in S, NEW N \in Nat
  PROVE  \E g : IsLoop(g, F, S, x, N)
<1> USE DEF StaysIn
<1> DEFINE Turns(m, g) == g[0] = x /\ \A n \in 1 .. m : g[n] = F[g[n - 1]]
           T == {m \in Nat : \E g \in [0 .. m -> S] : Turns(m, g)}
<1>1. 0 \in T
  <2>1. [n \in 0 .. 0 |-> x] \in [0 .. 0 -> S] /\ Turns(0, [n \in 0 .. 0 |-> x])
    OBVIOUS
  <2>2. QED
    BY <2>1
<1>2. ASSUME NEW m \in Nat, m \in T PROVE m + 1 \in T
  <2>1. PICK g \in [0 .. m -> S] : Turns(m, g)
    BY <1>2
  <2> DEFINE h == [n \in 0 .. m + 1 |-> IF n = m + 1 THEN F[g[m]] ELSE g[n]]
  <2>2. F[g[m]] \in S
    OBVIOUS
  <2>3. \A n \in 0 .. m + 1 : n = m + 1 \/ n \in 0 .. m
    OBVIOUS
  <2>4. h \in [0 .. m + 1 -> S]
    BY <2>2, <2>3
  <2>5. h[0] = x
    BY <2>1
  <2>6. ASSUME NEW n \in 1 .. m + 1 PROVE h[n] = F[h[n - 1]]
    <3>1. n - 1 \in 0 .. m /\ n \in 0 .. m + 1 /\ n - 1 \in 0 .. m + 1 /\ n - 1 # m + 1
      OBVIOUS
    <3>2. h[n - 1] = g[n - 1]
      BY <3>1
    <3>3. CASE n = m + 1
      BY <3>1, <3>2, <3>3
    <3>4. CASE n # m + 1
      <4>1. n \in 1 .. m /\ h[n] = g[n]
        BY <3>1, <3>4
      <4>2. QED
        BY <2>1, <3>2, <4>1
    <3>5. QED
      BY <3>3, <3>4
  <2> HIDE DEF h
  <2>7. QED
    BY <2>4, <2>5, <2>6
<1> HIDE DEF T
<1>3. N \in T
  BY <1>1, <1>2, Induction
<1>4. QED
  BY <1>3 DEF T, IsLoop

\* No more delayed task is due.
Done(K) == K.delayed # <<>> => K.wake[Head(K.delayed)] > K.tick

\* Between two turns of the counter, before the delayed tasks are checked.
Due(K, H) ==
  \A t \in Task :
    /\ H[t] = "delayed"  => K.wake[t] >= K.tick
    /\ H[t] = "overflow" => K.wake[t] < K.tick

\* The delayed tasks of H that are elsewhere in H1 are ready there.
Woken(H, H1) ==
  \A t \in Task : H1[t] = H[t] \/ (H[t] = "delayed" /\ H1[t] = "ready")

\* Who is made ready leaves the event lists, nobody else does, and the lists
\* keep their order.
Leave(K, H, k1, H1) ==
  /\ \A t \in Task : H[t] = "ready" => H1[t] = "ready"
  /\ \A e \in EventList, t \in Task :
       Contains(k1.waiting[e], t) <=> /\ Contains(K.waiting[e], t)
                                      /\ H1[t] = "ready" => H[t] = "ready"
  /\ \A e \in EventList : \A w : InOrder(K.waiting[e], w) => InOrder(k1.waiting[e], w)

\* What leaves all lists alone lets nobody leave.
LEMMA NobodyLeaves ==
  ASSUME NEW K, NEW H, NEW k1, NEW H1, k1.waiting = K.waiting,
         \A t \in Task : H1[t] = "ready" <=> H[t] = "ready"
  PROVE  Leave(K, H, k1, H1)
BY DEF Leave

\* Two steps in which tasks only leave event lists, one after the other.
LEMMA LeaveOn ==
  ASSUME NEW K, NEW H, NEW k1, NEW H1, NEW k2, NEW H2,
         Leave(K, H, k1, H1), Leave(k1, H1, k2, H2)
  PROVE  Leave(K, H, k2, H2)
<1>1. /\ \A t \in Task : H[t] = "ready" => H1[t] = "ready"
      /\ \A t \in Task : H1[t] = "ready" => H2[t] = "ready"
  BY DEF Leave
<1>2. \A e \in EventList, t \in Task :
        Contains(k2.waiting[e], t) <=> /\ Contains(K.waiting[e], t)
                                       /\ H2[t] = "ready" => H[t] = "ready"
  BY <1>1 DEF Leave
<1>3. \A e \in EventList : \A w : InOrder(K.waiting[e], w) => InOrder(k2.waiting[e], w)
  BY DEF Leave
<1>4. QED
  BY <1>1, <1>2, <1>3 DEF Leave

\* A task that was not ready is unblocked.
LEMMA UnblockedLeaves ==
  ASSUME NEW K, NEW H, Good(K, H), NEW t \in Task, H[t] # "ready"
  PROVE  Leave(K, H, Unblock(K, t), [H EXCEPT ![t] = "ready"])
<1> DEFINE k1 == Unblock(K, t)
           H1 == [H EXCEPT ![t] = "ready"]
<1>1. K \in Kernels /\ \A e \in EventList : K.waiting[e] \in Lists
  BY DEF Good, Kernels
<1>2. k1.waiting = [e \in EventList |-> Without(K.waiting[e], t)]
  BY <1>1, UnblockFields
<1>3. H1[t] = "ready" /\ \A u \in Task \ {t} : H1[u] = H[u]
  BY DEF Good
<1> HIDE DEF k1, H1
<1>4. ASSUME NEW e \in EventList
      PROVE  /\ \A u : Contains(k1.waiting[e], u) <=> Contains(K.waiting[e], u) /\ u # t
             /\ \A w : InOrder(K.waiting[e], w) => InOrder(k1.waiting[e], w)
  <2>1. List(K.waiting[e])
    BY <1>1 DEF List
  <2>2. k1.waiting[e] = Without(K.waiting[e], t)
    BY <1>2
  <2>3. QED
    BY <2>1, <2>2, WithoutFacts
<1>5. QED
  BY <1>3, <1>4 DEF Leave, k1, H1

\* The ticks that t has left to sleep.
Rest(K, H, t) ==
  IF H[t] = "delayed" THEN K.wake[t] - K.tick
  ELSE IF H[t] = "overflow" THEN K.wake[t] - K.tick + Ticks
  ELSE 0

\* Every task has as long to sleep in k1 as in K.
Alike(K, H, k1, H1) == \A t \in Task : Rest(k1, H1, t) = Rest(K, H, t)

\* Between K and k1, n ticks have passed.
Later(K, H, k1, H1, n) ==
  \A t \in Task : Rest(k1, H1, t) = IF Rest(K, H, t) > n THEN Rest(K, H, t) - n ELSE 0

\* What a task has left to sleep depends on three things.
LEMMA RestAlike ==
  ASSUME NEW K, NEW H, NEW k1, NEW H1, NEW t, k1.wake[t] = K.wake[t], k1.tick = K.tick,
         H1[t] = H[t]
  PROVE  Rest(k1, H1, t) = Rest(K, H, t)
BY DEF Rest

\* A task has no time left to sleep when it is awake, and only then.
LEMMA RestFacts ==
  ASSUME NEW K, NEW H, Good(K, H), Times(K, H), NEW t \in Task
  PROVE  /\ Rest(K, H, t) \in 0 .. MaxDelay
         /\ Rest(K, H, t) > 0 <=> H[t] = "delayed" \/ H[t] = "overflow"
<1>1. K \in Kernels
  BY DEF Good
<1>2. K.wake[t] \in 0 .. MaxDelay /\ K.tick \in 0 .. MaxDelay
  BY <1>1, KernelNumbers
<1>3. /\ H[t] = "delayed"  => K.wake[t] > K.tick
      /\ H[t] = "overflow" => K.wake[t] < K.tick
  BY DEF Times
<1>4. CASE H[t] = "delayed"
  BY <1>2, <1>3, <1>4, Numbers DEF Rest
<1>5. CASE H[t] = "overflow"
  BY <1>2, <1>3, <1>5, Numbers DEF Rest
<1>6. CASE H[t] \notin {"delayed", "overflow"}
  BY <1>6, Numbers DEF Rest
<1>7. QED
  BY <1>4, <1>5, <1>6

\* A turn of the loop of prvCheckDelayedTasks wakes the first task, if it is due.
LEMMA Woke ==
  ASSUME NEW K, NEW H, Good(K, H), Due(K, H), K.pending = <<>>
  PROVE  /\ Done(K) => Wake(K) = K
         /\ ~Done(K) =>
              /\ Len(Wake(K).delayed) = Len(K.delayed) - 1
              /\ \E H1 \in [Task -> Places] :
                   /\ Good(Wake(K), H1) /\ Due(Wake(K), H1) /\ Same(K, Wake(K))
                   /\ Woken(H, H1) /\ Wake(K).pending = K.pending
                   /\ Alike(K, H, Wake(K), H1) /\ Leave(K, H, Wake(K), H1)
                   /\ Wake(K).overflows = K.overflows
<1> DEFINE t  == Head(K.delayed)
           k1 == Unblock(K, t)
           H1 == [H EXCEPT ![t] = "ready"]
<1>1. K \in Kernels /\ K.delayed \in Lists /\ K.pending \in Lists /\ H \in [Task -> Places]
  BY DEF Good, Kernels
<1>2. CASE K.delayed # <<>> /\ K.wake[t] <= K.tick
  <2>1. t \in Task /\ Contains(K.delayed, t)
    BY <1>1, <1>2, SomeoneInList DEF Lists
  <2>2. ~Done(K)
    <3>1. K.wake[t] \in Int /\ K.tick \in Int
      BY <1>1, <2>1, KernelAssumption DEF Kernels, MaxDelay
    <3>2. QED
      BY <1>2, <3>1 DEF Done
  <2> HIDE DEF t
  <2>3. /\ Good(k1, H1) /\ Same(K, k1) /\ k1.pending = Without(K.pending, t)
        /\ k1.delayed = Without(K.delayed, t) /\ k1.next = K.next
        /\ \A u \in Task \ {t} : k1.wake[u] = K.wake[u]
    BY <2>1, Unblocked
  <2>4. H[t] = "delayed" /\ ~Contains(K.pending, t)
    BY <2>1, EmptyList DEF Good, HasPlace
  <2>5. Leave(K, H, k1, H1) /\ k1.overflows = K.overflows
    BY <1>1, <2>1, <2>4, UnblockedLeaves, UnblockFields
  <2>6. k1.pending = K.pending /\ Len(k1.delayed) = Len(K.delayed) - 1
    BY <1>1, <2>1, <2>3, <2>4, WithoutFacts DEF List
  <2>7. H1 \in [Task -> Places] /\ Woken(H, H1)
    BY <1>1, <2>4 DEF Woken, Places
  <2>8. Due(k1, H1)
    <3>1. k1.tick = K.tick
      BY <2>3 DEF Same
    <3>2. \A u \in Task \ {t} : H1[u] = H[u]
      BY <1>1
    <3>3. H1[t] = "ready"
      BY <1>1, <2>1
    <3> HIDE DEF k1, H1
    <3>4. QED
      BY <2>3, <3>1, <3>2, <3>3 DEF Due
  <2>9. Alike(K, H, k1, H1)
    <3>1. k1.tick = K.tick
      BY <2>3 DEF Same
    <3>2. \A u \in Task \ {t} : H1[u] = H[u]
      BY <1>1
    <3>3. H1[t] = "ready"
      BY <1>1, <2>1
    <3>4. K.wake[t] = K.tick
      <4>1. K.wake[t] \in Int /\ K.tick \in Int
        BY <1>1, <2>1, Numbers, KernelNumbers
      <4>2. K.wake[t] >= K.tick
        BY <2>1, <2>4 DEF Due
      <4>3. QED
        BY <1>2, <4>1, <4>2 DEF t
    <3>5. Rest(K, H, t) = 0
      <4>1. K.tick \in Int
        BY <1>1, Numbers, KernelNumbers
      <4>2. QED
        BY <2>4, <3>4, <4>1 DEF Rest
    <3> HIDE DEF k1, H1
    <3>6. Rest(k1, H1, t) = 0
      BY <3>3 DEF Rest
    <3>7. \A u \in Task \ {t} : Rest(k1, H1, u) = Rest(K, H, u)
      BY <2>3, <3>1, <3>2, RestAlike
    <3>8. QED
      BY <3>5, <3>6, <3>7 DEF Alike
  <2>10. Wake(K) = k1
    BY <1>2 DEF Wake, t
  <2> HIDE DEF k1, H1
  <2>11. QED
    BY <2>2, <2>5, <2>3, <2>6, <2>7, <2>8, <2>9, <2>10
<1>3. CASE ~(K.delayed # <<>> /\ K.wake[t] <= K.tick)
  <2>1. Wake(K) = K
    BY <1>3 DEF Wake
  <2>2. Done(K)
    <3>1. K.delayed # <<>> => t \in Task
      BY <1>1, SomeoneInList DEF Lists
    <3>2. \A u \in Task : K.wake[u] \in Int /\ K.tick \in Int
      BY <1>1, KernelAssumption DEF Kernels, MaxDelay
    <3>3. QED
      BY <1>3, <3>1, <3>2 DEF Done
  <2>3. QED
    BY <2>1, <2>2
<1>4. QED
  BY <1>2, <1>3

\* The fields that have nothing to do with times.
LEMMA ListFields ==
  ASSUME NEW K \in Kernels, NEW x
  PROVE  /\ [K EXCEPT !.next = x].waiting = K.waiting
         /\ [K EXCEPT !.next = x].overflows = K.overflows
         /\ [K EXCEPT !.tick = x].waiting = K.waiting
         /\ [K EXCEPT !.tick = x].overflows = K.overflows
         /\ SwapLists(K).waiting = K.waiting
BY DEF Kernels, SwapLists

\* A field that is not part of the lists' order is set.
LEMMA NextFields ==
  ASSUME NEW K \in Kernels, NEW x \in 0 .. MaxDelay
  PROVE  LET k1 == [K EXCEPT !.next = x] IN
    /\ k1 \in Kernels /\ Same(K, k1) /\ k1.next = x /\ k1.top = K.top
    /\ k1.ready = K.ready /\ k1.delayed = K.delayed /\ k1.overflow = K.overflow
    /\ k1.terminated = K.terminated /\ k1.suspended = K.suspended
    /\ k1.wake = K.wake /\ k1.pending = K.pending
<1> DEFINE k1 == [K EXCEPT !.next = x]
<1>1. k1 \in Kernels
  BY DEF Kernels
<1>2. /\ k1.next = x /\ k1.top = K.top
      /\ k1.ready = K.ready /\ k1.delayed = K.delayed /\ k1.overflow = K.overflow
      /\ k1.terminated = K.terminated /\ k1.suspended = K.suspended
      /\ k1.wake = K.wake /\ k1.pending = K.pending
  BY DEF Kernels
<1>3. Same(K, k1)
  BY DEF Kernels, Same
<1>4. QED
  BY <1>1, <1>2, <1>3

\* Good speaks of these fields only.
LEMMA GoodAlike ==
  ASSUME NEW K, NEW H, Good(K, H), NEW k1 \in Kernels,
         k1.ready = K.ready, k1.delayed = K.delayed, k1.overflow = K.overflow,
         k1.terminated = K.terminated, k1.suspended = K.suspended,
         k1.wake = K.wake, k1.pending = K.pending, k1.prio = K.prio, k1.top = K.top
  PROVE  Good(k1, H)
<1>1. \A t \in Task : HasPlace(k1, t, H[t])
  BY DEF Good, HasPlace
<1>2. QED
  BY <1>1 DEF Good

\* The whole loop: no task that is due still sleeps.
LEMMA Loop ==
  ASSUME NEW K, NEW H, Good(K, H), Due(K, H), K.pending = <<>>
  PROVE  LET N  == Len(K.delayed)
             woken[n \in 0 .. N] == IF n = 0 THEN K ELSE Wake(woken[n - 1])
             k1 == woken[N]
         IN  /\ Done(k1)
             /\ \E H1 \in [Task -> Places] :
                  /\ Good(k1, H1) /\ Due(k1, H1) /\ Same(K, k1)
                  /\ Woken(H, H1) /\ k1.pending = K.pending /\ Alike(K, H, k1, H1)
                  /\ Leave(K, H, k1, H1) /\ k1.overflows = K.overflows
<1> DEFINE Fine(x, H1) == /\ Good(x, H1) /\ Due(x, H1) /\ Same(K, x)
                          /\ Woken(H, H1) /\ x.pending = K.pending
                          /\ Alike(K, H, x, H1) /\ Leave(K, H, x, H1)
                          /\ x.overflows = K.overflows
           S == {x \in Kernels : \E H1 \in [Task -> Places] : Fine(x, H1)}
           F == [x \in S |-> Wake(x)]
           N == Len(K.delayed)
           woken[n \in 0 .. N] == IF n = 0 THEN K ELSE Wake(woken[n - 1])
<1>1. /\ N \in Nat /\ K \in Kernels /\ H \in [Task -> Places]
  BY ListFacts DEF Good, Kernels, List
<1>2. K \in S
  <2>1. Fine(K, H)
    BY NobodyLeaves DEF Same, Woken, Alike
  <2>2. QED
    BY <1>1, <2>1
<1>3. ASSUME NEW x \in S
      PROVE  /\ Wake(x) \in S
             /\ Done(x)  => Wake(x) = x
             /\ ~Done(x) => Len(Wake(x).delayed) = Len(x.delayed) - 1
  <2>1. PICK H0 \in [Task -> Places] : Fine(x, H0)
    OBVIOUS
  <2>2. CASE Done(x)
    BY <2>1, <2>2, Woke
  <2>3. CASE ~Done(x)
    <3>1. Len(Wake(x).delayed) = Len(x.delayed) - 1
      BY <2>1, <2>3, Woke
    <3>2. PICK H1 \in [Task -> Places] :
                 /\ Good(Wake(x), H1) /\ Due(Wake(x), H1) /\ Same(x, Wake(x))
                 /\ Woken(H0, H1) /\ Wake(x).pending = x.pending
                 /\ Alike(x, H0, Wake(x), H1) /\ Leave(x, H0, Wake(x), H1)
                 /\ Wake(x).overflows = x.overflows
      BY <2>1, <2>3, Woke
    <3>3. Same(K, Wake(x))
      BY <2>1, <3>2 DEF Same
    <3>4. Woken(H, H1)
      BY <2>1, <3>2 DEF Woken
    <3>5. Alike(K, H, Wake(x), H1)
      BY <2>1, <3>2 DEF Alike
    <3>6. Leave(K, H, Wake(x), H1)
      BY <2>1, <3>2, LeaveOn
    <3>7. Fine(Wake(x), H1) /\ Wake(x) \in Kernels
      BY <2>1, <3>2, <3>3, <3>4, <3>5, <3>6 DEF Good
    <3>8. QED
      BY <2>3, <3>1, <3>7
  <2>4. QED
    BY <2>2, <2>3
<1> HIDE DEF S, Fine
<1>4. StaysIn(F, S)
  BY <1>3 DEF StaysIn
<1>5. woken = [n \in 0 .. N |-> IF n = 0 THEN K ELSE Wake(woken[n - 1])]
  <2> HIDE DEF F, N
  <2>1. PICK g : IsLoop(g, F, S, K, N)
    BY <1>1, <1>2, <1>4, Iterates
  <2>2. g \in [0 .. N -> S] /\ g[0] = K /\ \A n \in 1 .. N : g[n] = F[g[n - 1]]
    BY <2>1 DEF IsLoop
  <2>3. ASSUME NEW n \in 0 .. N
        PROVE  g[n] = IF n = 0 THEN K ELSE Wake(g[n - 1])
    <3>1. CASE n # 0
      <4>1. n \in 1 .. N /\ n - 1 \in 0 .. N
        BY <1>1, <3>1
      <4>2. g[n - 1] \in S
        BY <2>2, <4>1
      <4>3. QED
        BY <2>2, <3>1, <4>1, <4>2 DEF F
    <3>2. QED
      BY <2>2, <3>1
  <2>4. g = [n \in 0 .. N |-> IF n = 0 THEN K ELSE Wake(g[n - 1])]
    BY <2>2, <2>3
  <2> DEFINE OK(w) == w = [n \in 0 .. N |-> IF n = 0 THEN K ELSE Wake(w[n - 1])]
  <2>5. \E w : OK(w)
    BY <2>4
  <2>6. OK(CHOOSE w : OK(w))
    BY <2>5, Zenon
  <2>7. QED
    BY <2>6, Zenon
<1> HIDE DEF woken
<1> DEFINE T == {n \in Nat : n <= N => woken[n] \in S /\ (Done(woken[n]) \/ Len(woken[n].delayed) <= N - n)}
<1>6. N \in T
  <2>1. 0 \in T
    <3>1. woken[0] = K
      BY <1>1, <1>5
    <3>2. QED
      BY <1>1, <1>2, <3>1
  <2>2. ASSUME NEW n \in Nat, n \in T PROVE n + 1 \in T
    <3>1. SUFFICES ASSUME n + 1 <= N
                   PROVE  /\ woken[n + 1] \in S
                          /\ Done(woken[n + 1]) \/ Len(woken[n + 1].delayed) <= N - (n + 1)
      OBVIOUS
    <3>2. n \in 0 .. N /\ n + 1 \in 0 .. N /\ n + 1 # 0 /\ (n + 1) - 1 = n
      BY <1>1, <3>1
    <3>3. woken[n + 1] = Wake(woken[n])
      BY <1>5, <3>2
    <3>4. woken[n] \in S /\ (Done(woken[n]) \/ Len(woken[n].delayed) <= N - n)
      BY <2>2, <3>2
    <3>5. Wake(woken[n]) \in S
      BY <1>3, <3>4
    <3>6. CASE Done(woken[n])
      BY <1>3, <3>3, <3>4, <3>6
    <3>7. CASE ~Done(woken[n])
      <4>1. Len(Wake(woken[n]).delayed) = Len(woken[n].delayed) - 1
        BY <1>3, <3>4, <3>7
      <4>2. Len(woken[n].delayed) \in Nat
        BY <3>4, ListFacts DEF S, Kernels, List
      <4>3. QED
        BY <1>1, <3>3, <3>4, <3>5, <3>7, <4>1, <4>2
    <3>8. QED
      BY <3>6, <3>7
  <2> HIDE DEF T
  <2>3. QED
    BY <1>1, <2>1, <2>2, Induction
<1>7. woken[N] \in S /\ (Done(woken[N]) \/ Len(woken[N].delayed) <= 0)
  BY <1>1, <1>6
<1>8. Done(woken[N])
  <2>1. woken[N].delayed \in Seq(Task)
    BY <1>7 DEF S, Kernels, Lists
  <2>2. CASE Len(woken[N].delayed) <= 0
    BY <2>1, <2>2, SomeoneInList DEF Done
  <2>3. QED
    BY <1>7, <2>2
<1>9. PICK H1 \in [Task -> Places] : Fine(woken[N], H1)
  BY <1>7 DEF S
<1>10. QED
  BY <1>8, <1>9 DEF Fine, woken

\* The loop of prvCheckDelayedTasks readies who is due, and no other.
LEMMA Checked ==
  ASSUME NEW K, NEW H, Good(K, H), Due(K, H), K.pending = <<>>,
         \A t \in Task : H[t] = "delayed" => K.next <= K.wake[t]
  PROVE  LET k1 == prvCheckDelayedTasks(K) IN
         \E H1 \in [Task -> Places] :
           /\ Good(k1, H1) /\ Times(k1, H1) /\ Same(K, k1)
           /\ Woken(H, H1) /\ k1.pending = K.pending /\ Alike(K, H, k1, H1)
           /\ Leave(K, H, k1, H1) /\ k1.overflows = K.overflows
<1>1. /\ K \in Kernels /\ H \in [Task -> Places]
      /\ K.tick \in Int /\ K.next \in Int /\ \A t \in Task : K.wake[t] \in Int
  BY KernelAssumption DEF Good, Kernels, MaxDelay
<1>2. CASE K.tick < K.next
  <2>1. prvCheckDelayedTasks(K) = K
    BY <1>2 DEF prvCheckDelayedTasks
  <2>2. Times(K, H)
    BY <1>1, <1>2 DEF Times, Due
  <2>3. Same(K, K) /\ Woken(H, H) /\ Alike(K, H, K, H) /\ Leave(K, H, K, H)
    BY NobodyLeaves DEF Same, Woken, Alike
  <2>4. QED
    BY <1>1, <2>1, <2>2, <2>3
<1>3. CASE ~(K.tick < K.next)
  <2> DEFINE N == Len(K.delayed)
             woken[n \in 0 .. N] == IF n = 0 THEN K ELSE Wake(woken[n - 1])
             k1 == woken[N]
             x  == WakeTime(k1, k1.delayed)
             k2 == [k1 EXCEPT !.next = x]
  <2>1. prvCheckDelayedTasks(K) = k2
    BY <1>3, Zenon DEF prvCheckDelayedTasks
  <2>2. Done(k1)
    BY Loop
  <2>3. PICK H1 \in [Task -> Places] :
          /\ Good(k1, H1) /\ Due(k1, H1) /\ Same(K, k1)
          /\ Woken(H, H1) /\ k1.pending = K.pending /\ Alike(K, H, k1, H1)
          /\ Leave(K, H, k1, H1) /\ k1.overflows = K.overflows
    BY Loop
  <2> HIDE DEF k1
  <2>4. /\ k1 \in Kernels /\ k1.delayed \in Seq(Task) /\ k1.tick \in Int
        /\ \A t \in Task : k1.wake[t] \in 0 .. MaxDelay
        /\ 0 .. MaxDelay \subseteq Int /\ MaxDelay \in 0 .. MaxDelay
    <3>1. k1 \in Kernels
      BY <2>3 DEF Good
    <3>2. k1.delayed \in Seq(Task)
      BY <3>1 DEF Kernels, Lists
    <3>3. QED
      BY <3>1, <3>2, Numbers, KernelNumbers
  <2>5. x \in 0 .. MaxDelay
    BY <2>4, SomeoneInList DEF WakeTime
  <2>6. ASSUME NEW t \in Task, H1[t] = "delayed"
        PROVE  k1.wake[t] > k1.tick /\ x <= k1.wake[t]
    <3>1. Contains(k1.delayed, t)
      BY <2>3, <2>6 DEF Good, HasPlace
    <3>2. k1.delayed # <<>> /\ Head(k1.delayed) \in Task
      BY <2>4, <3>1, ContainsTask, SomeoneInList
    <3>3. k1.wake[Head(k1.delayed)] <= k1.wake[t]
      <4>1. InOrder(k1.delayed, k1.wake) /\ \A u \in Task : k1.wake[u] \in Int
        BY <2>3, <2>4 DEF Good
      <4>2. QED
        BY <2>4, <3>1, <4>1, HeadFirst
    <3>4. x = k1.wake[Head(k1.delayed)] /\ k1.wake[Head(k1.delayed)] > k1.tick
      BY <2>2, <3>2 DEF WakeTime, Done
    <3>5. k1.wake[Head(k1.delayed)] \in Int /\ k1.wake[t] \in Int
      BY <2>4, <3>2
    <3>6. QED
      BY <2>4, <3>3, <3>4, <3>5
  <2> HIDE DEF x
  <2>7. /\ k2 \in Kernels /\ Same(k1, k2) /\ k2.next = x /\ k2.top = k1.top
        /\ k2.ready = k1.ready /\ k2.delayed = k1.delayed /\ k2.overflow = k1.overflow
        /\ k2.terminated = k1.terminated /\ k2.suspended = k1.suspended
        /\ k2.wake = k1.wake /\ k2.pending = k1.pending
    BY <2>4, <2>5, NextFields
  <2>8. k2.waiting = k1.waiting /\ k2.overflows = k1.overflows
    BY <2>4, ListFields
  <2> HIDE DEF k2
  <2>9. k2.prio = k1.prio /\ k2.tick = k1.tick /\ Same(K, k2)
    BY <2>3, <2>7 DEF Same
  <2>10. Good(k2, H1)
    BY <2>3, <2>7, <2>9, GoodAlike
  <2>11. Times(k2, H1)
    BY <2>3, <2>6, <2>7, <2>9 DEF Times, Due
  <2>12. Alike(K, H, k2, H1)
    <3>1. \A t \in Task : Rest(k2, H1, t) = Rest(k1, H1, t)
      BY <2>7, <2>9, RestAlike
    <3>2. QED
      BY <2>3, <3>1 DEF Alike
  <2>13. Leave(K, H, k2, H1)
    <3>1. Leave(k1, H1, k2, H1)
      BY <2>8, NobodyLeaves
    <3>2. QED
      BY <2>3, <3>1, LeaveOn
  <2>14. QED
    BY <2>1, <2>3, <2>8, <2>13, <2>7, <2>9, <2>10, <2>11, <2>12
<1>4. QED
  BY <1>2, <1>3

\* What a tick leaves as it is: all that Same does, but the tick counter.
SameButTick(K, k1) ==
  /\ k1.running = K.running /\ k1.current = K.current
  /\ k1.item = K.item /\ k1.prio = K.prio /\ k1.base = K.base
  /\ k1.locks = K.locks /\ k1.missed = K.missed /\ k1.missedYield = K.missedYield

\* In H1 only those that sleep in H may be elsewhere, and they sleep or are ready.
Asleep == {"delayed", "overflow"}

\* A task sleeps on, with the lists swapped or not, or wakes up.
Rested(H, H1) ==
  \A t \in Task : H1[t] = H[t] \/ (H[t] \in Asleep /\ H1[t] \in Asleep \cup {"ready"})

\* The counter is set.
LEMMA TickFields ==
  ASSUME NEW K \in Kernels, NEW x \in 0 .. MaxDelay
  PROVE  LET k1 == [K EXCEPT !.tick = x] IN
    /\ k1 \in Kernels /\ SameButTick(K, k1) /\ k1.tick = x /\ k1.next = K.next
    /\ k1.ready = K.ready /\ k1.delayed = K.delayed /\ k1.overflow = K.overflow
    /\ k1.terminated = K.terminated /\ k1.suspended = K.suspended
    /\ k1.wake = K.wake /\ k1.pending = K.pending /\ k1.top = K.top
<1> DEFINE k1 == [K EXCEPT !.tick = x]
<1>1. k1 \in Kernels
  BY DEF Kernels
<1>2. /\ k1.tick = x /\ k1.next = K.next
      /\ k1.ready = K.ready /\ k1.delayed = K.delayed /\ k1.overflow = K.overflow
      /\ k1.terminated = K.terminated /\ k1.suspended = K.suspended
      /\ k1.wake = K.wake /\ k1.pending = K.pending /\ k1.top = K.top
  BY DEF Kernels
<1>3. SameButTick(K, k1)
  BY DEF Kernels, SameButTick
<1>4. QED
  BY <1>1, <1>2, <1>3

\* The delayed lists are swapped.
LEMMA SwapFields ==
  ASSUME NEW K \in Kernels
  PROVE  LET k1 == SwapLists(K) IN
    /\ k1 \in Kernels /\ Same(K, k1) /\ k1.next = WakeTime(K, K.overflow)
    /\ k1.ready = K.ready /\ k1.delayed = K.overflow /\ k1.overflow = K.delayed
    /\ k1.terminated = K.terminated /\ k1.suspended = K.suspended
    /\ k1.wake = K.wake /\ k1.pending = K.pending /\ k1.top = K.top
<1> DEFINE n  == (K.overflows + 1) % Overflows
           x  == WakeTime(K, K.overflow)
           k1 == SwapLists(K)
<1>1. K.overflows \in 0 .. Overflows - 1 /\ K.overflow \in Seq(Task)
  BY DEF Kernels, Lists
<1>2. n \in 0 .. Overflows - 1
  <2>1. Wrapped(K.overflows + 1, Overflows) \in 0 .. Overflows - 1
    BY <1>1, KernelAssumption, OneTurn
  <2>2. QED
    BY <2>1 DEF Wrapped
<1>3. x \in 0 .. MaxDelay
  BY <1>1, Numbers, KernelNumbers, SomeoneInList DEF WakeTime
<1>4. k1 = [K EXCEPT !.delayed = K.overflow, !.overflow = K.delayed,
                     !.overflows = n, !.next = x]
  BY DEF SwapLists, Kernels
<1> HIDE DEF n, x, k1
<1>5. k1 \in Kernels
  BY <1>2, <1>3, <1>4 DEF Kernels
<1>6. /\ k1.next = x
      /\ k1.ready = K.ready /\ k1.delayed = K.overflow /\ k1.overflow = K.delayed
      /\ k1.terminated = K.terminated /\ k1.suspended = K.suspended
      /\ k1.wake = K.wake /\ k1.pending = K.pending /\ k1.top = K.top
  BY <1>4 DEF Kernels
<1>7. Same(K, k1)
  BY <1>4 DEF Kernels, Same
<1>8. QED
  BY <1>5, <1>6, <1>7 DEF x, k1

\* Between K and k1 the counter has gone on by n ticks; the overflows are the
\* same if it has not wrapped.
Counts(K, k1, n) ==
  /\ K.tick + n < Ticks => k1.tick = K.tick + n /\ k1.overflows = K.overflows
  /\ K.tick + n >= Ticks /\ K.tick + n < 2 * Ticks => k1.tick = K.tick + n - Ticks

\* A tick that is counted: who is due is readied, and when the counter wraps
\* nobody is left in the list of the turn that ends.
LEMMA Ticked ==
  ASSUME NEW K, NEW H, Good(K, H), Times(K, H), K.locks = 0, K.pending = <<>>
  PROVE  LET k1 == vTaskIncrementTick(K) IN
         \E H1 \in [Task -> Places] :
           /\ Good(k1, H1) /\ Times(k1, H1) /\ SameButTick(K, k1)
           /\ Rested(H, H1) /\ k1.pending = K.pending
           /\ k1.tick = (K.tick + 1) % Ticks /\ Later(K, H, k1, H1, 1)
           /\ Leave(K, H, k1, H1) /\ Counts(K, k1, 1)
<1> DEFINE x  == (K.tick + 1) % Ticks
           k1 == [K EXCEPT !.tick = x]
           k2 == IF k1.tick = 0 THEN SwapLists(k1) ELSE k1
           k3 == prvCheckDelayedTasks(k2)
<1>1. K \in Kernels /\ H \in [Task -> Places]
  BY DEF Good
<1>2. x = IF K.tick = MaxDelay THEN 0 ELSE K.tick + 1
  <2>1. Wrapped(K.tick + 1, Ticks) = IF K.tick = MaxDelay THEN 0 ELSE K.tick + 1
    <3>1. Ticks \in Nat \ {0} /\ MaxDelay \in Nat /\ K.tick \in 0 .. MaxDelay /\ MaxDelay + 1 = Ticks
      BY <1>1, Numbers, KernelNumbers
    <3>2. /\ K.tick + 1 \in Int /\ -Ticks <= K.tick + 1 /\ K.tick + 1 < 2 * Ticks
          /\ K.tick + 1 >= 0 /\ K.tick + 1 < Ticks <=> K.tick # MaxDelay
      BY <3>1
    <3>3. Wrapped(K.tick + 1, Ticks)
            = IF K.tick + 1 < 0 THEN K.tick + 1 + Ticks
              ELSE IF K.tick + 1 < Ticks THEN K.tick + 1 ELSE K.tick + 1 - Ticks
      BY <3>1, <3>2, OneTurn
    <3>4. QED
      BY <3>1, <3>3
  <2>2. QED
    BY <2>1 DEF Wrapped
<1>3. x \in 0 .. MaxDelay
  BY <1>1, <1>2, Numbers, KernelNumbers
<1> HIDE DEF x
<1>4. /\ k1 \in Kernels /\ SameButTick(K, k1) /\ k1.tick = x /\ k1.next = K.next
      /\ k1.ready = K.ready /\ k1.delayed = K.delayed /\ k1.overflow = K.overflow
      /\ k1.terminated = K.terminated /\ k1.suspended = K.suspended
      /\ k1.wake = K.wake /\ k1.pending = K.pending /\ k1.top = K.top
  BY <1>1, <1>3, TickFields
<1>5. k1.waiting = K.waiting /\ k1.overflows = K.overflows
  BY <1>1, ListFields
<1>6. vTaskIncrementTick(K) = k3
  BY DEF vTaskIncrementTick, x
<1> HIDE DEF k1
<1>7. Good(k1, H)
  BY <1>4, GoodAlike DEF SameButTick
<1>8. \E H2 \in [Task -> Places] :
        /\ Good(k2, H2) /\ Due(k2, H2) /\ Same(k1, k2) /\ k2.pending = k1.pending
        /\ \A t \in Task : H2[t] = "delayed" => k2.next <= k2.wake[t]
        /\ Rested(H, H2) /\ Later(K, H, k2, H2, 1) /\ Leave(K, H, k2, H2)
        /\ x # 0 => k2.overflows = K.overflows
  <2>1. CASE x # 0
    <3>1. k2 = k1
      BY <1>4, <2>1
    <3>2. Due(k1, H)
      BY <1>1, <1>2, <1>4, <2>1, Numbers, KernelNumbers DEF Times, Due
    <3>3. \A t \in Task : H[t] = "delayed" => k1.next <= k1.wake[t]
      BY <1>4 DEF Times
    <3>4. Same(k1, k1) /\ Rested(H, H) /\ Leave(K, H, k1, H)
      BY <1>5, NobodyLeaves DEF Same, Rested
    <3>5. Later(K, H, k1, H, 1)
      <4>1. SUFFICES ASSUME NEW t \in Task
                     PROVE  Rest(k1, H, t) = IF Rest(K, H, t) > 1 THEN Rest(K, H, t) - 1 ELSE 0
        BY DEF Later
      <4>2. Rest(K, H, t) \in Int /\ (Rest(K, H, t) > 0 <=> H[t] = "delayed" \/ H[t] = "overflow")
        BY RestFacts, Numbers
      <4>3. K.wake[t] \in Int /\ K.tick \in Int /\ Ticks \in Int /\ x = K.tick + 1
        BY <1>1, <1>2, <2>1, Numbers, KernelNumbers
      <4>4. CASE H[t] = "delayed"
        BY <1>4, <4>2, <4>3, <4>4 DEF Rest
      <4>5. CASE H[t] = "overflow"
        BY <1>4, <4>2, <4>3, <4>5 DEF Rest
      <4>6. CASE H[t] \notin {"delayed", "overflow"}
        BY <4>6 DEF Rest
      <4>7. QED
        BY <4>4, <4>5, <4>6
    <3> HIDE DEF k2
    <3>6. QED
      BY <1>1, <1>5, <1>7, <3>1, <3>2, <3>3, <3>4, <3>5
  <2>2. CASE x = 0
    <3> DEFINE H2 == [t \in Task |-> IF H[t] = "overflow" THEN "delayed" ELSE H[t]]
    <3>1. k2 = SwapLists(k1)
      BY <1>4, <2>2
    <3> HIDE DEF k2
    <3>2. /\ k2 \in Kernels /\ Same(k1, k2) /\ k2.next = WakeTime(k1, k1.overflow)
          /\ k2.ready = k1.ready /\ k2.delayed = k1.overflow /\ k2.overflow = k1.delayed
          /\ k2.terminated = k1.terminated /\ k2.suspended = k1.suspended
          /\ k2.wake = k1.wake /\ k2.pending = k1.pending /\ k2.top = k1.top
      BY <1>4, <3>1, SwapFields
    <3>3. k2.prio = k1.prio /\ k2.tick = 0
      BY <1>4, <2>2, <3>2 DEF Same
    <3>4. \A t \in Task : H[t] # "delayed"
      BY <1>1, <1>2, <2>2, Numbers, KernelNumbers DEF Times
    <3>5. H2 \in [Task -> Places]
      BY <1>1 DEF Places
    <3>6. \A t \in Task : /\ H2[t] = "delayed" <=> H[t] = "overflow"
                          /\ H[t] # "overflow" => H2[t] = H[t]
                          /\ H2[t] # "overflow"
      BY <3>4
    <3> HIDE DEF H2
    <3>7. ASSUME NEW t \in Task PROVE HasPlace(k2, t, H2[t])
      BY <1>7, <3>2, <3>3, <3>4, <3>6 DEF Good, HasPlace
    <3>8. Good(k2, H2)
      BY <1>7, <3>2, <3>3, <3>5, <3>6, <3>7 DEF Good, Stopped
    <3>9. Due(k2, H2)
      BY <3>2, <3>3, <3>6, KernelNumbers DEF Due
    <3>10. ASSUME NEW t \in Task, H2[t] = "delayed" PROVE k2.next <= k2.wake[t]
      <4>1. k1.overflow \in Seq(Task) /\ InOrder(k1.overflow, k1.wake)
        BY <1>7 DEF Good, Kernels, Lists
      <4>2. Contains(k1.overflow, t)
        BY <1>7, <3>6, <3>10 DEF Good, HasPlace
      <4>3. k1.wake[Head(k1.overflow)] <= k1.wake[t] /\ k1.overflow # <<>>
        BY <1>4, <4>1, <4>2, Numbers, KernelNumbers, HeadFirst, ContainsTask
      <4>4. QED
        BY <3>2, <4>3 DEF WakeTime
    <3>11. Rested(H, H2)
      BY <3>4, <3>6 DEF Rested, Asleep
    <3>12. Later(K, H, k2, H2, 1)
      <4>1. SUFFICES ASSUME NEW t \in Task
                     PROVE  Rest(k2, H2, t) = IF Rest(K, H, t) > 1 THEN Rest(K, H, t) - 1 ELSE 0
        BY DEF Later
      <4>2. Rest(K, H, t) \in Int /\ (Rest(K, H, t) > 0 <=> H[t] = "delayed" \/ H[t] = "overflow")
        BY RestFacts, Numbers
      <4>3. /\ K.wake[t] \in Int /\ MaxDelay \in Int /\ Ticks = MaxDelay + 1
            /\ K.tick = MaxDelay /\ k2.tick = 0 /\ k2.wake[t] = K.wake[t]
        BY <1>1, <1>2, <1>4, <2>2, <3>2, <3>3, Numbers, KernelNumbers
      <4>4. CASE H[t] = "overflow"
        BY <3>6, <4>2, <4>3, <4>4 DEF Rest
      <4>5. CASE H[t] # "overflow"
        BY <3>4, <3>6, <4>5 DEF Rest
      <4>6. QED
        BY <4>4, <4>5
    <3>13. Leave(K, H, k2, H2)
      <4>1. k2.waiting = K.waiting
        BY <1>5, <1>4, <3>1, ListFields
      <4>2. \A t \in Task : H2[t] = "ready" <=> H[t] = "ready"
        BY <3>4, <3>6
      <4>3. QED
        BY <4>1, <4>2, NobodyLeaves
    <3>14. QED
      BY <2>2, <3>13, <3>2, <3>5, <3>8, <3>9, <3>10, <3>11, <3>12
  <2>3. QED
    BY <2>1, <2>2
<1>9. PICK H2 \in [Task -> Places] :
        /\ Good(k2, H2) /\ Due(k2, H2) /\ Same(k1, k2) /\ k2.pending = k1.pending
        /\ \A t \in Task : H2[t] = "delayed" => k2.next <= k2.wake[t]
        /\ Rested(H, H2) /\ Later(K, H, k2, H2, 1) /\ Leave(K, H, k2, H2)
        /\ x # 0 => k2.overflows = K.overflows
  BY <1>8
<1> HIDE DEF k2
<1>10. PICK H3 \in [Task -> Places] :
        /\ Good(k3, H3) /\ Times(k3, H3) /\ Same(k2, k3)
        /\ Woken(H2, H3) /\ k3.pending = k2.pending /\ Alike(k2, H2, k3, H3)
        /\ Leave(k2, H2, k3, H3) /\ k3.overflows = k2.overflows
  BY <1>4, <1>9, Checked
<1> HIDE DEF k3
<1>11. Rested(H, H3)
  BY <1>9, <1>10 DEF Rested, Woken, Asleep
<1>12. SameButTick(K, k3) /\ k3.tick = x
  BY <1>4, <1>9, <1>10 DEF SameButTick, Same
<1>13. Later(K, H, k3, H3, 1)
  BY <1>9, <1>10 DEF Later, Alike
<1>14. Leave(K, H, k3, H3)
  BY <1>9, <1>10, LeaveOn
<1>15. Counts(K, k3, 1)
  BY <1>1, <1>2, <1>5, <1>9, <1>10, <1>12, Numbers, KernelNumbers DEF Counts
<1>16. QED
  BY <1>14, <1>15, <1>4, <1>6, <1>9, <1>10, <1>11, <1>12, <1>13 DEF x

-----------------------------------------------------------------------------
(* Context switches and xTaskResumeAll                                       *)

\* What a context switch leaves as it is.
SameButCurrent(K, k1) ==
  /\ k1.running = K.running /\ k1.tick = K.tick /\ k1.wake = K.wake
  /\ k1.item = K.item /\ k1.prio = K.prio /\ k1.base = K.base
  /\ k1.locks = K.locks /\ k1.missed = K.missed /\ k1.missedYield = K.missedYield

\* The current task is ready, and no ready task is above it.
Highest(K, H) ==
  /\ K.current \in Task /\ H[K.current] = "ready"
  /\ \A t \in Task : H[t] = "ready" => K.prio[t] <= K.prio[K.current]

\* vTaskSwitchContext, field by field.
LEMMA SwitchFields ==
  ASSUME NEW K \in Kernels, NEW p \in Prio, K.ready[p] # <<>>
  PROVE  LET turn == Head(K.ready[p])
             k1   == [K EXCEPT !.top = p, !.ready[p] = Append(Tail(@), turn),
                               !.current = turn] IN
    /\ k1 \in Kernels /\ SameButCurrent(K, k1) /\ k1.next = K.next
    /\ k1.ready = [K.ready EXCEPT ![p] = Append(Tail(@), turn)]
    /\ k1.top = p /\ k1.current = turn
    /\ k1.delayed = K.delayed /\ k1.overflow = K.overflow
    /\ k1.terminated = K.terminated /\ k1.suspended = K.suspended
    /\ k1.wake = K.wake /\ k1.pending = K.pending
<1> DEFINE turn  == Head(K.ready[p])
           ready == [K.ready EXCEPT ![p] = Append(Tail(@), turn)]
           k1    == [K EXCEPT !.top = p, !.ready[p] = Append(Tail(@), turn),
                              !.current = turn]
<1>1. K.ready \in [Prio -> Lists] /\ K.ready[p] \in Lists
  BY DEF Kernels
<1>2. turn \in Task /\ Append(Tail(K.ready[p]), turn) \in Lists
  BY <1>1, SomeoneInList, TurnedList DEF List, Lists
<1>3. ready \in [Prio -> Lists]
  BY <1>1, <1>2
<1>4. k1 = [K EXCEPT !.top = p, !.ready = ready, !.current = turn]
  BY DEF Kernels
<1> HIDE DEF ready, turn, k1
<1>5. k1 \in Kernels
  BY <1>2, <1>3, <1>4 DEF Kernels
<1>6. /\ k1.next = K.next /\ k1.ready = ready /\ k1.top = p /\ k1.current = turn
      /\ k1.delayed = K.delayed /\ k1.overflow = K.overflow
      /\ k1.terminated = K.terminated /\ k1.suspended = K.suspended
      /\ k1.wake = K.wake /\ k1.pending = K.pending
  BY <1>4 DEF Kernels
<1>7. SameButCurrent(K, k1)
  BY <1>4 DEF Kernels, SameButCurrent
<1>8. QED
  BY <1>5, <1>6, <1>7 DEF ready, turn, k1

\* With somebody ready, the context switch finds the highest.
LEMMA Switched ==
  ASSUME NEW K, NEW H, Good(K, H), K.locks = 0, NEW i \in Task, H[i] = "ready"
  PROVE  LET k1 == vTaskSwitchContext(K) IN
    /\ Good(k1, H) /\ Highest(k1, H) /\ SameButCurrent(K, k1)
    /\ k1.pending = K.pending
    /\ Times(K, H) => Times(k1, H)
<1> DEFINE R    == {p \in 0 .. K.top : K.ready[p] # <<>>}
           top  == Max(R)
           turn == Head(K.ready[top])
           k1   == vTaskSwitchContext(K)
<1>1. /\ K \in Kernels /\ K.top \in Prio /\ K.top \in Nat
      /\ \A p \in Prio : K.ready[p] \in Lists /\ K.ready[p] \in Seq(Task)
      /\ \A t \in Task : K.prio[t] \in Prio
      /\ K.ready \in [Prio -> Lists]
  BY Numbers DEF Good, Kernels, Lists
<1>2. \A t \in Task : H[t] = "ready" => K.prio[t] \in R /\ Contains(K.ready[K.prio[t]], t)
  <2>1. SUFFICES ASSUME NEW t \in Task, H[t] = "ready"
                 PROVE  K.prio[t] \in R /\ Contains(K.ready[K.prio[t]], t)
    OBVIOUS
  <2>2. Contains(K.ready[K.prio[t]], t) /\ K.prio[t] <= K.top
    BY <1>1, <2>1 DEF Good, HasPlace
  <2>3. K.ready[K.prio[t]] # <<>>
    BY <1>1, <2>2, ContainsTask
  <2>4. K.prio[t] \in 0 .. K.top
    BY <1>1, <2>2 DEF Prio
  <2>5. QED
    BY <2>2, <2>3, <2>4
<1>3. R # {} /\ R \subseteq 0 .. K.top
  BY <1>2
<1>4. top \in R /\ \A p \in R : top >= p
  <2> HIDE DEF R
  <2>1. QED
    BY <1>1, <1>3, MaxFacts
<1>5. top \in Prio /\ K.ready[top] # <<>>
  <2> HIDE DEF top
  <2>1. top \in 0 .. K.top /\ K.ready[top] # <<>>
    BY <1>4
  <2>2. QED
    BY KernelAssumption, <1>1, <2>1 DEF Prio
<1>6. k1 = [K EXCEPT !.top = top, !.ready[top] = Append(Tail(@), turn), !.current = turn]
  BY DEF vTaskSwitchContext
<1> HIDE DEF R, top, k1
<1>7. /\ k1 \in Kernels /\ SameButCurrent(K, k1) /\ k1.next = K.next
      /\ k1.ready = [K.ready EXCEPT ![top] = Append(Tail(@), turn)]
      /\ k1.top = top /\ k1.current = turn
      /\ k1.delayed = K.delayed /\ k1.overflow = K.overflow
      /\ k1.terminated = K.terminated /\ k1.suspended = K.suspended
      /\ k1.wake = K.wake /\ k1.pending = K.pending
  BY <1>1, <1>5, <1>6, SwitchFields
<1>8. k1.prio = K.prio /\ k1.tick = K.tick
  BY <1>7 DEF SameButCurrent
<1>9. turn \in Task /\ Contains(K.ready[top], turn)
  BY <1>1, <1>5, SomeoneInList
<1>10. H[turn] = "ready" /\ K.prio[turn] = top
  BY <1>5, <1>9 DEF Good, HasPlace
<1> HIDE DEF turn
<1>11. Highest(k1, H)
  BY <1>2, <1>4, <1>7, <1>8, <1>9, <1>10 DEF Highest
<1>12. ASSUME NEW t \in Task PROVE HasPlace(k1, t, H[t])
  <2>1. ASSUME NEW p \in Prio PROVE Contains(k1.ready[p], t) <=> Contains(K.ready[p], t)
    <3>1. CASE p = top
      BY <1>1, <1>5, <1>7, <3>1, TurnedList DEF turn, List
    <3>2. CASE p # top
      BY <1>1, <1>7, <3>2
    <3>3. QED
      BY <3>1, <3>2
  <2>2. HasPlace(K, t, H[t])
    BY DEF Good
  <2>3. QED
    BY <1>7, <1>8, <2>1, <2>2 DEF HasPlace
<1>13. \A t \in Task : H[t] = "ready" => k1.prio[t] <= k1.top
  BY <1>2, <1>4, <1>7, <1>8
<1>14. Good(k1, H)
  BY <1>7, <1>12, <1>13 DEF Good
<1>15. Times(K, H) => Times(k1, H)
  BY <1>7, <1>8 DEF Times
<1>16. QED
  BY <1>7, <1>11, <1>14, <1>15 DEF k1

\* In H1 only those that are pending in K are not where they are in H, but ready.
Moved(K, H, H1) ==
  \A t \in Task : H1[t] = H[t] \/ (Contains(K.pending, t) /\ H1[t] = "ready")

\* Those that are pending in K are ready unless they are pending still; the others
\* have as long to sleep as they had.
Recalled(K, H, k1, H1) ==
  \A t \in Task : IF Contains(K.pending, t)
                 THEN Contains(k1.pending, t) \/ H1[t] = "ready"
                 ELSE ~Contains(k1.pending, t) /\ Rest(k1, H1, t) = Rest(K, H, t)

\* A turn of the loop of xTaskResumeAll moves the first pending task.
LEMMA MovedHead ==
  ASSUME NEW K, NEW H, Good(K, H), Times(K, H), K.pending # <<>>
  PROVE  LET k1 == MoveHead(K)
             H1 == [H EXCEPT ![Head(K.pending)] = "ready"] IN
    /\ Good(k1, H1) /\ Times(k1, H1) /\ Same(K, k1) /\ Moved(K, H, H1)
    /\ H1 \in [Task -> Places] /\ Recalled(K, H, k1, H1)
    /\ Leave(K, H, k1, H1) /\ k1.overflows = K.overflows
    /\ Len(k1.pending) = Len(K.pending) - 1
    /\ \A t \in Task : Contains(k1.pending, t) => Contains(K.pending, t)
<1> DEFINE t  == Head(K.pending)
           k1 == MoveHead(K)
           H1 == [H EXCEPT ![t] = "ready"]
<1>1. K.pending \in Lists /\ K.pending \in Seq(Task) /\ H \in [Task -> Places]
  BY DEF Good, Kernels, Lists
<1>2. t \in Task /\ Contains(K.pending, t)
  BY <1>1, SomeoneInList
<1>3. k1 = Unblock(K, t)
  BY DEF MoveHead
<1>4. /\ H1 \in [Task -> Places] /\ Moved(K, H, H1)
      /\ H1[t] = "ready" /\ \A u \in Task \ {t} : H1[u] = H[u]
  BY <1>1, <1>2 DEF Moved, Places
<1> HIDE DEF t, k1, H1
<1>5. /\ Good(k1, H1) /\ Same(K, k1) /\ k1.pending = Without(K.pending, t)
      /\ Times(k1, H1) /\ \A u \in Task \ {t} : k1.wake[u] = K.wake[u]
  BY <1>2, <1>3, Unblocked DEF H1
<1>6. /\ Len(k1.pending) = Len(K.pending) - 1
      /\ \A u \in Task : Contains(k1.pending, u) => Contains(K.pending, u)
  BY <1>1, <1>2, <1>5, WithoutFacts DEF List
<1>7. Recalled(K, H, k1, H1)
  <2>1. k1.tick = K.tick
    BY <1>5 DEF Same
  <2>2. \A u \in Task : Contains(k1.pending, u) <=> Contains(K.pending, u) /\ u # t
    BY <1>1, <1>5, WithoutFacts DEF List
  <2>3. \A u \in Task \ {t} : Rest(k1, H1, u) = Rest(K, H, u)
    BY <1>4, <1>5, <2>1, RestAlike
  <2>4. QED
    BY <1>2, <1>4, <2>2, <2>3 DEF Recalled
<1>8. Leave(K, H, k1, H1) /\ k1.overflows = K.overflows
  <2>1. H[t] # "ready" /\ K \in Kernels
    BY <1>2 DEF Good, Stopped
  <2>2. QED
    BY <1>2, <1>3, <2>1, UnblockedLeaves, UnblockFields DEF H1
<1>9. QED
  BY <1>4, <1>5, <1>6, <1>7, <1>8 DEF t, k1, H1

\* The loop of xTaskResumeAll empties the pending list.
LEMMA UnblockedPending ==
  ASSUME NEW K, NEW H, Good(K, H), Times(K, H)
  PROVE  LET k1 == UnblockPending(K) IN
         \E H1 \in [Task -> Places] :
           /\ Good(k1, H1) /\ Times(k1, H1) /\ Same(K, k1) /\ Moved(K, H, H1)
           /\ k1.pending = <<>> /\ Recalled(K, H, k1, H1)
           /\ Leave(K, H, k1, H1) /\ k1.overflows = K.overflows
<1> DEFINE Fine(x, H1) == /\ Good(x, H1) /\ Times(x, H1) /\ Same(K, x) /\ Moved(K, H, H1)
                          /\ \A t \in Task : Contains(x.pending, t) => Contains(K.pending, t)
                          /\ Recalled(K, H, x, H1) /\ Leave(K, H, x, H1)
                          /\ x.overflows = K.overflows
           S == {x \in Kernels : \E H1 \in [Task -> Places] : Fine(x, H1)}
           F == [x \in S |-> MoveHead(x)]
           N == Len(K.pending)
           moved[n \in 0 .. N] == IF n = 0 THEN K ELSE MoveHead(moved[n - 1])
<1>1. /\ N \in Nat /\ K \in Kernels /\ H \in [Task -> Places]
  BY ListFacts DEF Good, Kernels, List
<1>2. K \in S
  <2>1. Fine(K, H)
    BY NobodyLeaves DEF Same, Moved, Recalled
  <2>2. QED
    BY <1>1, <2>1
<1>3. ASSUME NEW x \in S
      PROVE  /\ MoveHead(x) \in S
             /\ x.pending = <<>> => MoveHead(x) = x
             /\ x.pending # <<>> => Len(MoveHead(x).pending) = Len(x.pending) - 1
  <2>1. PICK H0 \in [Task -> Places] : Fine(x, H0)
    OBVIOUS
  <2>2. CASE x.pending = <<>>
    BY <2>2 DEF MoveHead
  <2>3. CASE x.pending # <<>>
    <3> DEFINE x1 == MoveHead(x)
               H1 == [H0 EXCEPT ![Head(x.pending)] = "ready"]
    <3>1. /\ Good(x1, H1) /\ Times(x1, H1) /\ Same(x, x1) /\ Moved(x, H0, H1)
          /\ H1 \in [Task -> Places] /\ Recalled(x, H0, x1, H1)
          /\ Leave(x, H0, x1, H1) /\ x1.overflows = x.overflows
          /\ Len(x1.pending) = Len(x.pending) - 1
          /\ \A t \in Task : Contains(x1.pending, t) => Contains(x.pending, t)
      BY <2>1, <2>3, MovedHead
    <3> HIDE DEF x1, H1
    <3>2. Same(K, x1)
      BY <2>1, <3>1 DEF Same
    <3>3. Moved(K, H, H1)
      BY <2>1, <3>1 DEF Moved
    <3>4. Recalled(K, H, x1, H1)
      BY <2>1, <3>1 DEF Recalled, Leave
    <3>5. Leave(K, H, x1, H1)
      BY <2>1, <3>1, LeaveOn
    <3>6. Fine(x1, H1) /\ x1 \in Kernels
      BY <2>1, <3>1, <3>2, <3>3, <3>4, <3>5 DEF Good
    <3>7. QED
      BY <2>3, <3>1, <3>6 DEF x1
  <2>4. QED
    BY <2>2, <2>3
<1> HIDE DEF S, Fine
<1>4. StaysIn(F, S)
  BY <1>3 DEF StaysIn
<1>5. moved = [n \in 0 .. N |-> IF n = 0 THEN K ELSE MoveHead(moved[n - 1])]
  <2> HIDE DEF F, N
  <2>1. PICK g : IsLoop(g, F, S, K, N)
    BY <1>1, <1>2, <1>4, Iterates
  <2>2. g \in [0 .. N -> S] /\ g[0] = K /\ \A n \in 1 .. N : g[n] = F[g[n - 1]]
    BY <2>1 DEF IsLoop
  <2>3. ASSUME NEW n \in 0 .. N
        PROVE  g[n] = IF n = 0 THEN K ELSE MoveHead(g[n - 1])
    <3>1. CASE n # 0
      <4>1. n \in 1 .. N /\ n - 1 \in 0 .. N
        BY <1>1, <3>1
      <4>2. g[n - 1] \in S
        BY <2>2, <4>1
      <4>3. QED
        BY <2>2, <3>1, <4>1, <4>2 DEF F
    <3>2. QED
      BY <2>2, <3>1
  <2>4. g = [n \in 0 .. N |-> IF n = 0 THEN K ELSE MoveHead(g[n - 1])]
    BY <2>2, <2>3
  <2> DEFINE OK(w) == w = [n \in 0 .. N |-> IF n = 0 THEN K ELSE MoveHead(w[n - 1])]
  <2>5. \E w : OK(w)
    BY <2>4
  <2>6. OK(CHOOSE w : OK(w))
    BY <2>5, Zenon
  <2>7. QED
    BY <2>6, Zenon
<1> HIDE DEF moved
<1> DEFINE T == {n \in Nat : n <= N => /\ moved[n] \in S
                                       /\ \/ moved[n].pending = <<>>
                                          \/ Len(moved[n].pending) <= N - n}
<1>6. N \in T
  <2>1. 0 \in T
    <3>1. moved[0] = K
      BY <1>1, <1>5
    <3>2. QED
      BY <1>1, <1>2, <3>1
  <2>2. ASSUME NEW n \in Nat, n \in T PROVE n + 1 \in T
    <3>1. SUFFICES ASSUME n + 1 <= N
                   PROVE  /\ moved[n + 1] \in S
                          /\ \/ moved[n + 1].pending = <<>>
                             \/ Len(moved[n + 1].pending) <= N - (n + 1)
      OBVIOUS
    <3>2. n \in 0 .. N /\ n + 1 \in 0 .. N /\ n + 1 # 0 /\ (n + 1) - 1 = n
      BY <1>1, <3>1
    <3>3. moved[n + 1] = MoveHead(moved[n])
      BY <1>5, <3>2
    <3>4. moved[n] \in S /\ (moved[n].pending = <<>> \/ Len(moved[n].pending) <= N - n)
      BY <2>2, <3>2
    <3>5. MoveHead(moved[n]) \in S
      BY <1>3, <3>4
    <3>6. CASE moved[n].pending = <<>>
      BY <1>3, <3>3, <3>4, <3>6
    <3>7. CASE moved[n].pending # <<>>
      <4>1. Len(MoveHead(moved[n]).pending) = Len(moved[n].pending) - 1
        BY <1>3, <3>4, <3>7
      <4>2. Len(moved[n].pending) \in Nat
        BY <3>4, ListFacts DEF S, Kernels, List
      <4>3. QED
        BY <1>1, <3>3, <3>4, <3>5, <3>7, <4>1, <4>2
    <3>8. QED
      BY <3>6, <3>7
  <2> HIDE DEF T
  <2>3. QED
    BY <1>1, <2>1, <2>2, Induction
<1>7. moved[N] \in S /\ (moved[N].pending = <<>> \/ Len(moved[N].pending) <= 0)
  BY <1>1, <1>6
<1>8. moved[N].pending = <<>>
  <2>1. moved[N].pending \in Seq(Task)
    BY <1>7 DEF S, Kernels, Lists
  <2>2. QED
    BY <1>7, <2>1, SomeoneInList
<1>9. PICK H1 \in [Task -> Places] : Fine(moved[N], H1)
  BY <1>7 DEF S
<1>10. UnblockPending(K) = moved[N]
  BY Zenon DEF UnblockPending, moved
<1>11. QED
  BY <1>8, <1>9, <1>10 DEF Fine

\* The loop of xTaskResumeAll that counts the missed ticks.
LEMMA CountedMissed ==
  ASSUME NEW K, NEW H, Good(K, H), Times(K, H), K.locks = 0, K.pending = <<>>
  PROVE  LET k1 == CountMissed(K) IN
         \E H1 \in [Task -> Places] :
           /\ Good(k1, H1) /\ Times(k1, H1) /\ SameButTick(K, k1) /\ Rested(H, H1)
           /\ k1.pending = K.pending
           /\ K.missed = 0 => k1 = K
           /\ Later(K, H, k1, H1, K.missed)
           /\ Leave(K, H, k1, H1) /\ Counts(K, k1, K.missed)
<1> DEFINE Fine(x, H1) == /\ Good(x, H1) /\ Times(x, H1) /\ SameButTick(K, x)
                          /\ Rested(H, H1) /\ x.pending = K.pending
                          /\ Leave(K, H, x, H1)
           After(x, n) == \E H1 \in [Task -> Places] :
                            Fine(x, H1) /\ Later(K, H, x, H1, n) /\ Counts(K, x, n)
           S == {x \in Kernels : \E H1 \in [Task -> Places] : Fine(x, H1)}
           F == [x \in S |-> vTaskIncrementTick(x)]
           N == K.missed
           counted[n \in 0 .. N] == IF n = 0 THEN K ELSE vTaskIncrementTick(counted[n - 1])
<1>1. /\ N \in Nat /\ K \in Kernels /\ H \in [Task -> Places]
  BY DEF Good, Kernels
<1>2. K \in S /\ After(K, 0)
  <2>1. Fine(K, H)
    BY NobodyLeaves DEF SameButTick, Rested
  <2>2. Later(K, H, K, H, 0) /\ Counts(K, K, 0)
    BY <1>1, RestFacts, Numbers, KernelNumbers DEF Later, Counts
  <2>3. QED
    BY <1>1, <2>1, <2>2
<1>3. ASSUME NEW x \in Kernels, NEW H0 \in [Task -> Places], Fine(x, H0)
      PROVE  \E H1 \in [Task -> Places] :
               /\ Fine(vTaskIncrementTick(x), H1)
               /\ Later(x, H0, vTaskIncrementTick(x), H1, 1)
               /\ Counts(x, vTaskIncrementTick(x), 1)
  <2>1. Fine(x, H0)
    BY <1>3
  <2>2. x.locks = 0 /\ x.pending = <<>>
    BY <2>1 DEF SameButTick
  <2> DEFINE x1 == vTaskIncrementTick(x)
  <2>3. PICK H1 \in [Task -> Places] :
          /\ Good(x1, H1) /\ Times(x1, H1) /\ SameButTick(x, x1)
          /\ Rested(H0, H1) /\ x1.pending = x.pending
          /\ Later(x, H0, x1, H1, 1) /\ Leave(x, H0, x1, H1) /\ Counts(x, x1, 1)
    BY <2>1, <2>2, Ticked
  <2> HIDE DEF x1
  <2>4. SameButTick(K, x1)
    BY <2>1, <2>3 DEF SameButTick
  <2>5. Rested(H, H1)
    BY <2>1, <2>3 DEF Rested, Asleep
  <2>6. Leave(K, H, x1, H1)
    BY <2>1, <2>3, LeaveOn
  <2>7. Fine(x1, H1)
    BY <2>1, <2>3, <2>4, <2>5, <2>6
  <2>8. QED
    BY <2>3, <2>7 DEF x1
<1>4. ASSUME NEW x \in S PROVE vTaskIncrementTick(x) \in S
  <2>1. PICK H0 \in [Task -> Places] : Fine(x, H0)
    OBVIOUS
  <2>2. PICK H1 \in [Task -> Places] : Fine(vTaskIncrementTick(x), H1)
    BY <1>3, <2>1
  <2>3. vTaskIncrementTick(x) \in Kernels
    BY <2>2 DEF Good
  <2>4. QED
    BY <2>2, <2>3
<1>5. ASSUME NEW x \in S, NEW n \in Nat, After(x, n)
      PROVE  After(vTaskIncrementTick(x), n + 1)
  <2> DEFINE x1 == vTaskIncrementTick(x)
  <2>1. PICK H0 \in [Task -> Places] : 
          Fine(x, H0) /\ Later(K, H, x, H0, n) /\ Counts(K, x, n)
    BY <1>5
  <2>2. PICK H1 \in [Task -> Places] :
          Fine(x1, H1) /\ Later(x, H0, x1, H1, 1) /\ Counts(x, x1, 1)
    BY <1>3, <2>1
  <2> HIDE DEF x1
  <2>3. Counts(K, x1, n + 1)
    <3>1. Counts(K, x, n) /\ Counts(x, x1, 1)
      BY <2>1, <2>2
    <3>2. K.tick \in Nat /\ Ticks \in Nat \ {0}
      BY <1>1, Numbers, KernelNumbers
    <3> DEFINE T == K.tick + n
    <3>3. T \in Nat /\ K.tick + (n + 1) = T + 1
      BY <3>2
    <3>4. /\ T < Ticks => x.tick = T /\ x.overflows = K.overflows
          /\ T >= Ticks /\ T < 2 * Ticks => x.tick = T - Ticks
      BY <3>1, <3>2, <3>3 DEF Counts
    <3>5. /\ x.tick + 1 < Ticks => x1.tick = x.tick + 1 /\ x1.overflows = x.overflows
          /\ x.tick + 1 >= Ticks /\ x.tick + 1 < 2 * Ticks => x1.tick = x.tick + 1 - Ticks
      BY <3>1, <3>2, <3>3 DEF Counts
    <3> HIDE DEF T
    <3>6. T + 1 < Ticks => x1.tick = T + 1 /\ x1.overflows = K.overflows
      BY <3>2, <3>3, <3>4, <3>5
    <3>7. T + 1 >= Ticks /\ T + 1 < 2 * Ticks => x1.tick = T + 1 - Ticks
      <4>1. CASE T < Ticks
        BY <3>2, <3>3, <3>4, <3>5, <4>1
      <4>2. CASE T >= Ticks
        BY <3>2, <3>3, <3>4, <3>5, <4>2
      <4>3. QED
        BY <3>2, <3>3, <4>1, <4>2
    <3>8. QED
      BY <3>2, <3>3, <3>6, <3>7 DEF Counts
  <2>4. \A t \in Task : Rest(K, H, t) \in Int
    BY RestFacts, Numbers
  <2>5. Later(K, H, x1, H1, n + 1)
    <3>1. SUFFICES ASSUME NEW t \in Task
                   PROVE  Rest(x1, H1, t) = IF Rest(K, H, t) > n + 1
                                            THEN Rest(K, H, t) - (n + 1) ELSE 0
      BY DEF Later
    <3>2. /\ Rest(x, H0, t) = IF Rest(K, H, t) > n THEN Rest(K, H, t) - n ELSE 0
          /\ Rest(x1, H1, t) = IF Rest(x, H0, t) > 1 THEN Rest(x, H0, t) - 1 ELSE 0
      BY <2>1, <2>2 DEF Later
    <3>3. QED
      BY <2>4, <3>2
  <2>6. QED
    BY <2>2, <2>5, <2>3 DEF x1
<1> HIDE DEF S, Fine, After
<1>6. StaysIn(F, S)
  BY <1>4 DEF StaysIn
<1>7. counted = [n \in 0 .. N |-> IF n = 0 THEN K ELSE vTaskIncrementTick(counted[n - 1])]
  <2> HIDE DEF F, N
  <2>1. PICK g : IsLoop(g, F, S, K, N)
    BY <1>1, <1>2, <1>6, Iterates
  <2>2. g \in [0 .. N -> S] /\ g[0] = K /\ \A n \in 1 .. N : g[n] = F[g[n - 1]]
    BY <2>1 DEF IsLoop
  <2>3. ASSUME NEW n \in 0 .. N
        PROVE  g[n] = IF n = 0 THEN K ELSE vTaskIncrementTick(g[n - 1])
    <3>1. CASE n # 0
      <4>1. n \in 1 .. N /\ n - 1 \in 0 .. N
        BY <1>1, <3>1
      <4>2. g[n - 1] \in S
        BY <2>2, <4>1
      <4>3. QED
        BY <2>2, <3>1, <4>1, <4>2 DEF F
    <3>2. QED
      BY <2>2, <3>1
  <2>4. g = [n \in 0 .. N |-> IF n = 0 THEN K ELSE vTaskIncrementTick(g[n - 1])]
    BY <2>2, <2>3
  <2> DEFINE OK(w) == w = [n \in 0 .. N |-> IF n = 0 THEN K ELSE vTaskIncrementTick(w[n - 1])]
  <2>5. \E w : OK(w)
    BY <2>4
  <2>6. OK(CHOOSE w : OK(w))
    BY <2>5, Zenon
  <2>7. QED
    BY <2>6, Zenon
<1> HIDE DEF counted
<1> DEFINE T == {n \in Nat : n <= N => counted[n] \in S /\ After(counted[n], n)}
<1>8. N \in T
  <2>1. 0 \in T
    <3>1. counted[0] = K
      BY <1>1, <1>7
    <3>2. QED
      BY <1>1, <1>2, <3>1
  <2>2. ASSUME NEW n \in Nat, n \in T PROVE n + 1 \in T
    <3>1. SUFFICES ASSUME n + 1 <= N
                   PROVE  counted[n + 1] \in S /\ After(counted[n + 1], n + 1)
      OBVIOUS
    <3>2. n \in 0 .. N /\ n + 1 \in 0 .. N /\ n + 1 # 0 /\ (n + 1) - 1 = n
      BY <1>1, <3>1
    <3>3. counted[n + 1] = vTaskIncrementTick(counted[n])
      BY <1>7, <3>2
    <3>4. counted[n] \in S /\ After(counted[n], n)
      BY <2>2, <3>2
    <3>5. QED
      BY <1>4, <1>5, <3>3, <3>4
  <2> HIDE DEF T
  <2>3. QED
    BY <1>1, <2>1, <2>2, Induction
<1>9. counted[N] \in S /\ After(counted[N], N)
  BY <1>1, <1>8
<1>10. N = 0 => counted[N] = K
  BY <1>1, <1>7
<1>11. PICK H1 \in [Task -> Places] :
        /\ Fine(counted[N], H1) /\ Later(K, H, counted[N], H1, N)
        /\ Counts(K, counted[N], N)
  BY <1>9 DEF After
<1>12. CountMissed(K) = counted[N]
  BY Zenon DEF CountMissed, counted
<1>13. QED
  BY <1>10, <1>11, <1>12 DEF Fine

-----------------------------------------------------------------------------
(* What calls make of the record                                             *)

\* Times is about these fields alone.
LEMMA TimesAlike ==
  ASSUME NEW K, NEW H, Times(K, H), NEW k1,
         k1.wake = K.wake, k1.tick = K.tick, k1.next = K.next
  PROVE  Times(k1, H)
BY DEF Times

\* k1 is K but for what was missed while the scheduler was suspended.
HasMissed(K, k1, x, y) ==
  /\ k1.locks = K.locks /\ k1.running = K.running /\ k1.current = K.current
  /\ k1.tick = K.tick /\ k1.item = K.item /\ k1.prio = K.prio /\ k1.base = K.base
  /\ k1.missed = x /\ k1.missedYield = y /\ k1.pending = K.pending
  /\ k1.wake = K.wake

\* The scheduler's own counters, which no list depends on.
LEMMA SetLocks ==
  ASSUME NEW K, NEW H, Good(K, H), NEW x \in {0, 1}
  PROVE  LET k1 == [K EXCEPT !.locks = x] IN
    /\ Good(k1, H) /\ (Times(K, H) => Times(k1, H))
    /\ k1.locks = x /\ k1.running = K.running /\ k1.current = K.current
    /\ k1.tick = K.tick /\ k1.item = K.item /\ k1.prio = K.prio /\ k1.base = K.base
    /\ k1.missed = K.missed /\ k1.missedYield = K.missedYield /\ k1.pending = K.pending
    /\ k1.wake = K.wake
<1> DEFINE k1 == [K EXCEPT !.locks = x]
<1>1. K \in Kernels
  BY DEF Good
<1>2. k1 \in Kernels
  BY <1>1 DEF Kernels
<1>3. /\ k1.ready = K.ready /\ k1.delayed = K.delayed /\ k1.overflow = K.overflow
      /\ k1.terminated = K.terminated /\ k1.suspended = K.suspended
      /\ k1.wake = K.wake /\ k1.pending = K.pending /\ k1.top = K.top
      /\ k1.next = K.next /\ k1.tick = K.tick /\ k1.prio = K.prio
  BY <1>1 DEF Kernels
<1>4. /\ k1.locks = x /\ k1.running = K.running /\ k1.current = K.current
      /\ k1.item = K.item /\ k1.base = K.base
      /\ k1.missed = K.missed /\ k1.missedYield = K.missedYield
  BY <1>1 DEF Kernels
<1> HIDE DEF k1
<1>5. Good(k1, H)
  BY <1>2, <1>3, GoodAlike
<1>6. Times(K, H) => Times(k1, H)
  BY <1>3, TimesAlike
<1>7. QED
  BY <1>3, <1>4, <1>5, <1>6 DEF k1

\* What was missed is counted or forgotten.
LEMMA SetMissed ==
  ASSUME NEW K, NEW H, Good(K, H), NEW x \in Nat, NEW y \in BOOLEAN
  PROVE  LET k1 == [K EXCEPT !.missed = x, !.missedYield = y] IN
    /\ Good(k1, H) /\ (Times(K, H) => Times(k1, H)) /\ HasMissed(K, k1, x, y)
<1> DEFINE k1 == [K EXCEPT !.missed = x, !.missedYield = y]
<1>1. K \in Kernels
  BY DEF Good
<1>2. k1 \in Kernels
  BY <1>1 DEF Kernels
<1>3. /\ k1.ready = K.ready /\ k1.delayed = K.delayed /\ k1.overflow = K.overflow
      /\ k1.terminated = K.terminated /\ k1.suspended = K.suspended
      /\ k1.wake = K.wake /\ k1.pending = K.pending /\ k1.top = K.top
      /\ k1.next = K.next /\ k1.tick = K.tick /\ k1.prio = K.prio
  BY <1>1 DEF Kernels
<1>4. /\ k1.locks = K.locks /\ k1.running = K.running /\ k1.current = K.current
      /\ k1.item = K.item /\ k1.base = K.base
      /\ k1.missed = x /\ k1.missedYield = y
  BY <1>1 DEF Kernels
<1> HIDE DEF k1
<1>5. Good(k1, H)
  BY <1>2, <1>3, GoodAlike
<1>6. Times(K, H) => Times(k1, H)
  BY <1>3, TimesAlike
<1>7. QED
  BY <1>3, <1>4, <1>5, <1>6 DEF k1, HasMissed

\* In H1 only those that sleep in H, or are pending in K, may be elsewhere.
Settled(K, H, H1) ==
  \A t \in Task : \/ H1[t] = H[t]
                  \/ H[t] \in Asleep /\ H1[t] \in Asleep \cup {"ready"}
                  \/ Contains(K.pending, t) /\ H1[t] = "ready"

\* The fields that nothing below changes.
LEMMA OtherFieldsKept ==
  ASSUME NEW K \in Kernels, NEW x, NEW y
  PROVE  /\ [K EXCEPT !.locks = x].waiting = K.waiting
         /\ [K EXCEPT !.locks = x].overflows = K.overflows
         /\ [K EXCEPT !.missed = x, !.missedYield = y].waiting = K.waiting
         /\ [K EXCEPT !.missed = x, !.missedYield = y].overflows = K.overflows
         /\ [K EXCEPT !.missed = x, !.missedYield = y].item = K.item
         /\ vTaskSwitchContext(K).waiting = K.waiting
         /\ vTaskSwitchContext(K).overflows = K.overflows
         /\ vTaskSwitchContext(K).item = K.item
<1>1. /\ [K EXCEPT !.locks = x].waiting = K.waiting
      /\ [K EXCEPT !.locks = x].overflows = K.overflows
      /\ [K EXCEPT !.missed = x, !.missedYield = y].waiting = K.waiting
      /\ [K EXCEPT !.missed = x, !.missedYield = y].overflows = K.overflows
      /\ [K EXCEPT !.missed = x, !.missedYield = y].item = K.item
  BY DEF Kernels
<1>2. /\ vTaskSwitchContext(K).waiting = K.waiting
      /\ vTaskSwitchContext(K).overflows = K.overflows
      /\ vTaskSwitchContext(K).item = K.item
  BY DEF vTaskSwitchContext, Kernels
<1>3. QED
  BY <1>1, <1>2

\* The pending tasks are ready, for the others n ticks have passed.
Resting(K, H, k1, H1, n) ==
  \A t \in Task :
    IF Contains(K.pending, t) THEN H1[t] = "ready"
    ELSE Rest(k1, H1, t) = IF Rest(K, H, t) > n THEN Rest(K, H, t) - n ELSE 0

\* Who sleeps on through two steps sleeps through both.
LEMMA RestingAll ==
  ASSUME NEW K, NEW H, NEW k1, NEW H1, NEW n \in Nat, Resting(K, H, k1, H1, n),
         \A t \in Task : Contains(K.pending, t) => H[t] = "suspended"
  PROVE  Later(K, H, k1, H1, n)
<1>1. ASSUME NEW t \in Task, Contains(K.pending, t)
      PROVE  Rest(k1, H1, t) = 0 /\ Rest(K, H, t) = 0
  BY <1>1 DEF Resting, Rest
<1>2. \A t \in Task :
        Rest(k1, H1, t) = IF Rest(K, H, t) > n THEN Rest(K, H, t) - n ELSE 0
  BY <1>1 DEF Resting
<1>3. QED
  BY <1>2 DEF Later

\* xTaskResumeAll: nothing is left to be caught up with; either the context was
\* switched, or the current task is the highest if it was.
LEMMA ResumedAll ==
  ASSUME NEW K, NEW H, Good(K, H), Times(K, H), K.locks = 1, K.current \in Task,
         NEW i \in Task, H[i] = "ready"
  PROVE  LET k1 == xTaskResumeAll(K) IN
         \E H1 \in [Task -> Places] :
           /\ Good(k1, H1) /\ Times(k1, H1) /\ Settled(K, H, H1)
           /\ k1.running = K.running /\ k1.prio = K.prio /\ k1.base = K.base
           /\ k1.locks = 0 /\ k1.missed = 0 /\ k1.missedYield = FALSE /\ k1.pending = <<>>
           /\ AlreadyYielded(K) => Highest(k1, H1)
           /\ ~AlreadyYielded(K) => k1.current = K.current
           /\ Highest(K, H) => Highest(k1, H1)
           /\ Resting(K, H, k1, H1, K.missed) /\ k1.item = K.item
           /\ Leave(K, H, k1, H1) /\ Counts(K, k1, K.missed)
<1> DEFINE a == [K EXCEPT !.locks = @ - 1]
           b == UnblockPending(a)
           c == CountMissed(b)
           d == CatchUp(a)
<1>1. K \in Kernels /\ K.pending \in Seq(Task) /\ \A t \in Task : K.prio[t] \in Nat
  BY Numbers, KernelNumbers DEF Good, Kernels, Lists
<1>2. a = [K EXCEPT !.locks = 0]
  BY <1>1
<1>3. d = [c EXCEPT !.missed = 0, !.missedYield = FALSE]
  BY DEF CatchUp
<1>4. xTaskResumeAll(K) = IF a.locks > 0 THEN a
                          ELSE IF AlreadyYielded(K) THEN vTaskSwitchContext(d) ELSE d
  BY DEF xTaskResumeAll
<1> HIDE DEF a
<1>5. /\ Good(a, H) /\ Times(a, H) /\ a.locks = 0
      /\ a.running = K.running /\ a.current = K.current /\ a.tick = K.tick
      /\ a.prio = K.prio /\ a.base = K.base
      /\ a.missed = K.missed /\ a.missedYield = K.missedYield /\ a.pending = K.pending
      /\ a.wake = K.wake /\ a.item = K.item
  BY <1>2, SetLocks
<1>6. a.waiting = K.waiting /\ a.overflows = K.overflows
  BY <1>1, <1>2, OtherFieldsKept
<1>7. PICK H1 \in [Task -> Places] :
        /\ Good(b, H1) /\ Times(b, H1) /\ Same(a, b) /\ Moved(a, H, H1)
        /\ b.pending = <<>> /\ Recalled(a, H, b, H1)
        /\ Leave(a, H, b, H1) /\ b.overflows = a.overflows
  BY <1>5, UnblockedPending
<1> HIDE DEF b
<1>8. b.locks = 0 /\ b.missed = K.missed
  BY <1>5, <1>7 DEF Same
<1>9. PICK H2 \in [Task -> Places] :
        /\ Good(c, H2) /\ Times(c, H2) /\ SameButTick(b, c) /\ Rested(H1, H2)
        /\ c.pending = b.pending
        /\ b.missed = 0 => c = b
        /\ Later(b, H1, c, H2, b.missed)
        /\ Leave(b, H1, c, H2) /\ Counts(b, c, b.missed)
  BY <1>7, <1>8, CountedMissed
<1> HIDE DEF c
<1> HIDE DEF d
<1>10. /\ Good(d, H2) /\ Times(d, H2)
      /\ d.locks = c.locks /\ d.running = c.running /\ d.current = c.current
      /\ d.prio = c.prio /\ d.base = c.base
      /\ d.missed = 0 /\ d.missedYield = FALSE /\ d.pending = c.pending
      /\ d.wake = c.wake /\ d.tick = c.tick
      /\ d.waiting = c.waiting /\ d.overflows = c.overflows /\ d.item = c.item
  <2>1. 0 \in Nat /\ FALSE \in BOOLEAN
    OBVIOUS
  <2> DEFINE e == [c EXCEPT !.missed = 0, !.missedYield = FALSE]
  <2>2. /\ Good(e, H2) /\ (Times(c, H2) => Times(e, H2))
        /\ HasMissed(c, e, 0, FALSE)
    BY <1>9, <2>1, SetMissed
  <2>3. /\ e.waiting = c.waiting /\ e.overflows = c.overflows /\ e.item = c.item
    BY <1>9, OtherFieldsKept DEF Good
  <2>4. QED
    BY <1>3, <1>9, <2>2, <2>3, Zenon DEF HasMissed
<1>11. /\ d.locks = 0 /\ d.running = K.running /\ d.current = K.current
       /\ d.prio = K.prio /\ d.base = K.base /\ d.pending = <<>> /\ d.item = K.item
  BY <1>5, <1>7, <1>9, <1>10 DEF Same, SameButTick
<1>12. Settled(K, H, H2)
  BY <1>5, <1>7, <1>9 DEF Settled, Moved, Rested, Asleep
<1>13. H2[i] = "ready"
  BY <1>12 DEF Settled, Asleep
<1>14. a.locks = 0
  BY <1>5
<1>15. ASSUME NEW e, e.wake = d.wake, e.tick = d.tick
       PROVE  Resting(K, H, e, H2, K.missed)
  <2>1. \A t \in Task : Rest(e, H2, t) = Rest(c, H2, t)
    BY <1>10, <1>15, RestAlike
  <2>2. \A t \in Task : Rest(a, H, t) = Rest(K, H, t)
    BY <1>5, RestAlike
  <2>3. ASSUME NEW t \in Task
        PROVE  IF Contains(K.pending, t) THEN H1[t] = "ready"
               ELSE Rest(b, H1, t) = Rest(K, H, t)
    BY <1>5, <1>7, <2>2, EmptyList DEF Recalled
  <2>4. \A t \in Task : H1[t] = "ready" => H2[t] = "ready"
    BY <1>9 DEF Leave
  <2>5. ASSUME NEW t \in Task
        PROVE  Rest(c, H2, t) = IF Rest(b, H1, t) > K.missed
                                THEN Rest(b, H1, t) - K.missed ELSE 0
    BY <1>8, <1>9 DEF Later
  <2>6. QED
    BY <2>1, <2>3, <2>4, <2>5 DEF Resting
<1>16. ASSUME NEW e, e.waiting = d.waiting, e.tick = d.tick, e.overflows = d.overflows
       PROVE  Leave(K, H, e, H2) /\ Counts(K, e, K.missed)
  <2>1. Leave(K, H, a, H) /\ Leave(c, H2, e, H2)
    BY <1>10, <1>6, <1>16, NobodyLeaves
  <2>2. Leave(K, H, b, H1)
    BY <1>7, <2>1, LeaveOn
  <2>3. Leave(K, H, c, H2)
    BY <1>9, <2>2, LeaveOn
  <2>4. Leave(K, H, e, H2)
    BY <2>1, <2>3, LeaveOn
  <2>5. b.tick = K.tick /\ b.overflows = K.overflows
    BY <1>5, <1>7, <1>6 DEF Same
  <2>6. Counts(b, c, K.missed)
    BY <1>8, <1>9
  <2>7. QED
    BY <1>10, <1>16, <2>4, <2>5, <2>6 DEF Counts
<1>17. CASE AlreadyYielded(K)
  <2> DEFINE k1 == vTaskSwitchContext(d)
  <2>1. xTaskResumeAll(K) = k1
    BY <1>4, <1>14, <1>17
  <2>2. /\ Good(k1, H2) /\ Highest(k1, H2) /\ SameButCurrent(d, k1)
        /\ k1.pending = d.pending /\ Times(k1, H2)
    BY <1>10, <1>11, <1>13, Switched
  <2>3. k1.waiting = d.waiting /\ k1.overflows = d.overflows
    BY <1>10, OtherFieldsKept DEF Good
  <2> HIDE DEF k1
  <2>4. Leave(K, H, k1, H2) /\ Counts(K, k1, K.missed)
    BY <1>16, <2>2, <2>3 DEF SameButCurrent
  <2>5. QED
    BY <1>9, <1>10, <1>11, <1>12, <1>17, <1>15, <2>1, <2>2, <2>4 DEF SameButCurrent
<1>18. CASE ~AlreadyYielded(K)
  <2>1. xTaskResumeAll(K) = d
    BY <1>4, <1>14, <1>18
  <2>2. K.missed = 0 /\ \A t \in Task : Contains(K.pending, t) => ~(K.prio[t] >= K.prio[K.current])
    <3>1. K.missed = 0
      BY <1>1, <1>18, KernelNumbers DEF AlreadyYielded
    <3>2. ASSUME NEW t \in Task, Contains(K.pending, t) PROVE ~(K.prio[t] >= K.prio[K.current])
      <4>1. PICK j \in 1 .. Len(K.pending) : K.pending[j] = t
        BY <3>2 DEF Contains
      <4>2. QED
        BY <1>18, <4>1 DEF AlreadyYielded
    <3>3. QED
      BY <3>1, <3>2
  <2>3. c = b
    BY <1>8, <1>9, <2>2
  <2>4. \A t \in Task : H2[t] = "ready" => H1[t] = "ready"
    <3>1. \A t \in Task, p \in Prio : Contains(b.ready[p], t) => H1[t] = "ready"
      BY <1>7 DEF Good, HasPlace
    <3>2. \A t \in Task : H2[t] = "ready" => Contains(b.ready[b.prio[t]], t) /\ b.prio[t] \in Prio
      BY <1>9, <2>3, KernelNumbers DEF Good, HasPlace
    <3>3. QED
      BY <3>1, <3>2
  <2>5. ASSUME Highest(K, H) PROVE Highest(d, H2)
    <3>1. H[K.current] = "ready" /\ \A t \in Task : H[t] = "ready" => K.prio[t] <= K.prio[K.current]
      BY <2>5 DEF Highest
    <3>2. H2[K.current] = "ready"
      BY <1>12, <3>1 DEF Settled, Asleep
    <3>3. ASSUME NEW t \in Task, H2[t] = "ready" PROVE K.prio[t] <= K.prio[K.current]
      <4>1. H1[t] = "ready"
        BY <2>4, <3>3
      <4>2. H[t] = "ready" \/ Contains(K.pending, t)
        BY <1>5, <1>7, <4>1 DEF Moved
      <4>3. QED
        BY <1>1, <2>2, <3>1, <4>2
    <3>4. QED
      BY <1>11, <3>2, <3>3 DEF Highest
  <2>6. Leave(K, H, d, H2) /\ Counts(K, d, K.missed)
    BY <1>16
  <2>7. QED
    BY <1>10, <1>11, <1>12, <1>18, <1>15, <2>1, <2>5, <2>6
<1>19. QED
  BY <1>17, <1>18

\* The current task, which is in no list, goes to sleep until the counter is at time.
LEMMA Slept ==
  ASSUME NEW K, NEW H, Good(K, H), Times(K, H), K.current \in Task,
         H[K.current] = "none", NEW time \in 0 .. MaxDelay, time # K.tick
  PROVE  LET k1 == prvAddCurrentTaskToDelayedList(K, time)
             l  == IF time < K.tick THEN "overflow" ELSE "delayed"
             H1 == [H EXCEPT ![K.current] = l] IN
    /\ Good(k1, H1) /\ Times(k1, H1) /\ Same(K, k1) /\ k1.pending = K.pending
    /\ k1.wake[K.current] = time
    /\ \A u \in Task \ {K.current} : k1.wake[u] = K.wake[u]
<1> DEFINE t        == K.current
           wake     == [K.wake EXCEPT ![t] = time]
           overflow == vListInsert(K.overflow, t, wake)
           delayed  == vListInsert(K.delayed, t, wake)
           next     == IF time < K.next THEN time ELSE K.next
           k1       == prvAddCurrentTaskToDelayedList(K, time)
           l        == IF time < K.tick THEN "overflow" ELSE "delayed"
           H1       == [H EXCEPT ![t] = l]
<1>1. /\ K \in Kernels /\ H \in [Task -> Places] /\ K.wake \in [Task -> 0 .. MaxDelay]
      /\ K.delayed \in Lists /\ K.overflow \in Lists
      /\ K.tick \in 0 .. MaxDelay /\ K.next \in 0 .. MaxDelay
      /\ time \in Int /\ K.tick \in Int /\ K.next \in Int
  BY Numbers DEF Good, Kernels
<1>2. /\ wake \in [Task -> 0 .. MaxDelay] /\ \A u \in Task : wake[u] \in Int
      /\ wake[t] = time /\ \A u \in Task \ {t} : wake[u] = K.wake[u]
  BY <1>1, Numbers
<1>3. /\ ~Contains(K.delayed, t) /\ ~Contains(K.overflow, t) /\ ~Contains(K.terminated, t)
      /\ t \notin K.suspended /\ ~Contains(K.pending, t)
      /\ \A p \in Prio : ~Contains(K.ready[p], t)
  BY DEF Good, Stopped, HasPlace
<1>4. InOrder(K.delayed, wake) /\ InOrder(K.overflow, wake)
  BY <1>1, <1>3, OrderElsewhere DEF Good
<1>5. next \in 0 .. MaxDelay /\ next <= time /\ next <= K.next
  BY <1>1
<1>6. H1 \in [Task -> Places] /\ H1[t] = l /\ \A u \in Task \ {t} : H1[u] = H[u]
  BY <1>1 DEF Places
<1>7. /\ (time < K.tick => l = "overflow") /\ (~(time < K.tick) => l = "delayed")
  OBVIOUS
<1> HIDE DEF wake, next, l, H1
<1>8. /\ delayed \in Lists /\ InOrder(delayed, wake)
      /\ \A u : Contains(delayed, u) <=> Contains(K.delayed, u) \/ u = t
  BY <1>1, <1>2, <1>3, <1>4, InsertFacts DEF List
<1>9. /\ overflow \in Lists /\ InOrder(overflow, wake)
      /\ \A u : Contains(overflow, u) <=> Contains(K.overflow, u) \/ u = t
  BY <1>1, <1>2, <1>3, <1>4, InsertFacts DEF List
<1>10. k1 = IF time < K.tick
            THEN [K EXCEPT !.wake = wake, !.overflow = overflow]
            ELSE [K EXCEPT !.wake = wake, !.delayed = delayed, !.next = next]
  BY <1>1 DEF prvAddCurrentTaskToDelayedList, wake, next, Kernels
<1> HIDE DEF overflow, delayed, k1
<1>11. CASE time < K.tick
  <2>1. k1 = [K EXCEPT !.wake = wake, !.overflow = overflow]
    BY <1>10, <1>11
  <2>2. k1 \in Kernels
    BY <1>1, <1>2, <1>9, <2>1 DEF Kernels
  <2>3. /\ k1.ready = K.ready /\ k1.delayed = K.delayed /\ k1.overflow = overflow
        /\ k1.terminated = K.terminated /\ k1.suspended = K.suspended
        /\ k1.wake = wake /\ k1.pending = K.pending /\ k1.top = K.top
        /\ k1.next = K.next
    BY <1>1, <2>1 DEF Kernels
  <2>4. Same(K, k1)
    BY <1>1, <2>1 DEF Kernels, Same
  <2>5. k1.prio = K.prio /\ k1.tick = K.tick
    BY <2>4 DEF Same
  <2>6. ASSUME NEW u \in Task PROVE HasPlace(k1, u, H1[u])
    <3>1. HasPlace(K, u, H[u])
      BY DEF Good
    <3>2. CASE u = t
      BY <1>3, <1>6, <1>7, <1>9, <1>11, <2>3, <3>2 DEF HasPlace
    <3>3. CASE u # t
      BY <1>6, <1>9, <2>3, <2>5, <3>1, <3>3 DEF HasPlace
    <3>4. QED
      BY <3>2, <3>3
  <2>7. Good(k1, H1)
    <3>1. InOrder(k1.delayed, k1.wake) /\ InOrder(k1.overflow, k1.wake)
      BY <1>4, <1>9, <2>3
    <3>2. \A u \in Task : H1[u] = "ready" => k1.prio[u] <= k1.top
      BY <1>6, <1>7, <1>11, <2>3, <2>5 DEF Good
    <3>3. \A u \in Task : Contains(k1.pending, u) => H1[u] \in Stopped
      BY <1>3, <1>6, <2>3 DEF Good, Stopped
    <3>4. QED
      BY <1>6, <2>2, <2>6, <3>1, <3>2, <3>3 DEF Good, Stopped
  <2>8. Times(k1, H1)
    BY <1>2, <1>6, <1>7, <1>11, <2>3, <2>5 DEF Times
  <2>9. QED
    BY <1>2, <2>3, <2>4, <2>7, <2>8 DEF k1, H1, l
<1>12. CASE ~(time < K.tick)
  <2>1. k1 = [K EXCEPT !.wake = wake, !.delayed = delayed, !.next = next]
    BY <1>10, <1>12
  <2>2. k1 \in Kernels
    BY <1>1, <1>2, <1>5, <1>8, <2>1 DEF Kernels
  <2>3. /\ k1.ready = K.ready /\ k1.delayed = delayed /\ k1.overflow = K.overflow
        /\ k1.terminated = K.terminated /\ k1.suspended = K.suspended
        /\ k1.wake = wake /\ k1.pending = K.pending /\ k1.top = K.top
        /\ k1.next = next
    BY <1>1, <2>1 DEF Kernels
  <2>4. Same(K, k1)
    BY <1>1, <2>1 DEF Kernels, Same
  <2>5. k1.prio = K.prio /\ k1.tick = K.tick
    BY <2>4 DEF Same
  <2>6. ASSUME NEW u \in Task PROVE HasPlace(k1, u, H1[u])
    <3>1. HasPlace(K, u, H[u])
      BY DEF Good
    <3>2. CASE u = t
      BY <1>3, <1>6, <1>7, <1>8, <1>12, <2>3, <3>2 DEF HasPlace
    <3>3. CASE u # t
      BY <1>6, <1>8, <2>3, <2>5, <3>1, <3>3 DEF HasPlace
    <3>4. QED
      BY <3>2, <3>3
  <2>7. Good(k1, H1)
    <3>1. InOrder(k1.delayed, k1.wake) /\ InOrder(k1.overflow, k1.wake)
      BY <1>4, <1>8, <2>3
    <3>2. \A u \in Task : H1[u] = "ready" => k1.prio[u] <= k1.top
      BY <1>6, <1>7, <1>12, <2>3, <2>5 DEF Good
    <3>3. \A u \in Task : Contains(k1.pending, u) => H1[u] \in Stopped
      BY <1>3, <1>6, <2>3 DEF Good, Stopped
    <3>4. QED
      BY <1>6, <2>2, <2>6, <3>1, <3>2, <3>3 DEF Good, Stopped
  <2>8. Times(k1, H1)
    <3>1. ASSUME NEW u \in Task \ {t}, H1[u] = "delayed"
          PROVE  k1.wake[u] > k1.tick /\ k1.next <= k1.wake[u]
      <4>1. K.wake[u] > K.tick /\ K.next <= K.wake[u] /\ K.wake[u] \in Int /\ next \in Int
        BY <1>1, <1>5, <1>6, <3>1, Numbers, KernelNumbers DEF Times
      <4>2. QED
        BY <1>1, <1>2, <1>5, <2>3, <2>5, <4>1
    <3>2. k1.wake[t] > k1.tick /\ k1.next <= k1.wake[t] /\ H1[t] = "delayed"
      BY <1>1, <1>2, <1>5, <1>6, <1>7, <1>12, <2>3, <2>5
    <3>3. \A u \in Task : H1[u] = "overflow" => k1.wake[u] < k1.tick
      BY <1>2, <1>6, <2>3, <2>5, <3>2 DEF Times
    <3>4. QED
      BY <3>1, <3>2, <3>3 DEF Times
  <2>9. QED
    BY <1>2, <2>3, <2>4, <2>7, <2>8 DEF k1, H1, l
<1>13. QED
  BY <1>11, <1>12

\* The current task leaves the ready list for one of the delayed ones.
LEMMA Delayed ==
  ASSUME NEW K, NEW H, Good(K, H), Times(K, H), K.current \in Task,
         H[K.current] = "ready", NEW time \in 0 .. MaxDelay, time # K.tick
  PROVE  LET k1 == DelayCurrent(K, time)
             l  == IF time < K.tick THEN "overflow" ELSE "delayed"
             H1 == [H EXCEPT ![K.current] = l] IN
    /\ Good(k1, H1) /\ Times(k1, H1) /\ Same(K, k1) /\ k1.pending = K.pending
    /\ k1.wake[K.current] = time
    /\ \A u \in Task \ {K.current} : k1.wake[u] = K.wake[u]
<1> DEFINE t  == K.current
           k0 == RemoveGenericItem(K, t)
           H0 == [H EXCEPT ![t] = "none"]
           l  == IF time < K.tick THEN "overflow" ELSE "delayed"
           k1 == prvAddCurrentTaskToDelayedList(k0, time)
           H1 == [H EXCEPT ![t] = l]
<1>1. H \in [Task -> Places] /\ ~Contains(K.pending, t)
  BY DEF Good, Stopped
<1>2. /\ Good(k0, H0) /\ Same(K, k0) /\ k0.pending = K.pending /\ Times(k0, H0)
      /\ \A u \in Task \ {t} : k0.wake[u] = K.wake[u]
  BY <1>1, RemovedGenericItem
<1>3. k0.current = t /\ k0.tick = K.tick
  BY <1>2 DEF Same
<1>4. H0[t] = "none" /\ [H0 EXCEPT ![t] = l] = H1
  BY <1>1
<1> HIDE DEF k0, H0
<1>5. /\ Good(k1, [H0 EXCEPT ![t] = l]) /\ Times(k1, [H0 EXCEPT ![t] = l]) /\ Same(k0, k1)
      /\ k1.pending = k0.pending /\ k1.wake[t] = time
      /\ \A u \in Task \ {t} : k1.wake[u] = k0.wake[u]
  BY <1>2, <1>3, <1>4, Slept
<1>6. DelayCurrent(K, time) = k1
  BY DEF DelayCurrent, k0
<1> HIDE DEF k1, H1, l
<1>7. Same(K, k1)
  BY <1>2, <1>5 DEF Same
<1>8. QED
  BY <1>2, <1>4, <1>5, <1>6, <1>7 DEF H1, l

\* A task that is in no list is suspended.
LEMMA Suspended ==
  ASSUME NEW K, NEW H, Good(K, H), NEW t \in Task, H[t] = "none"
  PROVE  LET k1 == [K EXCEPT !.suspended = @ \cup {t}]
             H1 == [H EXCEPT ![t] = "suspended"] IN
    /\ Good(k1, H1) /\ (Times(K, H) => Times(k1, H1)) /\ Same(K, k1)
    /\ k1.pending = K.pending /\ k1.wake = K.wake
<1> DEFINE s  == K.suspended \cup {t}
           k1 == [K EXCEPT !.suspended = @ \cup {t}]
           H1 == [H EXCEPT ![t] = "suspended"]
<1>1. K \in Kernels /\ H \in [Task -> Places] /\ s \subseteq Task
  BY DEF Good, Kernels
<1>2. H1 \in [Task -> Places] /\ H1[t] = "suspended" /\ \A u \in Task \ {t} : H1[u] = H[u]
  BY <1>1 DEF Places
<1>3. k1 = [K EXCEPT !.suspended = s]
  BY <1>1 DEF Kernels
<1>4. \A u \in Task : u \in s <=> u \in K.suspended \/ u = t
  OBVIOUS
<1> HIDE DEF s, k1, H1
<1>5. k1 \in Kernels
  BY <1>1, <1>3 DEF Kernels
<1>6. /\ k1.ready = K.ready /\ k1.delayed = K.delayed /\ k1.overflow = K.overflow
      /\ k1.terminated = K.terminated /\ k1.suspended = s
      /\ k1.wake = K.wake /\ k1.pending = K.pending /\ k1.top = K.top
      /\ k1.next = K.next /\ k1.tick = K.tick /\ k1.prio = K.prio
  BY <1>1, <1>3 DEF Kernels
<1>7. Same(K, k1)
  BY <1>1, <1>3 DEF Kernels, Same
<1>8. ASSUME NEW u \in Task PROVE HasPlace(k1, u, H1[u])
  BY <1>2, <1>4, <1>6 DEF Good, HasPlace
<1>9. Good(k1, H1)
  BY <1>2, <1>5, <1>6, <1>8 DEF Good, Stopped
<1>10. Times(K, H) => Times(k1, H1)
  BY <1>2, <1>6 DEF Times
<1>11. QED
  BY <1>6, <1>7, <1>9, <1>10 DEF k1, H1

\* A task that is in no list waits for its end.
LEMMA Terminated ==
  ASSUME NEW K, NEW H, Good(K, H), NEW t \in Task, H[t] = "none"
  PROVE  LET k1 == [K EXCEPT !.terminated = Append(@, t)]
             H1 == [H EXCEPT ![t] = "terminated"] IN
    /\ Good(k1, H1) /\ (Times(K, H) => Times(k1, H1)) /\ Same(K, k1)
    /\ k1.pending = K.pending /\ k1.wake = K.wake
<1> DEFINE s  == Append(K.terminated, t)
           k1 == [K EXCEPT !.terminated = Append(@, t)]
           H1 == [H EXCEPT ![t] = "terminated"]
<1>1. K \in Kernels /\ H \in [Task -> Places] /\ K.terminated \in Lists
  BY DEF Good, Kernels
<1>2. H1 \in [Task -> Places] /\ H1[t] = "terminated" /\ \A u \in Task \ {t} : H1[u] = H[u]
  BY <1>1 DEF Places
<1>3. k1 = [K EXCEPT !.terminated = s]
  BY <1>1 DEF Kernels
<1>4. s \in Lists /\ \A u : Contains(s, u) <=> Contains(K.terminated, u) \/ u = t
  <2>1. ~Contains(K.terminated, t)
    BY DEF Good, HasPlace
  <2>2. QED
    BY <1>1, <2>1, AppendToList DEF List
<1> HIDE DEF s, k1, H1
<1>5. k1 \in Kernels
  BY <1>1, <1>3, <1>4 DEF Kernels
<1>6. /\ k1.ready = K.ready /\ k1.delayed = K.delayed /\ k1.overflow = K.overflow
      /\ k1.terminated = s /\ k1.suspended = K.suspended
      /\ k1.wake = K.wake /\ k1.pending = K.pending /\ k1.top = K.top
      /\ k1.next = K.next /\ k1.tick = K.tick /\ k1.prio = K.prio
  BY <1>1, <1>3 DEF Kernels
<1>7. Same(K, k1)
  BY <1>1, <1>3 DEF Kernels, Same
<1>8. ASSUME NEW u \in Task PROVE HasPlace(k1, u, H1[u])
  BY <1>2, <1>4, <1>6 DEF Good, HasPlace
<1>9. Good(k1, H1)
  BY <1>2, <1>5, <1>6, <1>8 DEF Good, Stopped
<1>10. Times(K, H) => Times(k1, H1)
  BY <1>2, <1>6 DEF Times
<1>11. QED
  BY <1>6, <1>7, <1>9, <1>10 DEF k1, H1

\* A stopped task is to be readied when the scheduler is resumed.
LEMMA Pended ==
  ASSUME NEW K, NEW H, Good(K, H), NEW t \in Task, H[t] \in Stopped,
         ~Contains(K.pending, t)
  PROVE  LET k1 == [K EXCEPT !.pending = Append(@, t)] IN
    /\ Good(k1, H) /\ (Times(K, H) => Times(k1, H)) /\ Same(K, k1)
    /\ k1.wake = K.wake
<1> DEFINE s  == Append(K.pending, t)
           k1 == [K EXCEPT !.pending = Append(@, t)]
<1>1. K \in Kernels /\ K.pending \in Lists
  BY DEF Good, Kernels
<1>2. k1 = [K EXCEPT !.pending = s]
  BY <1>1 DEF Kernels
<1>3. s \in Lists /\ \A u : Contains(s, u) <=> Contains(K.pending, u) \/ u = t
  BY <1>1, AppendToList DEF List
<1> HIDE DEF s, k1
<1>4. k1 \in Kernels
  BY <1>1, <1>2, <1>3 DEF Kernels
<1>5. /\ k1.ready = K.ready /\ k1.delayed = K.delayed /\ k1.overflow = K.overflow
      /\ k1.terminated = K.terminated /\ k1.suspended = K.suspended
      /\ k1.wake = K.wake /\ k1.pending = s /\ k1.top = K.top
      /\ k1.next = K.next /\ k1.tick = K.tick /\ k1.prio = K.prio
  BY <1>1, <1>2 DEF Kernels
<1>6. Same(K, k1)
  BY <1>1, <1>2 DEF Kernels, Same
<1>7. ASSUME NEW u \in Task PROVE HasPlace(k1, u, H[u])
  BY <1>5 DEF Good, HasPlace
<1>8. Good(k1, H)
  BY <1>3, <1>4, <1>5, <1>7 DEF Good
<1>9. Times(K, H) => Times(k1, H)
  BY <1>5, TimesAlike
<1>10. QED
  BY <1>5, <1>6, <1>8, <1>9 DEF k1

\* k1 is K but for priorities, lists and times.
SameButPrio(K, k1) ==
  /\ k1.running = K.running /\ k1.current = K.current /\ k1.tick = K.tick
  /\ k1.locks = K.locks /\ k1.missed = K.missed /\ k1.missedYield = K.missedYield
  /\ k1.pending = K.pending

\* Task t has priority p, of its own and inherited, and so has its event item.
OfPriority(K, t, p) == [K EXCEPT !.prio[t] = p, !.base[t] = p, !.item[t] = p]

\* A task that is not ready gets another priority.
LEMMA Reprioritised ==
  ASSUME NEW K, NEW H, Good(K, H), NEW t \in Task, H[t] # "ready", NEW p \in Prio
  PROVE  LET k1 == OfPriority(K, t, p) IN
    /\ Good(k1, H) /\ (Times(K, H) => Times(k1, H))
    /\ k1.prio = [K.prio EXCEPT ![t] = p] /\ k1.base = [K.base EXCEPT ![t] = p]
    /\ SameButPrio(K, k1) /\ k1.wake = K.wake
<1> DEFINE prio == [K.prio EXCEPT ![t] = p]
           base == [K.base EXCEPT ![t] = p]
           item == [K.item EXCEPT ![t] = p]
           k1   == OfPriority(K, t, p)
<1>1. K \in Kernels
  BY DEF Good
<1>2. /\ prio \in [Task -> Prio] /\ base \in [Task -> Prio] /\ item \in [Task -> Prio]
      /\ \A u \in Task \ {t} : prio[u] = K.prio[u]
  BY <1>1 DEF Kernels
<1>3. k1 = [K EXCEPT !.prio = prio, !.base = base, !.item = item]
  BY <1>1 DEF Kernels, OfPriority
<1> HIDE DEF prio, base, item, k1
<1>4. k1 \in Kernels
  BY <1>1, <1>2, <1>3 DEF Kernels
<1>5. /\ k1.ready = K.ready /\ k1.delayed = K.delayed /\ k1.overflow = K.overflow
      /\ k1.terminated = K.terminated /\ k1.suspended = K.suspended
      /\ k1.wake = K.wake /\ k1.pending = K.pending /\ k1.top = K.top
      /\ k1.next = K.next /\ k1.tick = K.tick /\ k1.prio = prio /\ k1.base = base
  BY <1>1, <1>3 DEF Kernels
<1>6. /\ k1.running = K.running /\ k1.current = K.current
      /\ k1.locks = K.locks /\ k1.missed = K.missed /\ k1.missedYield = K.missedYield
  BY <1>1, <1>3 DEF Kernels
<1>7. ASSUME NEW u \in Task PROVE HasPlace(k1, u, H[u])
  BY <1>2, <1>5 DEF Good, HasPlace
<1>8. \A u \in Task : H[u] = "ready" => k1.prio[u] <= k1.top
  BY <1>2, <1>5 DEF Good
<1>9. Good(k1, H)
  BY <1>4, <1>5, <1>7, <1>8 DEF Good
<1>10. Times(K, H) => Times(k1, H)
  BY <1>5, TimesAlike
<1>11. QED
  BY <1>5, <1>6, <1>9, <1>10 DEF k1, prio, base, SameButPrio

\* Task t has got priority p.
Repriced(K, k1, t, p) ==
  /\ k1.prio = [K.prio EXCEPT ![t] = p] /\ k1.base = [K.base EXCEPT ![t] = p]
  /\ SameButPrio(K, k1)

\* H, but t is in l.
Move(H, t, l) == [H EXCEPT ![t] = l]

\* The places after a move.
LEMMA MoveFacts ==
  ASSUME NEW H \in [Task -> Places], NEW t \in Task, NEW l \in Places
  PROVE  /\ Move(H, t, l) \in [Task -> Places] /\ Move(H, t, l)[t] = l
         /\ \A u \in Task \ {t} : Move(H, t, l)[u] = H[u]
BY DEF Move

\* The first of the deleted tasks is freed.
LEMMA Reaped ==
  ASSUME NEW K, NEW H, Good(K, H), K.terminated # <<>>
  PROVE  LET t  == Head(K.terminated)
             k1 == [K EXCEPT !.terminated = Tail(@),
                             !.prio[t] = 0, !.base[t] = 0, !.item[t] = 0]
             H1 == Move(H, t, "none") IN
    /\ t \in Task /\ H[t] = "terminated"
    /\ Good(k1, H1) /\ (Times(K, H) => Times(k1, H1))
    /\ Repriced(K, k1, t, 0) /\ k1.wake = K.wake
<1> DEFINE t  == Head(K.terminated)
           s  == Tail(K.terminated)
           k0 == [K EXCEPT !.terminated = s]
           k1 == [K EXCEPT !.terminated = Tail(@),
                           !.prio[t] = 0, !.base[t] = 0, !.item[t] = 0]
           H1 == [H EXCEPT ![t] = "none"]
<1>1. /\ K \in Kernels /\ H \in [Task -> Places]
      /\ K.terminated \in Lists /\ K.terminated \in Seq(Task)
  BY DEF Good, Kernels, Lists
<1>2. t \in Task /\ Contains(K.terminated, t)
  BY <1>1, SomeoneInList
<1>3. s \in Lists /\ \A u : Contains(s, u) <=> Contains(K.terminated, u) /\ u # t
  BY <1>1, TailOfList DEF List
<1>4. H[t] = "terminated"
  BY <1>2 DEF Good, HasPlace
<1>5. H1 \in [Task -> Places] /\ H1[t] = "none" /\ \A u \in Task \ {t} : H1[u] = H[u]
  BY <1>1, <1>2 DEF Places
<1>6. k1 = OfPriority(k0, t, 0)
  BY <1>1 DEF Kernels, OfPriority
<1> HIDE DEF s, t, H1, k1
<1>7. k0 \in Kernels
  BY <1>1, <1>3 DEF Kernels
<1>8. /\ k0.ready = K.ready /\ k0.delayed = K.delayed /\ k0.overflow = K.overflow
      /\ k0.terminated = s /\ k0.suspended = K.suspended
      /\ k0.wake = K.wake /\ k0.pending = K.pending /\ k0.top = K.top
      /\ k0.next = K.next /\ k0.tick = K.tick /\ k0.prio = K.prio /\ k0.base = K.base
  BY <1>1 DEF Kernels
<1>9. Same(K, k0)
  BY <1>1 DEF Kernels, Same
<1> HIDE DEF k0
<1>10. ASSUME NEW u \in Task PROVE HasPlace(k0, u, H1[u])
  <2>1. HasPlace(K, u, H[u])
    BY DEF Good
  <2>2. CASE u = t
    <3>1. HasPlace(K, u, "terminated")
      BY <1>4, <2>1, <2>2
    <3>2. QED
      BY <1>3, <1>5, <1>8, <2>2, <3>1 DEF HasPlace
  <2>3. CASE u # t
    BY <1>3, <1>5, <1>8, <2>1, <2>3 DEF HasPlace
  <2>4. QED
    BY <2>2, <2>3
<1>11. Good(k0, H1)
  BY <1>4, <1>5, <1>7, <1>8, <1>10 DEF Good, Stopped
<1>12. Times(K, H) => Times(k0, H1)
  BY <1>5, <1>8 DEF Times
<1>13. H1[t] # "ready" /\ 0 \in Prio
  BY <1>5, Numbers
<1>14. /\ Good(k1, H1) /\ (Times(k0, H1) => Times(k1, H1))
       /\ k1.prio = [k0.prio EXCEPT ![t] = 0] /\ k1.base = [k0.base EXCEPT ![t] = 0]
       /\ SameButPrio(k0, k1) /\ k1.wake = k0.wake
  BY <1>2, <1>6, <1>11, <1>13, Reprioritised
<1>15. k0.pending = K.pending
  BY <1>1 DEF Kernels, k0
<1>16. QED
  BY <1>2, <1>4, <1>5, <1>8, <1>9, <1>12, <1>14, <1>15 DEF k1, H1, t, Same, SameButPrio, Repriced, Move

\* Another task is made current.
LEMMA SetCurrent ==
  ASSUME NEW K, NEW H, Good(K, H), NEW t \in Task
  PROVE  LET k1 == [K EXCEPT !.current = t] IN
    /\ Good(k1, H) /\ (Times(K, H) => Times(k1, H)) /\ SameButCurrent(K, k1)
    /\ k1.current = t /\ k1.pending = K.pending
<1> DEFINE k1 == [K EXCEPT !.current = t]
<1>1. K \in Kernels
  BY DEF Good
<1>2. k1 \in Kernels
  BY <1>1 DEF Kernels
<1>3. /\ k1.ready = K.ready /\ k1.delayed = K.delayed /\ k1.overflow = K.overflow
      /\ k1.terminated = K.terminated /\ k1.suspended = K.suspended
      /\ k1.wake = K.wake /\ k1.pending = K.pending /\ k1.top = K.top
      /\ k1.next = K.next /\ k1.tick = K.tick /\ k1.prio = K.prio /\ k1.current = t
  BY <1>1 DEF Kernels
<1>4. SameButCurrent(K, k1)
  BY <1>1 DEF Kernels, SameButCurrent
<1> HIDE DEF k1
<1>5. Good(k1, H)
  BY <1>2, <1>3, GoodAlike
<1>6. Times(K, H) => Times(k1, H)
  BY <1>3, TimesAlike
<1>7. QED
  BY <1>3, <1>4, <1>5, <1>6 DEF k1

\* The scheduler starts.
LEMMA SetRunning ==
  ASSUME NEW K, NEW H, Good(K, H), K.tick = 0
  PROVE  LET k1 == [K EXCEPT !.running = TRUE, !.tick = 0] IN
    /\ Good(k1, H) /\ (Times(K, H) => Times(k1, H))
    /\ k1.running = TRUE /\ k1.tick = 0
    /\ k1.current = K.current /\ k1.prio = K.prio /\ k1.base = K.base
    /\ k1.locks = K.locks /\ k1.missed = K.missed /\ k1.missedYield = K.missedYield
    /\ k1.pending = K.pending /\ k1.wake = K.wake
<1> DEFINE k1 == [K EXCEPT !.running = TRUE, !.tick = 0]
<1>1. K \in Kernels
  BY DEF Good
<1>2. k1 \in Kernels
  BY <1>1, Numbers DEF Kernels
<1>3. /\ k1.ready = K.ready /\ k1.delayed = K.delayed /\ k1.overflow = K.overflow
      /\ k1.terminated = K.terminated /\ k1.suspended = K.suspended
      /\ k1.wake = K.wake /\ k1.pending = K.pending /\ k1.top = K.top
      /\ k1.next = K.next /\ k1.tick = 0 /\ k1.prio = K.prio
  BY <1>1 DEF Kernels
<1>4. /\ k1.running = TRUE /\ k1.current = K.current /\ k1.base = K.base
      /\ k1.locks = K.locks /\ k1.missed = K.missed /\ k1.missedYield = K.missedYield
  BY <1>1 DEF Kernels
<1> HIDE DEF k1
<1>5. Good(k1, H)
  BY <1>2, <1>3, GoodAlike
<1>6. Times(K, H) => Times(k1, H)
  BY <1>3, TimesAlike
<1>7. QED
  BY <1>3, <1>4, <1>5, <1>6 DEF k1

\* A task is created.
LEMMA Created ==
  ASSUME NEW K, NEW H, Good(K, H), NEW t \in Task, H[t] = "none", NEW p \in Prio
  PROVE  LET k1 == NewTask(K, t, p)
             H1 == [H EXCEPT ![t] = "ready"] IN
    /\ Good(k1, H1) /\ (Times(K, H) => Times(k1, H1))
    /\ k1.prio = [K.prio EXCEPT ![t] = p] /\ k1.base = [K.base EXCEPT ![t] = p]
    /\ SameButPrio(K, k1) /\ k1.wake = K.wake
<1> DEFINE k0 == OfPriority(K, t, p)
           k1 == NewTask(K, t, p)
<1>1. /\ Good(k0, H) /\ (Times(K, H) => Times(k0, H))
      /\ k0.prio = [K.prio EXCEPT ![t] = p] /\ k0.base = [K.base EXCEPT ![t] = p]
      /\ SameButPrio(K, k0) /\ k0.wake = K.wake
  BY Reprioritised
<1>2. k1 = prvAddTaskToReadyQueue(k0, t)
  BY DEF NewTask, OfPriority
<1> HIDE DEF k0, k1
<1>3. /\ Good(k1, [H EXCEPT ![t] = "ready"]) /\ Same(k0, k1) /\ k1.pending = k0.pending
      /\ Times(k0, H) => Times(k1, [H EXCEPT ![t] = "ready"])
      /\ k1.wake = k0.wake
  BY <1>1, <1>2, Readied
<1>4. QED
  BY <1>1, <1>3 DEF k1, Same, SameButPrio

\* A suspended task goes on.
LEMMA Continued ==
  ASSUME NEW K, NEW H, Good(K, H), NEW t \in Task, ~Contains(K.pending, t)
  PROVE  LET k1 == prvAddTaskToReadyQueue(RemoveGenericItem(K, t), t)
             H1 == [H EXCEPT ![t] = "ready"] IN
    /\ Good(k1, H1) /\ (Times(K, H) => Times(k1, H1)) /\ Same(K, k1)
    /\ k1.pending = K.pending /\ \A u \in Task \ {t} : k1.wake[u] = K.wake[u]
<1> DEFINE k0 == RemoveGenericItem(K, t)
           H0 == [H EXCEPT ![t] = "none"]
           k1 == prvAddTaskToReadyQueue(k0, t)
<1>1. /\ Good(k0, H0) /\ Same(K, k0) /\ k0.pending = K.pending
      /\ Times(K, H) => Times(k0, H0)
      /\ \A u \in Task \ {t} : k0.wake[u] = K.wake[u]
  BY RemovedGenericItem
<1>2. H0[t] = "none" /\ [H0 EXCEPT ![t] = "ready"] = [H EXCEPT ![t] = "ready"]
  BY DEF Good
<1> HIDE DEF k0, H0
<1>3. /\ Good(k1, [H0 EXCEPT ![t] = "ready"]) /\ Same(k0, k1) /\ k1.pending = k0.pending
      /\ Times(k0, H0) => Times(k1, [H0 EXCEPT ![t] = "ready"])
      /\ k1.wake = k0.wake
  BY <1>1, <1>2, Readied
<1>4. QED
  BY <1>1, <1>2, <1>3 DEF k0, Same

\* A task that is ready gets another priority, and moves to its list.
LEMMA Relisted ==
  ASSUME NEW K, NEW H, Good(K, H), NEW t \in Task, H[t] = "ready",
         ~Contains(K.pending, t), NEW p \in Prio
  PROVE  LET k1 == prvAddTaskToReadyQueue(RemoveGenericItem(OfPriority(K, t, p), t), t) IN
    /\ Good(k1, H) /\ (Times(K, H) => Times(k1, H))
    /\ k1.prio = [K.prio EXCEPT ![t] = p] /\ k1.base = [K.base EXCEPT ![t] = p]
    /\ SameButPrio(K, k1) /\ \A u \in Task \ {t} : k1.wake[u] = K.wake[u]
<1> DEFINE ka == RemoveGenericItem(K, t)
           kb == OfPriority(ka, t, p)
           Ha == [H EXCEPT ![t] = "none"]
           k1 == prvAddTaskToReadyQueue(kb, t)
<1>1. K \in Kernels /\ H \in [Task -> Places]
  BY DEF Good
<1>2. RemoveGenericItem(OfPriority(K, t, p), t) = kb
  <2> DEFINE ready == [q \in Prio |-> Without(K.ready[q], t)]
             wake  == [K.wake EXCEPT ![t] = 0]
             delayed    == Without(K.delayed, t)
             overflow   == Without(K.overflow, t)
             suspended  == K.suspended \ {t}
             terminated == Without(K.terminated, t)
             prio == [K.prio EXCEPT ![t] = p]
             base == [K.base EXCEPT ![t] = p]
             item == [K.item EXCEPT ![t] = p]
  <2>1. OfPriority(K, t, p) = [K EXCEPT !.prio = prio, !.base = base, !.item = item]
    BY <1>1 DEF Kernels, OfPriority
  <2>2. RemoveGenericItem([K EXCEPT !.prio = prio, !.base = base, !.item = item], t)
          = [[K EXCEPT !.prio = prio, !.base = base, !.item = item]
               EXCEPT !.ready = ready, !.delayed = delayed, !.overflow = overflow,
                      !.suspended = suspended, !.terminated = terminated, !.wake = wake]
    BY <1>1 DEF Kernels, RemoveGenericItem
  <2>3. RemoveGenericItem(K, t)
          = [K EXCEPT !.ready = ready, !.delayed = delayed, !.overflow = overflow,
                      !.suspended = suspended, !.terminated = terminated, !.wake = wake]
    BY <1>1 DEF Kernels, RemoveGenericItem
  <2>4. OfPriority(RemoveGenericItem(K, t), t, p)
          = [[K EXCEPT !.ready = ready, !.delayed = delayed, !.overflow = overflow,
                      !.suspended = suspended, !.terminated = terminated, !.wake = wake]
               EXCEPT !.prio = prio, !.base = base, !.item = item]
    <3> HIDE DEF ready, wake, delayed, overflow, suspended, terminated
    <3>1. QED
      BY <1>1, <2>3 DEF Kernels, OfPriority
  <2> HIDE DEF ready, wake, delayed, overflow, suspended, terminated, prio, base, item
  <2> DEFINE a == [[K EXCEPT !.ready = ready, !.delayed = delayed, !.overflow = overflow,
                      !.suspended = suspended, !.terminated = terminated, !.wake = wake]
               EXCEPT !.prio = prio, !.base = base, !.item = item]
             b == [[K EXCEPT !.prio = prio, !.base = base, !.item = item]
               EXCEPT !.ready = ready, !.delayed = delayed, !.overflow = overflow,
                      !.suspended = suspended, !.terminated = terminated, !.wake = wake]
  <2>5. a = b
    BY <1>1 DEF Kernels
  <2> HIDE DEF a, b
  <2>6. RemoveGenericItem(OfPriority(K, t, p), t) = b
    BY <2>1, <2>2 DEF b
  <2>7. kb = a
    BY <2>4 DEF a
  <2>8. QED
    BY <2>5, <2>6, <2>7
<1>3. /\ Good(ka, Ha) /\ Same(K, ka) /\ ka.pending = K.pending
      /\ Times(K, H) => Times(ka, Ha)
      /\ \A u \in Task \ {t} : ka.wake[u] = K.wake[u]
  BY RemovedGenericItem
<1>4. Ha[t] = "none" /\ [Ha EXCEPT ![t] = "ready"] = H
  BY <1>1
<1> HIDE DEF ka, Ha
<1>5. /\ Good(kb, Ha) /\ (Times(ka, Ha) => Times(kb, Ha))
      /\ kb.prio = [ka.prio EXCEPT ![t] = p] /\ kb.base = [ka.base EXCEPT ![t] = p]
      /\ SameButPrio(ka, kb) /\ kb.wake = ka.wake
  BY <1>3, <1>4, Reprioritised
<1> HIDE DEF kb
<1>6. /\ Good(k1, [Ha EXCEPT ![t] = "ready"]) /\ Same(kb, k1) /\ k1.pending = kb.pending
      /\ Times(kb, Ha) => Times(k1, [Ha EXCEPT ![t] = "ready"])
      /\ k1.wake = kb.wake
  <2>1. Good(kb, Ha) /\ Ha[t] = "none"
    BY <1>4, <1>5
  <2>2. QED
    BY <2>1, Readied
<1> HIDE DEF k1
<1>7. k1 = prvAddTaskToReadyQueue(RemoveGenericItem(OfPriority(K, t, p), t), t)
  BY <1>2 DEF k1
<1>8. \A u \in Task \ {t} : k1.wake[u] = K.wake[u]
  BY <1>3, <1>5, <1>6
<1>9. Good(k1, H) /\ (Times(K, H) => Times(k1, H))
  BY <1>3, <1>4, <1>5, <1>6
<1>10. /\ k1.prio = [K.prio EXCEPT ![t] = p] /\ k1.base = [K.base EXCEPT ![t] = p]
       /\ SameButPrio(K, k1)
  BY <1>3, <1>5, <1>6 DEF Same, SameButPrio
<1>11. QED
  BY <1>7, <1>8, <1>9, <1>10

-----------------------------------------------------------------------------
(* The inductive invariant                                                   *)

\* Where a task can be in its code.
Labels == {"nowhere", "task", "delay", "yield", "locked", "reap"}

\* The kernel m is at rest but for the choice of the running task: a says where
\* the tasks are, H which list each is in.  Only the running task suspends the
\* scheduler; when it does not, nothing is left to be caught up with.  The idle
\* task is always ready, and frees a task only when there is one.
Base(m, a, H) ==
  /\ Good(m, H) /\ Times(m, H) /\ a \in [Task -> Labels]
  /\ m.base = m.prio /\ m.missed <= MaxMissed
  /\ \A t \in Task : a[t] = "nowhere" <=> H[t] = "none"
  /\ m.locks = 0 => m.pending = <<>> /\ m.missed = 0 /\ m.missedYield = FALSE
  /\ m.locks = 1 => m.running /\ \A t \in Task : Contains(m.pending, t) => H[t] = "suspended"
  /\ \A t \in Task : a[t] \in {"delay", "locked"} <=> m.locks = 1 /\ m.current = t
  /\ m.running => /\ m.current \in Task /\ H[Idle] = "ready" /\ m.prio[Idle] = 0
                  /\ a[Idle] \in {"task", "locked", "reap"}
                  /\ a[Idle] # "task" => \E t \in Task : H[t] = "terminated"
                  /\ \A t \in Task \ {Idle} : a[t] # "reap"
  /\ ~m.running => /\ m.tick = 0 /\ H[Idle] = "none"
                   /\ \A t \in Task : H[t] \in {"none", "ready"} /\ a[t] \in {"nowhere", "task"}

\* The running task is the one that should run, unless it is in a delay.  The
\* first task to run is the one that will be when the scheduler starts.
InCharge(m, a, H) ==
  /\ m.running /\ a[m.current] \notin {"delay", "yield"} => Highest(m, H)
  /\ ~m.running => IF m.current = None THEN \A t \in Task : H[t] = "none" ELSE Highest(m, H)

\* What holds between any two steps, with every task in the list that H says.
Sound(m, a, H) == Base(m, a, H) /\ InCharge(m, a, H)

\* What a step may do to the times that tasks have left to sleep, m and H before
\* it and m1 and H1 after.  Nothing changes:
Still(m, H, m1, H1) ==
  m1.locks = m.locks /\ m1.missed = m.missed /\ H1 = H /\ Alike(m, H, m1, H1)

\* a task that is in l0 may go to l, but not to a delayed list;
Way(l0, l) ==
  \/ l0 \in {"none", "suspended"} /\ l = "ready"
  \/ l \in {"terminated", "suspended"}
  \/ l0 = "terminated" /\ l = "none"

\* only task u moves, and it goes such a way;
Moves(m, H, m1, H1, u, l) ==
  /\ m1.locks = m.locks /\ m1.missed = m.missed
  /\ Way(H[u], l) /\ H1 = Move(H, u, l)
  /\ \A v \in Task \ {u} : Rest(m1, H1, v) = Rest(m, H, v)

\* the scheduler is suspended, nothing else;
Holds(m, H, m1, H1) ==
  /\ m.locks = 0 /\ m1.locks = 1 /\ m1.missed = m.missed
  /\ H1 = H /\ Alike(m, H, m1, H1)

\* and task t, that is ready, goes to sleep;
FallsAsleep(m, H, m1, H1, t, l) ==
  /\ m.locks = 0 /\ m1.locks = 1 /\ m1.missed = m.missed
  /\ H[t] = "ready" /\ l \in Asleep /\ H1 = Move(H, t, l)
  /\ \A v \in Task \ {t} : Rest(m1, H1, v) = Rest(m, H, v)

\* the scheduler is resumed, and the missed ticks pass;
Releases(m, H, m1, H1) ==
  /\ m.locks = 1 /\ m1.locks = 0 /\ m1.missed = 0
  /\ \A t \in Task : \/ H1[t] = H[t]
                     \/ H[t] \in Asleep /\ H1[t] \in Asleep \cup {"ready"}
                     \/ H[t] = "suspended" /\ H1[t] = "ready"
  /\ Later(m, H, m1, H1, m.missed)

\* a tick passes, or is missed.
Passes(m, H, m1, H1) ==
  /\ m1.locks = m.locks
  /\ \/ m.locks = 0 /\ m1.missed = m.missed /\ Rested(H, H1) /\ Later(m, H, m1, H1, 1)
     \/ m.locks = 1 /\ m1.missed = m.missed + 1 /\ H1 = H /\ Alike(m, H, m1, H1)

\* What a step does: time passes, a task moves, or nothing happens.
Effect(m, H, m1, H1) ==
  \/ Still(m, H, m1, H1)
  \/ \E u \in Task, l \in Places : Moves(m, H, m1, H1, u, l)
  \/ Holds(m, H, m1, H1)
  \/ \E t \in Task, l \in Asleep : FallsAsleep(m, H, m1, H1, t, l)
  \/ Releases(m, H, m1, H1)
  \/ Passes(m, H, m1, H1)

\* The step that is taken from k keeps the kernel sound.
Leads(H) == \E H1 \in [Task -> Places] : Sound(k', at', H1) /\ Effect(k, H, k', H1)

\* No time passes between m and m1, and only the wake time of u may change.
Timely(m, m1, u) ==
  /\ m1.tick = m.tick /\ m1.locks = m.locks /\ m1.missed = m.missed
  /\ \A v \in Task \ {u} : m1.wake[v] = m.wake[v]

\* A task that moves, while no time passes.
LEMMA MovesOn ==
  ASSUME NEW m, NEW m1, NEW H \in [Task -> Places], NEW u \in Task, NEW l,
         Timely(m, m1, u), Way(H[u], l)
  PROVE  Effect(m, H, m1, Move(H, u, l))
<1>1. l \in Places
  BY DEF Way, Places
<1>2. \A v \in Task \ {u} : Move(H, u, l)[v] = H[v]
  BY <1>1, MoveFacts
<1>3. \A v \in Task \ {u} : Rest(m1, Move(H, u, l), v) = Rest(m, H, v)
  BY <1>2, RestAlike DEF Timely
<1>4. Moves(m, H, m1, Move(H, u, l), u, l)
  BY <1>3 DEF Moves, Timely
<1>5. QED
  BY <1>1, <1>4 DEF Effect

\* Nobody moves, no time passes, and no wake time changes.
LEMMA StaysOn ==
  ASSUME NEW m, NEW m1, NEW H, m1.tick = m.tick, m1.locks = m.locks,
         m1.missed = m.missed, m1.wake = m.wake
  PROVE  Effect(m, H, m1, H)
<1>1. Alike(m, H, m1, H)
  BY RestAlike DEF Alike
<1>2. QED
  BY <1>1 DEF Effect, Still

\* lastWake and since agree with the counter.
WakeTimes ==
  /\ lastWake \in [Periodic -> 0 .. MaxDelay]
  /\ since \in [Periodic -> -MaxDelay .. Ticks]
  /\ \A t \in Periodic : since[t] <= MaxDelay =>
       k.tick = Wrapped(lastWake[t] + since[t], Ticks)

\* The inductive invariant: each task has its place, and WakeTimes.
IInv == WakeTimes /\ \E H \in [Task -> Places] : Sound(k, at, H)

\* Initially there are no tasks.
LEMMA Beginning ==
  ASSUME Init
  PROVE  WakeTimes /\ Sound(k, at, [t \in Task |-> "none"])
<1> DEFINE H == [t \in Task |-> "none"]
<1>1. H \in [Task -> Places] /\ \A t \in Task : H[t] = "none"
  BY DEF Places
<1>2. \A p \in Prio : Kernel0.ready[p] = <<>>
  BY DEF Kernel0
<1>3. /\ Kernel0.delayed = <<>> /\ Kernel0.overflow = <<>> /\ Kernel0.terminated = <<>>
      /\ Kernel0.suspended = {} /\ Kernel0.pending = <<>> /\ Kernel0.tick = 0
      /\ Kernel0.running = FALSE /\ Kernel0.current = None /\ Kernel0.locks = 0
      /\ Kernel0.missed = 0 /\ Kernel0.missedYield = FALSE /\ Kernel0.base = Kernel0.prio
  BY DEF Kernel0
<1>4. /\ <<>> \in Lists /\ \A t : ~Contains(<<>>, t)
      /\ InOrder(<<>>, Kernel0.wake)
  BY EmptyList DEF List
<1>5. Kernel0 \in Kernels
  BY <1>4, Numbers DEF Kernel0, Kernels
<1> HIDE DEF H
<1>6. \A t \in Task : HasPlace(Kernel0, t, H[t])
  BY <1>1, <1>2, <1>3, <1>4 DEF HasPlace
<1>7. Good(Kernel0, H)
  BY <1>1, <1>3, <1>4, <1>5, <1>6 DEF Good
<1>8. Times(Kernel0, H)
  BY <1>1 DEF Times
<1>9. /\ k = Kernel0 /\ at = [t \in Task |-> "nowhere"]
      /\ lastWake = [t \in Periodic |-> 0] /\ since = [t \in Periodic |-> 0]
  BY DEF Init
<1>10. at \in [Task -> Labels] /\ \A t \in Task : at[t] = "nowhere"
  BY <1>9 DEF Labels
<1>11. 0 <= MaxMissed
  BY TasksAssumption, KernelAssumption
<1>12. Base(k, at, H)
  BY <1>1, <1>3, <1>7, <1>8, <1>9, <1>10, <1>11, KernelAssumption DEF Base
<1>13. InCharge(k, at, H)
  BY <1>1, <1>3, <1>9 DEF InCharge
<1>14. 0 \in 0 .. MaxDelay /\ 0 \in -MaxDelay .. Ticks /\ Wrapped(0 + 0, Ticks) = 0
  BY KernelAssumption, OneTurn DEF MaxDelay
<1>15. WakeTimes
  BY <1>3, <1>9, <1>14 DEF WakeTimes
<1>16. QED
  BY <1>12, <1>13, <1>15 DEF Sound, H

\* A context switch chooses the task that should run.
LEMMA SwitchedBase ==
  ASSUME NEW m, NEW a, NEW H, Base(m, a, H), m.running, m.locks = 0
  PROVE  LET m1 == vTaskSwitchContext(m) IN Sound(m1, a, H) /\ SameButCurrent(m, m1)
<1> DEFINE m1 == vTaskSwitchContext(m)
<1>1. Good(m, H) /\ Times(m, H) /\ H[Idle] = "ready" /\ Idle \in Task
  BY KernelAssumption DEF Base
<1>2. /\ Good(m1, H) /\ Highest(m1, H) /\ SameButCurrent(m, m1)
      /\ m1.pending = m.pending /\ Times(m1, H)
  BY <1>1, Switched
<1> HIDE DEF m1
<1>3. Base(m1, a, H)
  BY <1>2 DEF Base, SameButCurrent, Highest
<1>4. InCharge(m1, a, H)
  BY <1>2 DEF InCharge, SameButCurrent
<1>5. QED
  BY <1>2, <1>3, <1>4 DEF m1, Sound

\* A task has moved to another list.
LEMMA Rehomed ==
  ASSUME NEW m, NEW a, NEW H, Base(m, a, H), m.running, m.locks = 0,
         NEW u \in Task \ {Idle}, H[u] \notin {"none", "terminated"},
         NEW l \in Places \ {"none"}, NEW m1, Good(m1, Move(H, u, l)),
         Times(m1, Move(H, u, l)), Same(m, m1), m1.pending = m.pending
  PROVE  Base(m1, a, Move(H, u, l))
<1> DEFINE H1 == Move(H, u, l)
<1>1. H1[u] = l /\ \A t \in Task \ {u} : H1[t] = H[t]
  BY MoveFacts DEF Base, Good
<1>2. Good(m1, H1) /\ Times(m1, H1)
  OBVIOUS
<1> HIDE DEF H1
<1>3. Base(m1, a, H1)
  BY <1>1, <1>2, KernelAssumption DEF Base, Same
<1>4. QED
  BY <1>3 DEF H1

\* A task that runs its own code.
LEMMA CallFacts ==
  ASSUME NEW H, Sound(k, at, H), NEW t \in Task, Runs(t, "task")
  PROVE  /\ k.running /\ k.locks = 0 /\ k.current = t /\ at[t] = "task"
         /\ Highest(k, H) /\ H[t] = "ready" /\ Good(k, H) /\ Times(k, H)
         /\ k.pending = <<>> /\ Base(k, at, H)
<1>1. Base(k, at, H) /\ InCharge(k, at, H) /\ k.running /\ k.current = t /\ at[t] = "task"
  BY DEF Sound, Runs
<1>2. Highest(k, H)
  BY <1>1 DEF InCharge
<1>3. Good(k, H) /\ Times(k, H) /\ k.locks \in {0, 1}
  BY <1>1 DEF Base, Good, Kernels
<1>4. k.locks = 0 /\ k.pending = <<>>
  BY <1>1, <1>3 DEF Base
<1>5. QED
  BY <1>1, <1>2, <1>3, <1>4 DEF Highest

\* A task whose handle may be used.
LEMMA ValidHome ==
  ASSUME NEW H, Sound(k, at, H), NEW u \in Task
  PROVE  /\ Valid(u) <=> H[u] \notin {"none", "terminated"}
         /\ Exists(u) <=> H[u] # "none"
         /\ IsReady(k, u, k.prio[u]) <=> H[u] = "ready"
         /\ u \in k.suspended <=> H[u] = "suspended"
         /\ Sleeps(u) <=> H[u] \in Asleep
<1>1. Base(k, at, H) /\ HasPlace(k, u, H[u]) /\ H \in [Task -> Places] /\ k.prio[u] \in Prio
  BY DEF Sound, Base, Good, Kernels
<1>2. QED
  BY <1>1 DEF Valid, Exists, HasPlace, Base, IsReady, Sleeps, Asleep

\* m1 is m but for the current task, priorities, lists and times; t has priority p.
Kept(m, m1, t, p) ==
  /\ m1.base = m1.prio /\ m1.prio[t] = p
  /\ m1.running = m.running /\ m1.tick = m.tick /\ m1.locks = m.locks
  /\ m1.missed = m.missed /\ m1.missedYield = m.missedYield /\ m1.pending = m.pending
  /\ m1.wake = m.wake

\* main creates a task: the one of highest priority will run first.
LEMMA CreatedBeforeStart ==
  ASSUME NEW m, NEW a, NEW H, Sound(m, a, H), m.running = FALSE,
         NEW t \in Task, H[t] = "none", NEW p \in Prio
  PROVE  LET m1 == CreateBeforeStart(m, t, p)
             H1 == Move(H, t, "ready") IN
    /\ Good(m1, H1) /\ Times(m1, H1) /\ Highest(m1, H1)
    /\ Kept(m, m1, t, p)
<1> DEFINE m0 == NewTask(m, t, p)
           m1 == CreateBeforeStart(m, t, p)
           H1 == Move(H, t, "ready")
<1>1. Good(m, H) /\ Times(m, H) /\ m.base = m.prio
  BY DEF Sound, Base
<1>2. /\ m \in Kernels /\ H \in [Task -> Places]
      /\ IF m.current = None THEN \A u \in Task : H[u] = "none" ELSE Highest(m, H)
  BY DEF Sound, Base, InCharge, Good
<1>3. /\ m.prio \in [Task -> Prio] /\ Prio \subseteq Nat
  BY <1>2, Numbers DEF Kernels
<1>4. /\ Good(m0, H1) /\ Times(m0, H1)
      /\ m0.prio = [m.prio EXCEPT ![t] = p] /\ m0.base = m0.prio
      /\ SameButPrio(m, m0) /\ m0.wake = m.wake
  BY <1>1, Created DEF Move
<1>5. /\ H1[t] = "ready" /\ \A u \in Task \ {t} : H1[u] = H[u]
      /\ m0.prio[t] = p /\ \A u \in Task \ {t} : m0.prio[u] = m.prio[u]
  BY <1>2, <1>3, <1>4, MoveFacts DEF Places
<1> HIDE DEF m0, H1
<1>6. CASE m.current = None \/ m.prio[m.current] <= p
  <2>1. m1 = [m0 EXCEPT !.current = t]
    BY <1>6 DEF CreateBeforeStart, m0
  <2> HIDE DEF m1
  <2>2. /\ Good(m1, H1) /\ Times(m1, H1) /\ SameButCurrent(m0, m1)
        /\ m1.current = t /\ m1.pending = m0.pending
    BY <1>4, <2>1, SetCurrent
  <2>3. ASSUME NEW u \in Task, H1[u] = "ready" PROVE m1.prio[u] <= p
    <3>1. CASE u = t
      BY <1>3, <1>5, <2>2, <3>1 DEF SameButCurrent
    <3>2. CASE u # t
      <4>1. H[u] = "ready" /\ m1.prio[u] = m.prio[u]
        BY <1>5, <2>2, <2>3, <3>2 DEF SameButCurrent
      <4>2. m.current # None /\ m.prio[u] <= m.prio[m.current] /\ m.current \in Task
        BY <1>2, <4>1 DEF Highest
      <4>3. m.prio[u] \in Nat /\ m.prio[m.current] \in Nat /\ p \in Nat
        BY <1>3, <4>2
      <4>4. QED
        BY <1>6, <4>1, <4>2, <4>3
    <3>3. QED
      BY <3>1, <3>2
  <2>4. Highest(m1, H1)
    BY <1>5, <2>2, <2>3 DEF Highest, SameButCurrent
  <2>5. QED
    BY <1>4, <1>5, <2>2, <2>4 DEF m1, H1, SameButCurrent, SameButPrio, Kept
<1>7. CASE ~(m.current = None \/ m.prio[m.current] <= p)
  <2>1. m1 = m0
    BY <1>7 DEF CreateBeforeStart, m0
  <2>2. Highest(m, H)
    BY <1>2, <1>7
  <2>3. m.current # t /\ m.current \in Task /\ m.prio[m.current] \in Nat /\ p \in Nat
    BY <1>3, <2>2 DEF Highest
  <2>4. Highest(m0, H1)
    BY <1>4, <1>5, <1>7, <2>2, <2>3 DEF Highest, SameButPrio
  <2> HIDE DEF m1
  <2>5. QED
    BY <1>4, <1>5, <2>1, <2>4 DEF m1, H1, SameButPrio, Kept
<1>8. QED
  BY <1>6, <1>7

\* main creates a task before it starts the scheduler.
LEMMA MainCreatesStep ==
  ASSUME NEW H, Sound(k, at, H), NEW t \in Task, NEW p \in Prio, MainCreates(t, p)
  PROVE  Leads(H)
<1> DEFINE H1 == Move(H, t, "ready")
<1>1. /\ k.running = FALSE /\ t # Idle /\ ~Exists(t) /\ k' = CreateBeforeStart(k, t, p)
      /\ at' = [at EXCEPT ![t] = "task"]
  BY DEF MainCreates, KernelBecomes, GoesTo, Sound, Base, Good, Kernels
<1>2. H[t] = "none" /\ k.running = FALSE
  BY <1>1, ValidHome
<1>3. Base(k, at, H) /\ H \in [Task -> Places] /\ at \in [Task -> Labels]
  BY <1>1 DEF Sound, Base, Good
<1>4. /\ Good(k', H1) /\ Times(k', H1) /\ Highest(k', H1)
      /\ Kept(k, k', t, p)
  <2>1. LET k1 == CreateBeforeStart(k, t, p) IN
          /\ Good(k1, H1) /\ Times(k1, H1) /\ Highest(k1, H1)
          /\ Kept(k, k1, t, p)
    BY <1>2, CreatedBeforeStart
  <2>2. QED
    BY <1>1, <2>1
<1>5. /\ H1 \in [Task -> Places]
      /\ H1[t] = "ready" /\ \A u \in Task \ {t} : H1[u] = H[u]
      /\ at' \in [Task -> Labels]
      /\ at'[t] = "task" /\ \A u \in Task \ {t} : at'[u] = at[u]
  BY <1>1, <1>3, MoveFacts DEF Places, Labels
<1>6. Effect(k, H, k', H1)
  <2>1. Timely(k, k', t)
    BY <1>4 DEF Kept, Timely
  <2>2. Way(H[t], "ready")
    BY <1>2 DEF Way
  <2>3. QED
    BY <1>3, <2>1, <2>2, MovesOn
<1> HIDE DEF H1
<1>7. k.locks = 0
  BY <1>1, <1>3 DEF Base, Good, Kernels
<1>8. Base(k', at', H1)
  <2>1. k'.missed <= MaxMissed
    BY <1>3, <1>4 DEF Base, Kept
  <2>2. \A u \in Task : at'[u] = "nowhere" <=> H1[u] = "none"
    BY <1>3, <1>5 DEF Base
  <2>3. k'.locks = 0 /\ k'.pending = <<>> /\ k'.missed = 0 /\ k'.missedYield = FALSE
    BY <1>3, <1>4, <1>7 DEF Base, Kept
  <2>4. \A u \in Task : at'[u] \notin {"delay", "locked"}
    BY <1>3, <1>5, <1>7 DEF Base
  <2>5. /\ k'.tick = 0 /\ H1[Idle] = "none" /\ ~k'.running
        /\ \A u \in Task : H1[u] \in {"none", "ready"} /\ at'[u] \in {"nowhere", "task"}
    BY <1>1, <1>3, <1>4, <1>5, KernelAssumption DEF Base, Kept
  <2>6. QED
    BY <1>4, <1>5, <2>1, <2>2, <2>3, <2>4, <2>5 DEF Base, Kept
<1>9. InCharge(k', at', H1)
  BY <1>1, <1>4, KernelAssumption DEF InCharge, Highest, Kept
<1>10. QED
  BY <1>5, <1>8, <1>9, <1>6 DEF Sound, Leads

\* main starts the scheduler.
LEMMA StartStep ==
  ASSUME NEW H, Sound(k, at, H), vTaskStartScheduler
  PROVE  Leads(H)
<1> DEFINE H1 == Move(H, Idle, "ready")
           k0 == CreateBeforeStart(k, Idle, 0)
<1>1. /\ k.running = FALSE /\ k' = Started(k) /\ at' = [at EXCEPT ![Idle] = "task"]
  BY DEF vTaskStartScheduler, KernelBecomes, GoesTo, Sound, Base, Good, Kernels
<1>2. /\ Base(k, at, H) /\ H \in [Task -> Places] /\ at \in [Task -> Labels]
      /\ k.prio \in [Task -> Prio]
  BY DEF Sound, Base, Good, Kernels
<1>3. /\ H[Idle] = "none" /\ k.tick = 0 /\ Idle \in Task /\ 0 \in Prio
      /\ k.running = FALSE
  BY <1>1, <1>2, KernelAssumption, Numbers DEF Base
<1>4. /\ Good(k0, H1) /\ Times(k0, H1) /\ Highest(k0, H1)
      /\ Kept(k, k0, Idle, 0)
  BY <1>3, CreatedBeforeStart
<1>5. k' = [k0 EXCEPT !.running = TRUE, !.tick = 0]
  BY <1>1 DEF Started
<1>6. /\ H1 \in [Task -> Places]
      /\ H1[Idle] = "ready" /\ \A u \in Task \ {Idle} : H1[u] = H[u]
      /\ at' \in [Task -> Labels]
      /\ at'[Idle] = "task" /\ \A u \in Task \ {Idle} : at'[u] = at[u]
  BY <1>1, <1>2, <1>3, MoveFacts DEF Places, Labels
<1> HIDE DEF k0
<1>7. /\ Good(k', H1) /\ Times(k', H1)
      /\ k'.running = TRUE /\ k'.tick = 0
      /\ k'.current = k0.current /\ k'.prio = k0.prio /\ k'.base = k0.base
      /\ k'.locks = k0.locks /\ k'.missed = k0.missed /\ k'.missedYield = k0.missedYield
      /\ k'.pending = k0.pending /\ k'.wake = k0.wake
  <2>1. k0.tick = 0
    BY <1>3, <1>4 DEF Kept
  <2>2. Good(k0, H1) /\ Times(k0, H1)
    BY <1>4
  <2>3. QED
    BY <1>5, <2>1, <2>2, SetRunning
<1>8. Effect(k, H, k', H1)
  <2>1. Timely(k, k', Idle)
    BY <1>3, <1>4, <1>7 DEF Kept, Timely
  <2>2. Way(H[Idle], "ready")
    BY <1>3 DEF Way
  <2>3. QED
    BY <1>2, <1>3, <2>1, <2>2, MovesOn
<1> HIDE DEF H1
<1>9. k.locks = 0 /\ k'.current \in Task /\ Highest(k', H1)
  BY <1>1, <1>2, <1>4, <1>7 DEF Base, Good, Kernels, Highest, Kept
<1>10. Base(k', at', H1)
  BY <1>1, <1>2, <1>4, <1>6, <1>7, <1>9 DEF Base, Kept
<1>11. InCharge(k', at', H1)
  BY <1>7, <1>9 DEF InCharge
<1>12. QED
  BY <1>6, <1>10, <1>11, <1>8 DEF Sound, Leads

\* A task creates another one.
LEMMA CreateStep ==
  ASSUME NEW H, Sound(k, at, H), NEW t \in Task, NEW u \in Task, NEW p \in Prio,
         xTaskCreate(t, u, p)
  PROVE  Leads(H)
<1> DEFINE k1 == NewTask(k, u, p)
           H1 == Move(H, u, "ready")
           a1 == [at EXCEPT ![u] = "task"]
<1>1. /\ Runs(t, "task") /\ ~Exists(u) /\ at' = a1
      /\ k' = IF k.prio[t] < p THEN vTaskSwitchContext(k1) ELSE k1
  BY DEF xTaskCreate, Calls, KernelBecomes, GoesTo
<1>2. /\ k.running /\ k.locks = 0 /\ k.current = t /\ at[t] = "task"
      /\ Highest(k, H) /\ H[t] = "ready" /\ Base(k, at, H)
  BY <1>1, CallFacts
<1>3. Good(k, H) /\ Times(k, H) /\ k.base = k.prio
  BY <1>2 DEF Base
<1>4. H[u] = "none"
  BY <1>1, ValidHome
<1>5. /\ H \in [Task -> Places] /\ at \in [Task -> Labels] /\ u # t /\ u # Idle
      /\ k.prio \in [Task -> Prio] /\ Prio \subseteq Nat
  BY <1>2, <1>3, <1>4, Numbers DEF Base, Good, Kernels
<1>6. /\ Good(k1, H1) /\ Times(k1, H1) /\ k1.prio = [k.prio EXCEPT ![u] = p]
      /\ k1.base = k1.prio /\ SameButPrio(k, k1) /\ k1.wake = k.wake
  BY <1>3, <1>4, Created DEF Move
<1> HIDE DEF k1
<1>7. /\ H1 \in [Task -> Places]
      /\ H1[u] = "ready" /\ \A v \in Task \ {u} : H1[v] = H[v]
      /\ a1 \in [Task -> Labels]
      /\ a1[u] = "task" /\ \A v \in Task \ {u} : a1[v] = at[v]
      /\ k1.prio[u] = p /\ \A v \in Task \ {u} : k1.prio[v] = k.prio[v]
  BY <1>5, <1>6, MoveFacts DEF Places, Labels
<1>8. ASSUME NEW k2, k2.tick = k1.tick, k2.locks = k1.locks, k2.missed = k1.missed,
              k2.wake = k1.wake
       PROVE  Effect(k, H, k2, H1)
  <2>1. Timely(k, k2, u)
    BY <1>6, <1>8 DEF SameButPrio, Timely
  <2>2. Way(H[u], "ready")
    BY <1>4 DEF Way
  <2>3. QED
    BY <1>5, <2>1, <2>2, MovesOn
<1> HIDE DEF H1, a1
<1>9. Base(k1, a1, H1)
  BY <1>2, <1>4, <1>5, <1>6, <1>7, KernelAssumption DEF Base, SameButPrio
<1>10. CASE k.prio[t] < p
  <2>1. k1.running /\ k1.locks = 0
    BY <1>2, <1>6 DEF SameButPrio
  <2> DEFINE k2 == vTaskSwitchContext(k1)
  <2>2. Sound(k2, a1, H1) /\ SameButCurrent(k1, k2)
    BY <1>9, <2>1, SwitchedBase
  <2>3. k' = k2
    BY <1>1, <1>10
  <2> HIDE DEF k2
  <2>4. Effect(k, H, k2, H1)
    BY <1>8, <2>2 DEF SameButCurrent
  <2>5. QED
    BY <1>1, <1>7, <2>2, <2>3, <2>4 DEF Leads
<1>11. CASE ~(k.prio[t] < p)
  <2>1. \A v \in Task : H1[v] = "ready" => k1.prio[v] <= k1.prio[t]
    <3>1. k1.prio[u] <= k1.prio[t]
      BY <1>5, <1>7, <1>11
    <3>2. \A v \in Task \ {u} : H[v] = "ready" => k.prio[v] <= k.prio[t]
      BY <1>2 DEF Highest
    <3>3. QED
      BY <1>5, <1>7, <3>1, <3>2
  <2>2. Highest(k1, H1)
    BY <1>2, <1>5, <1>6, <1>7, <2>1 DEF Highest, SameButPrio
  <2>3. InCharge(k1, a1, H1)
    BY <1>2, <1>6, <2>2 DEF InCharge, SameButPrio
  <2>4. QED
    BY <1>1, <1>7, <1>9, <1>11, <1>8, <2>3 DEF Sound, Leads
<1>12. QED
  BY <1>10, <1>11

\* A task deletes or suspends another one, or itself.
LEMMA StopsAnother ==
  ASSUME NEW H, Sound(k, at, H), NEW t \in Task, NEW u \in Task, u # Idle,
         Runs(t, "task"), Valid(u), NEW l \in {"terminated", "suspended"},
         NEW k1, Good(k1, Move(H, u, l)), Times(k1, Move(H, u, l)), Same(k, k1),
         k1.pending = k.pending, \A v \in Task \ {u} : k1.wake[v] = k.wake[v],
         k' = (IF u = t THEN vTaskSwitchContext(k1) ELSE k1), at' = at
  PROVE  Leads(H)
<1> DEFINE H1 == Move(H, u, l)
<1>1. /\ k.running /\ k.locks = 0 /\ k.current = t /\ at[t] = "task"
      /\ Highest(k, H) /\ H[t] = "ready" /\ Base(k, at, H)
  BY CallFacts
<1>2. H[u] \notin {"none", "terminated"}
  BY ValidHome
<1>3. H \in [Task -> Places] /\ l \in Places \ {"none"}
  BY <1>1 DEF Base, Good, Places
<1>4. H1 \in [Task -> Places] /\ H1[u] = l /\ \A v \in Task \ {u} : H1[v] = H[v]
  BY <1>3, MoveFacts
<1>5. Base(k1, at, H1)
  BY <1>1, <1>2, <1>3, Rehomed
<1>6. ASSUME NEW k2, k2.tick = k1.tick, k2.locks = k1.locks, k2.missed = k1.missed,
             k2.wake = k1.wake
      PROVE  Effect(k, H, k2, H1)
  <2>1. Timely(k, k2, u)
    BY <1>6 DEF Same, Timely
  <2>2. Way(H[u], l)
    BY DEF Way
  <2>3. QED
    BY <1>3, <2>1, <2>2, MovesOn
<1> HIDE DEF H1
<1>7. CASE u = t
  <2>1. k1.running /\ k1.locks = 0
    BY <1>1 DEF Same
  <2> DEFINE k2 == vTaskSwitchContext(k1)
  <2>2. Sound(k2, at, H1) /\ SameButCurrent(k1, k2)
    BY <1>5, <2>1, SwitchedBase
  <2>3. k' = k2
    BY <1>7
  <2> HIDE DEF k2
  <2>4. Effect(k, H, k2, H1)
    BY <1>6, <2>2 DEF SameButCurrent
  <2>5. QED
    BY <1>4, <2>2, <2>3, <2>4 DEF Leads
<1>8. CASE u # t
  <2>1. Highest(k1, H1)
    BY <1>1, <1>4, <1>8 DEF Highest, Same
  <2>2. InCharge(k1, at, H1)
    BY <1>1, <2>1 DEF InCharge, Same
  <2>3. QED
    BY <1>4, <1>5, <1>8, <1>6, <2>2 DEF Sound, Leads
<1>9. QED
  BY <1>7, <1>8

\* A task deletes one.
LEMMA DeleteStep ==
  ASSUME NEW H, Sound(k, at, H), NEW t \in Task, NEW u \in Task, vTaskDelete(t, u)
  PROVE  Leads(H)
<1> DEFINE k0 == RemoveEventItem(RemoveGenericItem(k, u), u)
           H0 == [H EXCEPT ![u] = "none"]
           k1 == [k0 EXCEPT !.terminated = Append(@, u)]
<1>1. /\ Runs(t, "task") /\ u # Idle /\ Valid(u) /\ at' = at
      /\ k' = IF u = t THEN vTaskSwitchContext(k1) ELSE k1
  BY DEF vTaskDelete, Calls, KernelBecomes
<1>2. Good(k, H) /\ Times(k, H) /\ k.pending = <<>>
  BY <1>1, CallFacts
<1>3. /\ Good(k0, H0) /\ Same(k, k0) /\ k0.pending = Without(k.pending, u)
      /\ Times(k0, H0) /\ \A v \in Task \ {u} : k0.wake[v] = k.wake[v]
  BY <1>2, Freed
<1>4. k0.pending = k.pending
  BY <1>2, <1>3, EmptyList DEF Without
<1>5. H0[u] = "none" /\ [H0 EXCEPT ![u] = "terminated"] = Move(H, u, "terminated")
  BY <1>2 DEF Move, Good
<1> HIDE DEF k0, H0
<1>6. /\ Good(k1, [H0 EXCEPT ![u] = "terminated"]) /\ Same(k0, k1)
      /\ Times(k1, [H0 EXCEPT ![u] = "terminated"])
      /\ k1.pending = k0.pending /\ k1.wake = k0.wake
  <2>1. Good(k0, H0) /\ Times(k0, H0) /\ H0[u] = "none"
    BY <1>3, <1>5
  <2>2. QED
    BY <2>1, Terminated
<1> HIDE DEF k1
<1>7. /\ Good(k1, Move(H, u, "terminated")) /\ Times(k1, Move(H, u, "terminated"))
      /\ Same(k, k1) /\ k1.pending = k.pending
      /\ \A v \in Task \ {u} : k1.wake[v] = k.wake[v]
  BY <1>3, <1>4, <1>5, <1>6 DEF Same
<1>8. QED
  BY <1>1, <1>7, StopsAnother

\* A task suspends one.
LEMMA SuspendStep ==
  ASSUME NEW H, Sound(k, at, H), NEW t \in Task, NEW u \in Task, vTaskSuspend(t, u)
  PROVE  Leads(H)
<1> DEFINE k0 == RemoveEventItem(RemoveGenericItem(k, u), u)
           H0 == [H EXCEPT ![u] = "none"]
           k1 == [k0 EXCEPT !.suspended = @ \cup {u}]
<1>1. /\ Runs(t, "task") /\ u # Idle /\ Valid(u) /\ at' = at
      /\ k' = IF u = t THEN vTaskSwitchContext(k1) ELSE k1
  BY DEF vTaskSuspend, Calls, KernelBecomes
<1>2. Good(k, H) /\ Times(k, H) /\ k.pending = <<>>
  BY <1>1, CallFacts
<1>3. /\ Good(k0, H0) /\ Same(k, k0) /\ k0.pending = Without(k.pending, u)
      /\ Times(k0, H0) /\ \A v \in Task \ {u} : k0.wake[v] = k.wake[v]
  BY <1>2, Freed
<1>4. k0.pending = k.pending
  BY <1>2, <1>3, EmptyList DEF Without
<1>5. H0[u] = "none" /\ [H0 EXCEPT ![u] = "suspended"] = Move(H, u, "suspended")
  BY <1>2 DEF Move, Good
<1> HIDE DEF k0, H0
<1>6. /\ Good(k1, [H0 EXCEPT ![u] = "suspended"]) /\ Same(k0, k1)
      /\ Times(k1, [H0 EXCEPT ![u] = "suspended"])
      /\ k1.pending = k0.pending /\ k1.wake = k0.wake
  <2>1. Good(k0, H0) /\ Times(k0, H0) /\ H0[u] = "none"
    BY <1>3, <1>5
  <2>2. QED
    BY <2>1, Suspended
<1> HIDE DEF k1
<1>7. /\ Good(k1, Move(H, u, "suspended")) /\ Times(k1, Move(H, u, "suspended"))
      /\ Same(k, k1) /\ k1.pending = k.pending
      /\ \A v \in Task \ {u} : k1.wake[v] = k.wake[v]
  BY <1>3, <1>4, <1>5, <1>6 DEF Same
<1>8. QED
  BY <1>1, <1>7, StopsAnother

\* A suspended task goes on, and is given the processor if it should be.
LEMMA Readies ==
  ASSUME NEW H, Sound(k, at, H), k.running = TRUE, k.locks = 0, NEW u \in Task,
         xTaskIsTaskSuspended(u),
         k' = (IF k.prio[u] >= k.prio[k.current] THEN vTaskSwitchContext(Resumed(u))
                                                  ELSE Resumed(u)),
         at' = at
  PROVE  Leads(H)
<1> DEFINE k1 == Resumed(u)
           H1 == Move(H, u, "ready")
<1>1. Base(k, at, H) /\ InCharge(k, at, H) /\ Good(k, H) /\ Times(k, H)
  BY DEF Sound, Base
<1>2. H[u] = "suspended" /\ ~Contains(k.pending, u) /\ u # Idle
  BY <1>1, ValidHome DEF xTaskIsTaskSuspended, Base
<1>3. /\ H \in [Task -> Places] /\ k.prio \in [Task -> Prio] /\ Prio \subseteq Nat
      /\ k.current \in Task
  BY <1>1, Numbers DEF Base, Good, Kernels
<1>4. /\ Good(k1, H1) /\ Times(k1, H1) /\ Same(k, k1) /\ k1.pending = k.pending
      /\ \A v \in Task \ {u} : k1.wake[v] = k.wake[v]
  BY <1>1, <1>2, Continued DEF Move, Resumed
<1> HIDE DEF k1
<1>5. H1 \in [Task -> Places] /\ H1[u] = "ready" /\ \A v \in Task \ {u} : H1[v] = H[v]
  BY <1>3, MoveFacts DEF Places
<1>6. Base(k1, at, H1)
  BY <1>1, <1>2, <1>4, Rehomed DEF Places
<1>7. ASSUME NEW k2, k2.tick = k1.tick, k2.locks = k1.locks, k2.missed = k1.missed,
              k2.wake = k1.wake
       PROVE  Effect(k, H, k2, H1)
  <2>1. Timely(k, k2, u)
    BY <1>4, <1>7 DEF Same, Timely
  <2>2. Way(H[u], "ready")
    BY <1>2 DEF Way
  <2>3. QED
    BY <1>3, <2>1, <2>2, MovesOn
<1> HIDE DEF H1
<1>8. CASE k.prio[u] >= k.prio[k.current]
  <2>1. k1.running /\ k1.locks = 0
    BY <1>4 DEF Same
  <2> DEFINE k2 == vTaskSwitchContext(k1)
  <2>2. Sound(k2, at, H1) /\ SameButCurrent(k1, k2)
    BY <1>6, <2>1, SwitchedBase
  <2>3. k' = k2
    BY <1>8 DEF k1
  <2> HIDE DEF k2
  <2>4. Effect(k, H, k2, H1)
    BY <1>7, <2>2 DEF SameButCurrent
  <2>5. QED
    BY <1>5, <2>2, <2>3, <2>4 DEF Leads
<1>9. CASE ~(k.prio[u] >= k.prio[k.current])
  <2>1. ASSUME Highest(k, H) PROVE Highest(k1, H1)
    <3>1. \A v \in Task : k.prio[v] \in Nat
      BY <1>3
    <3>2. k.prio[u] <= k.prio[k.current]
      BY <1>3, <1>9, <3>1
    <3>3. \A v \in Task : H1[v] = "ready" => k.prio[v] <= k.prio[k.current]
      BY <1>5, <2>1, <3>2 DEF Highest
    <3>4. H1[k.current] = "ready"
      BY <1>3, <1>5, <2>1 DEF Highest
    <3>5. QED
      BY <1>3, <1>4, <3>3, <3>4 DEF Highest, Same
  <2>2. InCharge(k1, at, H1)
    BY <1>1, <1>4, <2>1 DEF InCharge, Same
  <2>3. QED
    BY <1>5, <1>6, <1>9, <1>7, <2>2 DEF Sound, Leads, k1
<1>10. QED
  BY <1>8, <1>9

\* A task resumes one, that may not be suspended.
LEMMA ResumeStep ==
  ASSUME NEW H, Sound(k, at, H), NEW t \in Task, NEW u \in Task, vTaskResume(t, u)
  PROVE  Leads(H)
<1>1. /\ Runs(t, "task") /\ at' = at
      /\ k' = IF ~xTaskIsTaskSuspended(u) THEN k
              ELSE IF k.prio[u] >= k.prio[t] THEN vTaskSwitchContext(Resumed(u))
              ELSE Resumed(u)
  BY DEF vTaskResume, Calls, KernelBecomes
<1>2. k.running /\ k.locks = 0 /\ k.current = t /\ Base(k, at, H)
  BY <1>1, CallFacts
<1>3. CASE ~xTaskIsTaskSuspended(u)
  <2>1. k' = k /\ at' = at /\ H \in [Task -> Places]
    BY <1>1, <1>2, <1>3 DEF Base, Good
  <2>2. Effect(k, H, k', H)
    BY <2>1, StaysOn
  <2>3. QED
    BY <2>1, <2>2 DEF Leads
<1>4. CASE xTaskIsTaskSuspended(u)
  BY <1>1, <1>2, <1>4, Readies
<1>5. QED
  BY <1>3, <1>4

\* A task that may be ready or not gets another priority.
LEMMA WithPriorityFacts ==
  ASSUME NEW H, Sound(k, at, H), k.running, k.locks = 0,
         NEW u \in Task, u # Idle, NEW p \in Prio
  PROVE  /\ Base(WithPriority(u, p), at, H)
         /\ WithPriority(u, p).prio = [k.prio EXCEPT ![u] = p]
         /\ SameButPrio(k, WithPriority(u, p))
         /\ Alike(k, H, WithPriority(u, p), H)
<1> DEFINE k1 == WithPriority(u, p)
<1>1. Base(k, at, H) /\ Good(k, H) /\ Times(k, H) /\ k.base = k.prio /\ k.pending = <<>>
  BY DEF Sound, Base
<1>2. k \in Kernels
  BY <1>1 DEF Good
<1>3. [k EXCEPT !.prio[u] = IF @ = k.base[u] THEN p ELSE @,
                !.base[u] = p, !.item[u] = p] = OfPriority(k, u, p)
  BY <1>1, <1>2 DEF Kernels, OfPriority
<1>4. k1 = IF H[u] = "ready"
           THEN prvAddTaskToReadyQueue(RemoveGenericItem(OfPriority(k, u, p), u), u)
           ELSE OfPriority(k, u, p)
  BY <1>1, <1>3, ValidHome DEF WithPriority
<1>5. ~Contains(k.pending, u)
  BY <1>1, EmptyList
<1> HIDE DEF k1
<1>6. /\ Good(k1, H) /\ Times(k1, H) /\ k1.prio = [k.prio EXCEPT ![u] = p]
      /\ k1.base = k1.prio /\ SameButPrio(k, k1) /\ Alike(k, H, k1, H)
  <2>1. CASE H[u] = "ready"
    <3>1. /\ Good(k1, H) /\ Times(k1, H) /\ k1.prio = [k.prio EXCEPT ![u] = p]
          /\ k1.base = k1.prio /\ SameButPrio(k, k1)
          /\ \A v \in Task \ {u} : k1.wake[v] = k.wake[v]
      BY <1>1, <1>4, <1>5, <2>1, Relisted
    <3>2. \A v \in Task \ {u} : Rest(k1, H, v) = Rest(k, H, v)
      BY <3>1, RestAlike DEF SameButPrio
    <3>3. Rest(k1, H, u) = 0 /\ Rest(k, H, u) = 0
      BY <2>1 DEF Rest
    <3>4. QED
      BY <3>1, <3>2, <3>3 DEF Alike
  <2>2. CASE H[u] # "ready"
    <3>1. /\ Good(k1, H) /\ Times(k1, H) /\ k1.prio = [k.prio EXCEPT ![u] = p]
          /\ k1.base = k1.prio /\ SameButPrio(k, k1) /\ k1.wake = k.wake
      BY <1>1, <1>4, <2>2, Reprioritised
    <3>2. QED
      BY <3>1, RestAlike DEF SameButPrio, Alike
  <2>3. QED
    BY <2>1, <2>2
<1>7. k1.prio[Idle] = k.prio[Idle]
  BY <1>2, <1>6, KernelAssumption DEF Kernels
<1>8. Base(k1, at, H)
  BY <1>1, <1>6, <1>7 DEF Base, SameButPrio
<1>9. QED
  BY <1>6, <1>8 DEF k1

\* A task changes a priority.
LEMMA PriorityStep ==
  ASSUME NEW H, Sound(k, at, H), NEW t \in Task, NEW u \in Task, NEW p \in Prio,
         vTaskPrioritySet(t, u, p)
  PROVE  Leads(H)
<1> DEFINE k1 == WithPriority(u, p)
<1>1. /\ Runs(t, "task") /\ u # Idle /\ at' = at
      /\ k' = IF p = k.base[u] THEN k
              ELSE IF (IF p > k.base[u] THEN u # t ELSE u = t) THEN vTaskSwitchContext(k1)
              ELSE k1
  BY DEF vTaskPrioritySet, Calls, KernelBecomes
<1>2. /\ k.running /\ k.locks = 0 /\ k.current = t /\ at[t] = "task"
      /\ Highest(k, H) /\ Base(k, at, H)
  BY <1>1, CallFacts
<1>3. /\ H \in [Task -> Places] /\ k.prio \in [Task -> Prio] /\ Prio \subseteq Nat
      /\ k.base = k.prio
  BY <1>2, Numbers DEF Base, Good, Kernels
<1>4. /\ Base(k1, at, H) /\ k1.prio = [k.prio EXCEPT ![u] = p]
      /\ SameButPrio(k, k1) /\ Alike(k, H, k1, H)
  BY <1>1, <1>2, WithPriorityFacts
<1> HIDE DEF k1
<1>5. ASSUME NEW k2, k2.tick = k1.tick, k2.locks = k1.locks, k2.missed = k1.missed,
             k2.wake = k1.wake
      PROVE  Effect(k, H, k2, H)
  <2>1. \A v \in Task : Rest(k2, H, v) = Rest(k1, H, v)
    BY <1>5, RestAlike
  <2>2. Still(k, H, k2, H)
    BY <1>4, <1>5, <2>1 DEF Still, Alike, SameButPrio
  <2>3. QED
    BY <2>2 DEF Effect
<1>6. CASE p = k.base[u]
  <2>1. k' = k
    BY <1>1, <1>6
  <2>2. Effect(k, H, k', H)
    BY <2>1, StaysOn
  <2>3. QED
    BY <1>1, <1>3, <2>1, <2>2 DEF Leads
<1>7. CASE IF p > k.base[u] THEN u # t ELSE u = t
  <2>1. k1.running /\ k1.locks = 0
    BY <1>2, <1>4 DEF SameButPrio
  <2> DEFINE k2 == vTaskSwitchContext(k1)
  <2>2. Sound(k2, at, H) /\ SameButCurrent(k1, k2)
    BY <1>4, <2>1, SwitchedBase
  <2>3. k' = k2 \/ p = k.base[u]
    BY <1>1, <1>7
  <2> HIDE DEF k2
  <2>4. Effect(k, H, k2, H)
    BY <1>5, <2>2 DEF SameButCurrent
  <2>5. QED
    BY <1>1, <1>3, <1>6, <2>2, <2>3, <2>4 DEF Leads
<1>8. CASE p # k.base[u] /\ ~(IF p > k.base[u] THEN u # t ELSE u = t)
  <2>1. ASSUME NEW v \in Task, H[v] = "ready" PROVE k1.prio[v] <= k1.prio[t]
    <3>1. /\ k.prio[u] \in Nat /\ k.prio[v] \in Nat /\ k.prio[t] \in Nat /\ p \in Nat
          /\ k1.prio[u] = p /\ \A w \in Task \ {u} : k1.prio[w] = k.prio[w]
      BY <1>3, <1>4
    <3>2. k.prio[v] <= k.prio[t]
      BY <1>2, <2>1 DEF Highest
    <3>3. IF u = t THEN p > k.prio[u] ELSE p < k.prio[u]
      BY <1>3, <1>8, <3>1
    <3>4. CASE u = t
      BY <3>1, <3>2, <3>3, <3>4
    <3>5. CASE u # t
      BY <3>1, <3>2, <3>3, <3>5
    <3>6. QED
      BY <3>4, <3>5
  <2>2. Highest(k1, H)
    BY <1>2, <1>4, <2>1 DEF Highest, SameButPrio
  <2>3. InCharge(k1, at, H)
    BY <1>2, <1>4, <2>2 DEF InCharge, SameButPrio
  <2>4. QED
    BY <1>1, <1>3, <1>4, <1>8, <1>5, <2>3 DEF Sound, Leads
<1>9. QED
  BY <1>6, <1>7, <1>8

\* A task yields that need not.
LEMMA YieldStep ==
  ASSUME NEW H, Sound(k, at, H), NEW t \in Task, Runs(t, "task"),
         k' = vTaskSwitchContext(k), at' = at
  PROVE  Leads(H)
<1>1. k.running /\ k.locks = 0 /\ Base(k, at, H)
  BY CallFacts
<1>2. Sound(k', at', H) /\ SameButCurrent(k, k')
  BY <1>1, SwitchedBase
<1>3. Effect(k, H, k', H)
  BY <1>2, StaysOn DEF SameButCurrent
<1>4. QED
  BY <1>1, <1>2, <1>3 DEF Base, Good, Leads

\* A task suspends the scheduler, as the idle task does when there is one to free.
LEMMA LockStep ==
  ASSUME NEW H, Sound(k, at, H), NEW t \in Task, Runs(t, "task"),
         t = Idle => \E u \in Task : H[u] = "terminated",
         NEW place \in {"locked", "delay"}, t = Idle => place = "locked",
         k' = vTaskSuspendAll(k), at' = [at EXCEPT ![t] = place]
  PROVE  Sound(k', at', H) /\ Effect(k, H, k', H)
<1>1. /\ k.running /\ k.locks = 0 /\ k.current = t /\ at[t] = "task"
      /\ Highest(k, H) /\ Base(k, at, H) /\ Good(k, H) /\ Times(k, H)
  BY CallFacts
<1>2. k' = [k EXCEPT !.locks = 1]
  BY <1>1 DEF vTaskSuspendAll
<1>3. /\ Good(k', H) /\ Times(k', H)
      /\ k'.locks = 1 /\ k'.running = k.running /\ k'.current = k.current
      /\ k'.tick = k.tick /\ k'.item = k.item /\ k'.prio = k.prio /\ k'.base = k.base
      /\ k'.missed = k.missed /\ k'.missedYield = k.missedYield /\ k'.pending = k.pending
      /\ k'.wake = k.wake
  <2> DEFINE k0 == [k EXCEPT !.locks = 1]
  <2>1. /\ Good(k0, H) /\ Times(k0, H)
        /\ k0.locks = 1 /\ k0.running = k.running /\ k0.current = k.current
        /\ k0.tick = k.tick /\ k0.item = k.item /\ k0.prio = k.prio /\ k0.base = k.base
        /\ k0.missed = k.missed /\ k0.missedYield = k.missedYield /\ k0.pending = k.pending
        /\ k0.wake = k.wake
    BY <1>1, SetLocks
  <2>2. k' = k0
    BY <1>2
  <2> HIDE DEF k0
  <2>3. QED
    BY <2>1, <2>2
<1>4. /\ at' \in [Task -> Labels] /\ at'[t] = place
      /\ \A u \in Task \ {t} : at'[u] = at[u]
  BY <1>1 DEF Base, Labels
<1>5. Base(k', at', H)
  <2>1. \A u \in Task : at'[u] = "nowhere" <=> H[u] = "none"
    BY <1>1, <1>4 DEF Base
  <2>2. \A u \in Task : at'[u] \in {"delay", "locked"} <=> u = t
    BY <1>1, <1>4 DEF Base
  <2>3. /\ at'[Idle] \in {"task", "locked", "reap"}
        /\ at'[Idle] # "task" => \E u \in Task : H[u] = "terminated"
        /\ \A u \in Task \ {Idle} : at'[u] # "reap"
    BY <1>1, <1>4, KernelAssumption DEF Base
  <2>4. k'.pending = <<>>
    BY <1>1, <1>3 DEF Base
  <2>5. \A u : ~Contains(k'.pending, u)
    BY <2>4, EmptyList
  <2>6. QED
    BY <1>1, <1>3, <1>4, <2>1, <2>2, <2>3, <2>5 DEF Base
<1>6. InCharge(k', at', H)
  BY <1>1, <1>3 DEF InCharge, Highest
<1>7. Effect(k, H, k', H)
  <2>1. Alike(k, H, k', H)
    BY <1>3, RestAlike DEF Alike
  <2>2. Holds(k, H, k', H)
    BY <1>1, <1>3, <2>1 DEF Holds
  <2>3. QED
    BY <2>2 DEF Effect
<1>8. QED
  BY <1>5, <1>6, <1>7 DEF Sound

\* A task resumes the scheduler, and will yield if that has not and it must.
LEMMA UnlockStep ==
  ASSUME NEW H, Sound(k, at, H), NEW t \in Task, NEW place \in {"locked", "delay"},
         Runs(t, place), NEW next \in {"task", "yield", "reap"},
         next # "yield" => AlreadyYielded(k) \/ place = "locked",
         next = "reap" <=> t = Idle,
         k' = xTaskResumeAll(k), at' = [at EXCEPT ![t] = next]
  PROVE  Leads(H)
<1>1. /\ Base(k, at, H) /\ InCharge(k, at, H) /\ Good(k, H) /\ Times(k, H)
      /\ k.running /\ k.current = t /\ at[t] = place
  BY DEF Sound, Runs, Base
<1>2. /\ k.locks = 1 /\ H[Idle] = "ready" /\ Idle \in Task /\ k.current \in Task
      /\ k.prio[Idle] = 0 /\ k.base = k.prio
  BY <1>1, KernelAssumption DEF Base
<1>3. PICK H1 \in [Task -> Places] :
           /\ Good(k', H1) /\ Times(k', H1) /\ Settled(k, H, H1)
           /\ k'.running = k.running /\ k'.prio = k.prio /\ k'.base = k.base
           /\ k'.locks = 0 /\ k'.missed = 0 /\ k'.missedYield = FALSE /\ k'.pending = <<>>
           /\ AlreadyYielded(k) => Highest(k', H1)
           /\ ~AlreadyYielded(k) => k'.current = k.current
           /\ Highest(k, H) => Highest(k', H1)
           /\ Resting(k, H, k', H1, k.missed)
  BY <1>1, <1>2, ResumedAll
<1>4. /\ at' \in [Task -> Labels] /\ at'[t] = next
      /\ \A u \in Task \ {t} : at'[u] = at[u]
  BY <1>1 DEF Base, Labels
<1>5. \A u \in Task : Contains(k.pending, u) => H[u] = "suspended"
  BY <1>1, <1>2 DEF Base
<1>6. ASSUME NEW u \in Task
       PROVE  \/ H1[u] = H[u]
              \/ H[u] \in Asleep /\ H1[u] \in Asleep \cup {"ready"}
              \/ H[u] = "suspended" /\ H1[u] = "ready"
  BY <1>3, <1>5 DEF Settled
<1>7. Effect(k, H, k', H1)
  <2>1. k.missed \in Nat
    BY <1>1 DEF Good, Kernels
  <2>2. Later(k, H, k', H1, k.missed)
    BY <1>3, <1>5, <2>1, RestingAll
  <2>3. Releases(k, H, k', H1)
    BY <1>2, <1>3, <1>6, <2>2 DEF Releases
  <2>4. QED
    BY <2>3 DEF Effect
<1>8. /\ \A u \in Task : H1[u] = "none" <=> H[u] = "none"
      /\ \A u \in Task : H[u] = "terminated" => H1[u] = "terminated"
      /\ H1[Idle] = "ready"
  BY <1>2, <1>6 DEF Asleep
<1>9. place = "locked" => Highest(k', H1)
  BY <1>1, <1>3 DEF InCharge
<1>10. k'.current \in Task
  BY <1>2, <1>3 DEF Highest
<1>11. Base(k', at', H1)
  <2>1. \A u \in Task : at'[u] = "nowhere" <=> H1[u] = "none"
    BY <1>1, <1>2, <1>4, <1>8 DEF Base
  <2>2. \A u \in Task : at'[u] \notin {"delay", "locked"}
    BY <1>1, <1>4 DEF Base
  <2>3. /\ at'[Idle] \in {"task", "locked", "reap"}
        /\ at'[Idle] # "task" => \E u \in Task : H1[u] = "terminated"
        /\ \A u \in Task \ {Idle} : at'[u] # "reap"
    BY <1>1, <1>2, <1>4, <1>8 DEF Base
  <2>4. 0 <= MaxMissed
    BY TasksAssumption, KernelAssumption
  <2>5. QED
    BY <1>1, <1>2, <1>3, <1>4, <1>8, <1>10, <2>1, <2>2, <2>3, <2>4 DEF Base
<1>12. InCharge(k', at', H1)
  BY <1>1, <1>3, <1>4, <1>9 DEF InCharge
<1>13. QED
  BY <1>11, <1>12, <1>7 DEF Sound, Leads

\* A task sleeps until the counter is at time, with the scheduler suspended.
LEMMA SleepStep ==
  ASSUME NEW H, Sound(k, at, H), NEW t \in Task, t # Idle, Runs(t, "task"),
         NEW time \in 0 .. MaxDelay, time # k.tick,
         k' = DelayCurrent(vTaskSuspendAll(k), time), at' = [at EXCEPT ![t] = "delay"]
  PROVE  \E H1 \in [Task -> Places] :
           /\ Sound(k', at', H1) /\ Effect(k, H, k', H1)
           /\ H1[t] \in Asleep /\ k'.wake[t] = time /\ k'.tick = k.tick
<1> DEFINE k0 == [k EXCEPT !.locks = 1]
           l  == IF time < k0.tick THEN "overflow" ELSE "delayed"
           H1 == [H EXCEPT ![t] = l]
<1>1. /\ k.running /\ k.locks = 0 /\ k.current = t /\ at[t] = "task" /\ H[t] = "ready"
      /\ Base(k, at, H) /\ Good(k, H) /\ Times(k, H)
  BY CallFacts
<1>2. k' = DelayCurrent(k0, time)
  BY <1>1 DEF vTaskSuspendAll
<1>3. /\ Good(k0, H) /\ Times(k0, H)
      /\ k0.locks = 1 /\ k0.running = k.running /\ k0.current = k.current
      /\ k0.tick = k.tick /\ k0.item = k.item /\ k0.prio = k.prio /\ k0.base = k.base
      /\ k0.missed = k.missed /\ k0.missedYield = k.missedYield /\ k0.pending = k.pending
      /\ k0.wake = k.wake
  BY <1>1, SetLocks
<1> HIDE DEF k0
<1>4. k0.current = t /\ H[k0.current] = "ready" /\ time # k0.tick
  BY <1>1, <1>3
<1>5. LET H2 == [H EXCEPT ![k0.current] = l] IN
      /\ Good(k', H2) /\ Times(k', H2) /\ Same(k0, k') /\ k'.pending = k0.pending
      /\ k'.wake[k0.current] = time
      /\ \A u \in Task \ {k0.current} : k'.wake[u] = k0.wake[u]
  BY <1>2, <1>3, <1>4, Delayed
<1>6. /\ H1 \in [Task -> Places] /\ H1[t] = l /\ l \in Asleep
      /\ \A u \in Task \ {t} : H1[u] = H[u]
  BY <1>1 DEF Good, Asleep, Places
<1>7. Good(k', H1) /\ Times(k', H1) /\ k'.wake[t] = time
  BY <1>4, <1>5
<1>8. Effect(k, H, k', H1)
  <2>1. \A u \in Task \ {t} : k'.wake[u] = k.wake[u]
    BY <1>3, <1>4, <1>5
  <2>2. k'.tick = k.tick /\ k'.locks = 1 /\ k'.missed = k.missed
    BY <1>3, <1>5 DEF Same
  <2>3. H1 = Move(H, t, l)
    BY DEF Move
  <2> HIDE DEF H1, l
  <2>4. \A u \in Task \ {t} : Rest(k', H1, u) = Rest(k, H, u)
    BY <1>6, <2>1, <2>2, RestAlike
  <2>5. FallsAsleep(k, H, k', H1, t, l)
    BY <1>1, <1>6, <2>2, <2>3, <2>4 DEF FallsAsleep
  <2>6. QED
    BY <1>6, <2>5 DEF Effect
<1> HIDE DEF H1, l
<1>9. /\ at' \in [Task -> Labels] /\ at'[t] = "delay"
      /\ \A u \in Task \ {t} : at'[u] = at[u]
  BY <1>1 DEF Base, Labels
<1>10. Base(k', at', H1)
  <2>1. \A u \in Task : at'[u] = "nowhere" <=> H1[u] = "none"
    BY <1>1, <1>6, <1>9 DEF Base, Asleep
  <2>2. \A u \in Task : at'[u] \in {"delay", "locked"} <=> u = t
    BY <1>1, <1>9 DEF Base
  <2>3. /\ at'[Idle] = at[Idle] /\ H1[Idle] = "ready"
        /\ \A u \in Task \ {Idle} : at'[u] # "reap"
        /\ (\E u \in Task : H[u] = "terminated") => \E u \in Task : H1[u] = "terminated"
    BY <1>1, <1>6, <1>9, KernelAssumption DEF Base
  <2>4. k.pending = <<>> /\ k'.pending = k.pending
    BY <1>1, <1>3, <1>5 DEF Base
  <2>5. \A u : ~Contains(k'.pending, u)
    BY <2>4, EmptyList
  <2>6. QED
    BY <1>1, <1>3, <1>5, <1>7, <1>9, <2>1, <2>2, <2>3, <2>5 DEF Base, Same
<1>11. InCharge(k', at', H1)
  BY <1>1, <1>3, <1>5, <1>9 DEF InCharge, Same
<1>12. k'.tick = k.tick
  BY <1>3, <1>5 DEF Same
<1>13. QED
  BY <1>6, <1>7, <1>10, <1>11, <1>12, <1>8 DEF Sound

\* A task delays itself, for no time or for some.
LEMMA DelayStep ==
  ASSUME NEW H, Sound(k, at, H), NEW t \in Task \ {Idle}, NEW n \in 0 .. MaxDelay,
         vTaskDelay(t, n)
  PROVE  Leads(H)
<1>1. /\ Runs(t, "task") /\ t # Idle
      /\ IF n = 0 THEN k' = vTaskSwitchContext(k) /\ at' = at
         ELSE /\ k' = DelayCurrent(vTaskSuspendAll(k), (k.tick + n) % Ticks)
              /\ at' = [at EXCEPT ![t] = "delay"]
  BY DEF vTaskDelay, Calls, KernelBecomes, GoesTo
<1>2. CASE n = 0
  BY <1>1, <1>2, YieldStep
<1>3. CASE n # 0
  <2> DEFINE time == Wrapped(k.tick + n, Ticks)
  <2>1. k.tick \in 0 .. MaxDelay
    BY DEF Sound, Base, Good, Kernels
  <2>2. time = IF k.tick + n < Ticks THEN k.tick + n ELSE k.tick + n - Ticks
    BY <2>1, Numbers, OneTurn
  <2> HIDE DEF time
  <2>3. time \in 0 .. MaxDelay /\ time # k.tick
    BY <1>3, <2>1, <2>2, Numbers
  <2>4. k' = DelayCurrent(vTaskSuspendAll(k), time) /\ at' = [at EXCEPT ![t] = "delay"]
    BY <1>1, <1>3 DEF time, Wrapped
  <2>5. QED
    BY <1>1, <2>3, <2>4, SleepStep DEF Leads
<1>4. QED
  BY <1>2, <1>3

\* Whether or not a periodic task is in time.
LEMMA DelayUntilStep ==
  ASSUME WakeTimes, NEW H, Sound(k, at, H), NEW t \in Task \ {Idle},
         NEW n \in 1 .. MaxDelay, vTaskDelayUntil(t, n)
  PROVE  LET toWake == Wrapped(lastWake[t] + n, Ticks) IN
         \E H1 \in [Task -> Places] :
           /\ Sound(k', at', H1) /\ Effect(k, H, k', H1) /\ k'.tick = k.tick
           /\ ShouldDelay(lastWake[t], toWake, k.tick) => H1[t] \in Asleep /\ k'.wake[t] = toWake
           /\ ~ShouldDelay(lastWake[t], toWake, k.tick) => H1[t] \notin Asleep
<1> DEFINE toWake == Wrapped(lastWake[t] + n, Ticks)
<1>1. /\ Runs(t, "task") /\ t # Idle /\ t \in Periodic
      /\ k' = IF ShouldDelay(lastWake[t], toWake, k.tick)
              THEN DelayCurrent(vTaskSuspendAll(k), toWake) ELSE vTaskSuspendAll(k)
      /\ at' = [at EXCEPT ![t] = "delay"]
  BY DEF vTaskDelayUntil, Calls, GoesTo, Wrapped
<1>2. lastWake[t] \in 0 .. MaxDelay /\ k.tick \in 0 .. MaxDelay
  BY <1>1 DEF WakeTimes, Sound, Base, Good, Kernels
<1>3. toWake = IF lastWake[t] + n < Ticks THEN lastWake[t] + n ELSE lastWake[t] + n - Ticks
  BY <1>2, Numbers, OneTurn
<1> HIDE DEF toWake
<1>4. toWake \in 0 .. MaxDelay
  BY <1>2, <1>3, Numbers
<1>5. CASE ShouldDelay(lastWake[t], toWake, k.tick)
  <2>1. toWake # k.tick
    BY <1>2, <1>4, <1>5 DEF ShouldDelay
  <2>2. \E H1 \in [Task -> Places] :
          /\ Sound(k', at', H1) /\ Effect(k, H, k', H1)
          /\ H1[t] \in Asleep /\ k'.wake[t] = toWake /\ k'.tick = k.tick
    BY <1>1, <1>4, <1>5, <2>1, SleepStep
  <2>3. QED
    BY <1>5, <2>2 DEF toWake
<1>6. CASE ~ShouldDelay(lastWake[t], toWake, k.tick)
  <2>1. H[t] = "ready" /\ H \in [Task -> Places]
    BY <1>1, CallFacts DEF Sound, Base, Good
  <2>2. Sound(k', at', H) /\ Effect(k, H, k', H)
    BY <1>1, <1>6, LockStep
  <2>3. H[t] \notin Asleep
    BY <2>1 DEF Asleep
  <2>4. k'.tick = k.tick
    BY <1>1, <1>6 DEF vTaskSuspendAll, Sound, Base, Good, Kernels
  <2>5. QED
    BY <1>6, <2>1, <2>2, <2>3, <2>4 DEF toWake
<1>7. QED
  BY <1>5, <1>6

\* A task yields at the end of a delay.
LEMMA YieldsStep ==
  ASSUME NEW H, Sound(k, at, H), NEW t \in Task, Yields(t)
  PROVE  Leads(H)
<1>1. /\ k.running /\ k.current = t /\ at[t] = "yield" /\ Base(k, at, H)
      /\ k' = vTaskSwitchContext(k) /\ at' = [at EXCEPT ![t] = "task"]
  BY DEF Yields, Runs, KernelBecomes, GoesTo, Sound
<1>2. k.locks \in {0, 1} /\ H \in [Task -> Places] /\ at \in [Task -> Labels]
  BY <1>1 DEF Base, Good, Kernels
<1>3. k.locks = 0 /\ H[t] # "none" /\ t # Idle
  BY <1>1, <1>2 DEF Base
<1>4. /\ at' \in [Task -> Labels] /\ at'[t] = "task"
      /\ \A u \in Task \ {t} : at'[u] = at[u]
  BY <1>1, <1>2 DEF Labels
<1>5. Base(k, at', H)
  <2>1. \A u \in Task : at'[u] = "nowhere" <=> H[u] = "none"
    BY <1>1, <1>3, <1>4 DEF Base
  <2>2. \A u \in Task : at'[u] \notin {"delay", "locked"}
    BY <1>1, <1>3, <1>4 DEF Base
  <2>3. at'[Idle] = at[Idle] /\ \A u \in Task \ {Idle} : at'[u] # "reap"
    BY <1>1, <1>3, <1>4, KernelAssumption DEF Base
  <2>4. QED
    BY <1>1, <1>3, <1>4, <2>1, <2>2, <2>3 DEF Base
<1>6. Sound(k', at', H) /\ SameButCurrent(k, k')
  BY <1>1, <1>3, <1>5, SwitchedBase
<1>7. Effect(k, H, k', H)
  BY <1>6, StaysOn DEF SameButCurrent
<1>8. QED
  BY <1>2, <1>6, <1>7 DEF Leads

\* The idle task frees a task that was deleted.
LEMMA FreesStep ==
  ASSUME NEW H, Sound(k, at, H), IdleFrees
  PROVE  Leads(H)
<1> DEFINE u  == Head(k.terminated)
           H1 == Move(H, u, "none")
           k1 == [k EXCEPT !.terminated = Tail(@),
                           !.prio[u] = 0, !.base[u] = 0, !.item[u] = 0]
<1>1. /\ k.running /\ k.current = Idle /\ at[Idle] = "reap" /\ Base(k, at, H)
      /\ k' = k1 /\ at' = [at EXCEPT ![u] = "nowhere", ![Idle] = "task"]
  BY DEF IdleFrees, Runs, KernelBecomes, Sound
<1>2. /\ Good(k, H) /\ Times(k, H) /\ Highest(k, H) /\ k.base = k.prio
      /\ H[Idle] = "ready"
  BY <1>1 DEF Sound, Base, InCharge
<1>3. k.terminated # <<>>
  <2>1. PICK v \in Task : H[v] = "terminated"
    BY <1>1 DEF Base
  <2>2. Contains(k.terminated, v)
    BY <1>2, <2>1 DEF Good, HasPlace
  <2>3. QED
    BY <2>2, EmptyList
<1>4. /\ u \in Task /\ H[u] = "terminated" /\ Good(k1, H1) /\ Times(k1, H1)
      /\ k1.prio = [k.prio EXCEPT ![u] = 0] /\ k1.base = k1.prio
      /\ SameButPrio(k, k1) /\ k1.wake = k.wake
  <2>1. Good(k, H) /\ Times(k, H) /\ k.base = k.prio
    BY <1>2
  <2>2. /\ u \in Task /\ H[u] = "terminated" /\ Good(k1, H1) /\ Times(k1, H1)
        /\ Repriced(k, k1, u, 0) /\ k1.wake = k.wake
    BY <1>3, <2>1, Reaped
  <2> HIDE DEF k1, H1, u
  <2>3. QED
    BY <2>1, <2>2 DEF Repriced
<1> HIDE DEF k1, u
<1>5. /\ H \in [Task -> Places] /\ at \in [Task -> Labels] /\ k.prio \in [Task -> Prio]
      /\ Prio \subseteq Nat /\ Idle \in Task
  BY <1>1, <1>2, Numbers, KernelAssumption DEF Base, Good, Kernels
<1>6. /\ H1 \in [Task -> Places] /\ H1[u] = "none"
      /\ \A v \in Task \ {u} : H1[v] = H[v]
  BY <1>4, <1>5, MoveFacts DEF Places
<1>7. Effect(k, H, k', H1)
  <2>1. Timely(k, k', u)
    BY <1>1, <1>4 DEF SameButPrio, Timely
  <2>2. Way(H[u], "none")
    BY <1>4 DEF Way
  <2>3. QED
    BY <1>4, <1>5, <2>1, <2>2, MovesOn
<1> HIDE DEF H1
<1>8. u # Idle
  BY <1>2, <1>4
<1>9. /\ at' \in [Task -> Labels] /\ at'[u] = "nowhere" /\ at'[Idle] = "task"
      /\ \A v \in Task \ {u, Idle} : at'[v] = at[v]
  BY <1>1, <1>4, <1>5, <1>8 DEF Labels
<1>10. k1.prio[u] = 0 /\ \A v \in Task \ {u} : k1.prio[v] = k.prio[v]
  BY <1>4, <1>5
<1>11. Base(k', at', H1)
  <2>1. \A v \in Task : at'[v] = "nowhere" <=> H1[v] = "none"
    BY <1>1, <1>2, <1>6, <1>8, <1>9 DEF Base
  <2>2. \A v \in Task : at'[v] \in {"delay", "locked"} <=> at[v] \in {"delay", "locked"}
    <3>1. \A v \in Task : at[v] \in {"delay", "locked"} => v = Idle
      BY <1>1 DEF Base
    <3>2. \A v \in Task : at[v] \notin {"delay", "locked"}
      BY <1>1, <3>1
    <3>3. QED
      BY <1>9, <3>2
  <2>3. /\ H1[Idle] = "ready" /\ k1.prio[Idle] = 0
        /\ \A v \in Task \ {Idle} : at'[v] # "reap"
    BY <1>1, <1>2, <1>5, <1>6, <1>8, <1>9, <1>10 DEF Base
  <2>4. QED
    BY <1>1, <1>4, <1>5, <1>9, <2>1, <2>2, <2>3 DEF Base, SameButPrio
<1>12. Highest(k1, H1)
  BY <1>1, <1>2, <1>4, <1>5, <1>6, <1>8, <1>10 DEF Highest, SameButPrio
<1>13. InCharge(k', at', H1)
  BY <1>1, <1>4, <1>12 DEF InCharge, SameButPrio
<1>14. QED
  BY <1>6, <1>11, <1>13, <1>7 DEF Sound, Leads

\* The tick interrupt comes.
LEMMA TickStep ==
  ASSUME NEW H, Sound(k, at, H), vTick
  PROVE  Leads(H)
<1>1. /\ k.running /\ (k.locks > 0 => k.missed < MaxMissed) /\ Base(k, at, H)
      /\ k' = vTaskSwitchContext(vTaskIncrementTick(k)) /\ at' = at
  BY DEF vTick, KernelBecomes, Sound
<1>2. /\ Good(k, H) /\ Times(k, H) /\ k.locks \in {0, 1} /\ k.missed \in Nat
      /\ H \in [Task -> Places] /\ k \in Kernels
  BY <1>1 DEF Base, Good, Kernels
<1>3. CASE k.locks = 0
  <2> DEFINE k1 == vTaskIncrementTick(k)
  <2>1. PICK H1 \in [Task -> Places] :
           /\ Good(k1, H1) /\ Times(k1, H1) /\ SameButTick(k, k1)
           /\ Rested(H, H1) /\ k1.pending = k.pending
           /\ Later(k, H, k1, H1, 1)
    BY <1>1, <1>2, <1>3, Ticked DEF Base
  <2> HIDE DEF k1
  <2>2. /\ \A u \in Task : H1[u] = "none" <=> H[u] = "none"
        /\ \A u \in Task : H[u] = "terminated" => H1[u] = "terminated"
        /\ \A u \in Task : H[u] = "ready" => H1[u] = "ready"
    BY <2>1 DEF Rested, Asleep
  <2>3. Base(k1, at, H1)
    BY <1>1, <1>3, <2>1, <2>2, KernelAssumption DEF Base, SameButTick
  <2>4. k1.running /\ k1.locks = 0
    BY <1>1, <1>3, <2>1 DEF SameButTick
  <2> DEFINE k2 == vTaskSwitchContext(k1)
  <2>5. Sound(k2, at, H1) /\ SameButCurrent(k1, k2)
    BY <2>3, <2>4, SwitchedBase
  <2>6. k' = k2
    BY <1>1 DEF k1
  <2> HIDE DEF k2
  <2>7. \A t \in Task : Rest(k2, H1, t) = Rest(k1, H1, t)
    BY <2>5, RestAlike DEF SameButCurrent
  <2>8. Passes(k, H, k2, H1)
    BY <1>3, <2>1, <2>5, <2>7 DEF Passes, Later, SameButTick, SameButCurrent
  <2>9. QED
    BY <1>1, <2>5, <2>6, <2>8 DEF Leads, Effect
<1>4. CASE k.locks = 1
  <2> DEFINE x  == k.missed + 1
             y  == TRUE
             k1 == [k EXCEPT !.missed = x, !.missedYield = y]
  <2>1. x \in Nat /\ x <= MaxMissed /\ y \in BOOLEAN
    BY <1>1, <1>2, <1>4, TasksAssumption, KernelAssumption
  <2>2. k' = k1
    BY <1>1, <1>2, <1>4 DEF vTaskIncrementTick, vTaskSwitchContext, Kernels
  <2> HIDE DEF x, y
  <2>3. Good(k1, H) /\ Times(k1, H) /\ HasMissed(k, k1, x, y)
    BY <1>2, <2>1, SetMissed
  <2> HIDE DEF k1
  <2>4. Base(k1, at, H)
    BY <1>1, <1>4, <2>1, <2>3 DEF Base, HasMissed
  <2>5. InCharge(k1, at, H)
    BY <1>1, <2>3 DEF Sound, InCharge, Highest, HasMissed
  <2>6. Alike(k, H, k1, H)
    BY <2>3, RestAlike DEF HasMissed, Alike
  <2>7. Passes(k, H, k1, H)
    BY <1>4, <2>3, <2>6 DEF Passes, HasMissed, x
  <2>8. QED
    BY <1>1, <1>2, <2>2, <2>4, <2>5, <2>7 DEF Sound, Leads, Effect
<1>5. QED
  BY <1>2, <1>3, <1>4

\* An interrupt resumes a task.
LEMMA FromISRStep ==
  ASSUME NEW H, Sound(k, at, H), NEW u \in Task, xTaskResumeFromISR(u)
  PROVE  Leads(H)
<1>1. /\ k.running /\ xTaskIsTaskSuspended(u) /\ Base(k, at, H) /\ at' = at
      /\ k' = IF k.locks > 0 THEN [k EXCEPT !.pending = Append(@, u)]
              ELSE IF k.prio[u] >= k.prio[k.current] THEN vTaskSwitchContext(Resumed(u))
              ELSE Resumed(u)
  BY DEF xTaskResumeFromISR, KernelBecomes, Sound
<1>2. /\ Good(k, H) /\ Times(k, H) /\ k.locks \in {0, 1} /\ H \in [Task -> Places]
      /\ k.running \in BOOLEAN
  BY <1>1 DEF Base, Good, Kernels
<1>3. CASE k.locks = 0
  <2>1. k.running = TRUE /\ ~(k.locks > 0)
    BY <1>1, <1>2, <1>3
  <2>2. QED
    BY <1>1, <1>3, <2>1, Readies
<1>4. CASE k.locks = 1
  <2> DEFINE k1 == [k EXCEPT !.pending = Append(@, u)]
  <2>1. H[u] = "suspended" /\ ~Contains(k.pending, u)
    BY <1>1, ValidHome DEF xTaskIsTaskSuspended
  <2>2. Good(k1, H) /\ Times(k1, H) /\ Same(k, k1) /\ k1.wake = k.wake
    BY <1>2, <2>1, Pended DEF Stopped
  <2>3. k' = k1
    BY <1>1, <1>4
  <2> HIDE DEF k1
  <2>4. k.pending \in Lists /\ k1.pending = Append(k.pending, u)
    BY <1>2 DEF Good, Kernels, k1
  <2>5. \A v : Contains(k1.pending, v) <=> Contains(k.pending, v) \/ v = u
    BY <2>1, <2>4, AppendToList DEF List
  <2>6. \A v \in Task : Contains(k1.pending, v) => H[v] = "suspended"
    BY <1>1, <1>4, <2>1, <2>5 DEF Base
  <2>7. Base(k1, at, H)
    BY <1>1, <1>4, <2>2, <2>6 DEF Base, Same
  <2>8. InCharge(k1, at, H)
    BY <1>1, <2>2 DEF Sound, InCharge, Highest, Same
  <2>9. Effect(k, H, k1, H)
    BY <2>2, StaysOn DEF Same
  <2>10. QED
    BY <1>1, <1>2, <2>3, <2>7, <2>8, <2>9 DEF Sound, Leads
<1>5. QED
  BY <1>2, <1>3, <1>4

-----------------------------------------------------------------------------
(* Its induction                                                             *)

\* A counter that was at x, s from l, and is at x1 has gone on by their difference.
LEMMA GoesOn ==
  ASSUME NEW N \in Nat \ {0}, NEW l \in 0 .. N-1, NEW x \in 0 .. N-1, NEW x1 \in 0 .. N-1,
         NEW s \in Int, NEW d \in 0 .. N-1, -N < s, s + d < N,
         x = Wrapped(l + s, N), d = Wrapped(x1 - x, N)
  PROVE  x1 = Wrapped(l + (s + d), N)
<1> DEFINE y == Wrapped(l + (s + d), N)
<1>1. x = IF l + s < 0 THEN l + s + N ELSE IF l + s < N THEN l + s ELSE l + s - N
  BY OneTurn
<1>2. d = IF x1 - x < 0 THEN x1 - x + N ELSE x1 - x
  BY OneTurn
<1>3. y = IF l + (s + d) < 0 THEN l + (s + d) + N
          ELSE IF l + (s + d) < N THEN l + (s + d) ELSE l + (s + d) - N
  BY OneTurn
<1> HIDE DEF y
<1>4. x1 = y
  BY <1>1, <1>2, <1>3
<1>5. QED
  BY <1>4 DEF y

\* Whatever a call or an interrupt does, the counter goes on as the history says.
LEMMA HistoryKept ==
  ASSUME WakeTimes, NEW k1, KernelBecomes(k1), lastWake' = lastWake,
         k.tick \in 0 .. MaxDelay, k1.tick \in 0 .. MaxDelay
  PROVE  WakeTimes'
<1> DEFINE d == Wrapped(k1.tick - k.tick, Ticks)
<1>1. d = IF k1.tick < k.tick THEN k1.tick - k.tick + Ticks ELSE k1.tick - k.tick
  BY Numbers, OneTurn
<1>2. \A t \in Periodic :
        since'[t] = IF since[t] + d > Ticks THEN Ticks ELSE since[t] + d
  BY DEF KernelBecomes, Wrapped
<1>3. since' = [t \in Periodic |-> since'[t]] /\ k' = k1
  BY DEF KernelBecomes
<1> HIDE DEF d
<1>4. ASSUME NEW t \in Periodic
      PROVE  /\ since'[t] \in -MaxDelay .. Ticks
             /\ since'[t] <= MaxDelay => k1.tick = Wrapped(lastWake[t] + since'[t], Ticks)
  <2>1. /\ lastWake[t] \in 0 .. MaxDelay /\ since[t] \in -MaxDelay .. Ticks
        /\ since[t] <= MaxDelay => k.tick = Wrapped(lastWake[t] + since[t], Ticks)
    BY DEF WakeTimes
  <2>2. d \in 0 .. MaxDelay
    BY <1>1, Numbers
  <2>3. since'[t] = IF since[t] + d > Ticks THEN Ticks ELSE since[t] + d
    BY <1>2
  <2>4. since'[t] \in -MaxDelay .. Ticks
    BY <2>1, <2>2, <2>3, Numbers
  <2>5. CASE since'[t] <= MaxDelay
    <3>1. since'[t] = since[t] + d /\ since[t] <= MaxDelay
      BY <2>1, <2>2, <2>3, <2>5, Numbers
    <3>2. /\ Ticks \in Nat \ {0} /\ k.tick = Wrapped(lastWake[t] + since[t], Ticks)
          /\ lastWake[t] \in 0 .. Ticks-1 /\ k.tick \in 0 .. Ticks-1
          /\ k1.tick \in 0 .. Ticks-1 /\ d \in 0 .. Ticks-1 /\ since[t] \in Int
          /\ -Ticks < since[t] /\ since[t] + d < Ticks
      BY <2>1, <2>2, <2>5, <3>1, Numbers
    <3>3. d = Wrapped(k1.tick - k.tick, Ticks)
      BY DEF d
    <3>4. k1.tick = Wrapped(lastWake[t] + (since[t] + d), Ticks)
      BY <3>2, <3>3, GoesOn
    <3>5. QED
      BY <2>4, <3>1, <3>4
  <2>6. QED
    BY <2>4, <2>5
<1>5. QED
  BY <1>3, <1>4 DEF WakeTimes

\* The periodic task that has delayed counts from the wake time it asked for.
LEMMA HistoryAfterDelay ==
  ASSUME WakeTimes, NEW t \in Task, NEW n \in 1 .. MaxDelay, vTaskDelayUntil(t, n),
         k.tick \in 0 .. MaxDelay, k'.tick = k.tick
  PROVE  WakeTimes'
<1> DEFINE toWake == Wrapped(lastWake[t] + n, Ticks)
           s      == IF since[t] \in 0 .. MaxDelay THEN since[t] - n ELSE Ticks
<1>1. /\ t \in Periodic /\ lastWake' = [lastWake EXCEPT ![t] = toWake]
      /\ since' = [since EXCEPT ![t] = s]
  BY DEF vTaskDelayUntil, Wrapped
<1>2. /\ lastWake \in [Periodic -> 0 .. MaxDelay]
      /\ since \in [Periodic -> -MaxDelay .. Ticks]
      /\ \A u \in Periodic : since[u] <= MaxDelay =>
           k.tick = Wrapped(lastWake[u] + since[u], Ticks)
  BY DEF WakeTimes
<1>3. lastWake[t] \in 0 .. MaxDelay
  BY <1>1, <1>2
<1>4. toWake = IF lastWake[t] + n < Ticks THEN lastWake[t] + n ELSE lastWake[t] + n - Ticks
  BY <1>3, Numbers, OneTurn
<1>5. s \in -MaxDelay .. Ticks /\ toWake \in 0 .. MaxDelay
  BY <1>3, <1>4, Numbers
<1>6. s <= MaxDelay => k.tick = Wrapped(toWake + s, Ticks)
  <2>1. CASE since[t] \in 0 .. MaxDelay
    <3> DEFINE x == Wrapped(lastWake[t] + since[t], Ticks)
               y == Wrapped(toWake + s, Ticks)
    <3>1. x = IF lastWake[t] + since[t] < Ticks THEN lastWake[t] + since[t]
                                                ELSE lastWake[t] + since[t] - Ticks
      BY <1>3, <2>1, Numbers, OneTurn
    <3>2. y = IF toWake + s < 0 THEN toWake + s + Ticks
              ELSE IF toWake + s < Ticks THEN toWake + s ELSE toWake + s - Ticks
      <4> DEFINE z == toWake + s
      <4>1. z \in Int /\ -Ticks <= z /\ z < 2 * Ticks
        BY <1>5, <2>1, Numbers
      <4>2. z = toWake + s /\ y = Wrapped(z, Ticks) /\ Ticks \in Nat \ {0}
        BY Numbers
      <4> HIDE DEF z, toWake, s, y
      <4>3. Wrapped(z, Ticks) = IF z < 0 THEN z + Ticks ELSE IF z < Ticks THEN z ELSE z - Ticks
        BY <4>1, <4>2, OneTurn
      <4>4. QED
        BY <1>5, <4>1, <4>2, <4>3, Numbers
    <3>3. s = since[t] - n /\ k.tick = x
      BY <1>1, <1>2, <2>1, Numbers
    <3> HIDE DEF x, y, toWake, s
    <3>4. x = y
      BY <1>3, <1>4, <2>1, <3>1, <3>2, <3>3, Numbers
    <3>5. QED
      BY <3>3, <3>4 DEF y
  <2>2. CASE since[t] \notin 0 .. MaxDelay
    BY <2>2, Numbers
  <2>3. QED
    BY <2>1, <2>2
<1> HIDE DEF toWake, s
<1>7. QED
  BY <1>1, <1>2, <1>5, <1>6 DEF WakeTimes

\* What WakeTimes says stays true in every step.
LEMMA HistoryStep ==
  ASSUME WakeTimes, NEW H, Sound(k, at, H), Next, k'.tick \in 0 .. MaxDelay
  PROVE  WakeTimes'
<1>1. k.tick \in 0 .. MaxDelay /\ Ticks \in Nat /\ MaxDelay \in Nat
  BY Numbers DEF Sound, Base, Good, Kernels
<1>2. ASSUME NEW k1, KernelBecomes(k1), UNCHANGED lastWake
      PROVE  WakeTimes'
  <2>1. k1.tick \in 0 .. MaxDelay
    BY <1>2 DEF KernelBecomes
  <2>2. QED
    BY <1>1, <1>2, <2>1, HistoryKept
<1>3. ASSUME NEW t \in Task \ {Idle}, NEW n \in 1 .. MaxDelay, vTaskDelayUntil(t, n)
      PROVE  WakeTimes'
  <2>1. k'.tick = k.tick
    BY <1>3, DelayUntilStep
  <2>2. QED
    BY <1>1, <1>3, <2>1, HistoryAfterDelay
<1>4. ASSUME NEW t \in Task, xTaskGetTickCount(t)
      PROVE  WakeTimes'
  <2>1. /\ t \in Periodic /\ lastWake' = [lastWake EXCEPT ![t] = k.tick]
        /\ since' = [since EXCEPT ![t] = 0] /\ k' = k
    BY <1>4 DEF xTaskGetTickCount
  <2>2. 0 \in -MaxDelay .. Ticks /\ Wrapped(k.tick + 0, Ticks) = k.tick
    BY <1>1, Numbers, OneTurn
  <2>3. QED
    BY <1>1, <2>1, <2>2 DEF WakeTimes
<1>5. ASSUME NEW t \in Task \ {Idle}, Step(t)
      PROVE  WakeTimes'
  <2>1. \/ \E k1 : KernelBecomes(k1) /\ UNCHANGED lastWake
        \/ \E n \in 1 .. MaxDelay : vTaskDelayUntil(t, n)
        \/ xTaskGetTickCount(t)
    <3>1. CASE \E u \in Task, p \in Prio : xTaskCreate(t, u, p)
      BY <3>1, Zenon DEF xTaskCreate
    <3>2. CASE \E u \in Task, p \in Prio : vTaskPrioritySet(t, u, p)
      BY <3>2, Zenon DEF vTaskPrioritySet
    <3>3. CASE \E u \in Task : vTaskDelete(t, u)
      BY <3>3, Zenon DEF vTaskDelete
    <3>4. CASE \E u \in Task : vTaskSuspend(t, u)
      BY <3>4, Zenon DEF vTaskSuspend
    <3>5. CASE \E u \in Task : vTaskResume(t, u)
      BY <3>5, Zenon DEF vTaskResume
    <3>6. CASE taskYIELD(t) \/ SuspendsScheduler(t) \/ ResumesScheduler(t)
      BY <3>6, Zenon DEF taskYIELD, SuspendsScheduler, ResumesScheduler
    <3>7. CASE \E n \in 0 .. MaxDelay : vTaskDelay(t, n)
      BY <3>7, Zenon DEF vTaskDelay
    <3>8. CASE EndsDelay(t) \/ Yields(t)
      BY <3>8, Zenon DEF EndsDelay, Yields
    <3>9. QED
      BY <1>5, <3>1, <3>2, <3>3, <3>4, <3>5, <3>6, <3>7, <3>8 DEF Step
  <2>2. QED
    BY <1>2, <1>3, <1>4, <2>1
<1>6. CASE \E t \in Task, p \in Prio : MainCreates(t, p)
  BY <1>2, <1>6, Zenon DEF MainCreates
<1>7. CASE vTaskStartScheduler
  BY <1>2, <1>7, Zenon DEF vTaskStartScheduler
<1>8. CASE IdleStep
  BY <1>2, <1>8, Zenon DEF IdleStep, IdleLooks, IdleHasLooked, IdleFrees, IdleYields
<1>9. CASE vTick
  BY <1>2, <1>9, Zenon DEF vTick
<1>10. CASE \E u \in Task : xTaskResumeFromISR(u)
  BY <1>2, <1>10, Zenon DEF xTaskResumeFromISR
<1>11. QED
  BY <1>5, <1>6, <1>7, <1>8, <1>9, <1>10 DEF Next

\* A deleted task that is not freed yet is in a list.
LEMMA SomeoneDeleted ==
  ASSUME NEW H, Sound(k, at, H), k.terminated # <<>>
  PROVE  \E u \in Task : H[u] = "terminated"
<1>1. k.terminated \in Seq(Task) /\ \A u \in Task : HasPlace(k, u, H[u])
  BY DEF Sound, Base, Good, Kernels, Lists
<1>2. Head(k.terminated) \in Task /\ Contains(k.terminated, Head(k.terminated))
  BY <1>1, SomeoneInList
<1>3. QED
  BY <1>1, <1>2 DEF HasPlace

\* A task or the idle task does something, from its code or in a call.
LEMMA AnyTaskStep ==
  ASSUME WakeTimes, NEW H, Sound(k, at, H), NEW t \in Task \ {Idle}, Step(t)
  PROVE  Leads(H)
<1>1. ASSUME NEW u \in Task, NEW p \in Prio, xTaskCreate(t, u, p) \/ vTaskPrioritySet(t, u, p)
      PROVE  Leads(H)
  BY <1>1, CreateStep, PriorityStep
<1>2. ASSUME NEW u \in Task, vTaskDelete(t, u) \/ vTaskSuspend(t, u) \/ vTaskResume(t, u)
      PROVE  Leads(H)
  BY <1>2, DeleteStep, SuspendStep, ResumeStep
<1>3. ASSUME taskYIELD(t)
      PROVE  Leads(H)
  <2>1. Runs(t, "task") /\ k' = vTaskSwitchContext(k) /\ at' = at
    BY <1>3 DEF taskYIELD, Calls, KernelBecomes
  <2>2. QED
    BY <2>1, YieldStep
<1>4. ASSUME SuspendsScheduler(t)
      PROVE  Leads(H)
  <2>1. Runs(t, "task") /\ k' = vTaskSuspendAll(k) /\ at' = [at EXCEPT ![t] = "locked"]
    BY <1>4 DEF SuspendsScheduler, Calls, KernelBecomes, GoesTo
  <2>2. Sound(k', at', H) /\ Effect(k, H, k', H)
    BY <2>1, LockStep
  <2>3. QED
    BY <2>2 DEF Sound, Base, Good, Leads
<1>5. ASSUME ResumesScheduler(t)
      PROVE  Leads(H)
  <2>1. Runs(t, "locked") /\ k' = xTaskResumeAll(k) /\ at' = [at EXCEPT ![t] = "task"]
    BY <1>5 DEF ResumesScheduler, KernelBecomes, GoesTo
  <2>2. QED
    BY <2>1, UnlockStep
<1>6. ASSUME NEW n \in 0 .. MaxDelay, vTaskDelay(t, n)
      PROVE  Leads(H)
  BY <1>6, DelayStep
<1>7. ASSUME NEW n \in 1 .. MaxDelay, vTaskDelayUntil(t, n)
      PROVE  Leads(H)
  BY <1>7, DelayUntilStep DEF Leads
<1>8. ASSUME xTaskGetTickCount(t)
      PROVE  Leads(H)
  <2>1. k' = k /\ at' = at
    BY <1>8 DEF xTaskGetTickCount
  <2>2. Effect(k, H, k', H)
    BY <2>1, StaysOn
  <2>3. QED
    BY <2>1, <2>2 DEF Sound, Base, Good, Leads
<1>9. ASSUME EndsDelay(t)
      PROVE  Leads(H)
  <2> DEFINE next == IF AlreadyYielded(k) THEN "task" ELSE "yield"
  <2>1. Runs(t, "delay") /\ k' = xTaskResumeAll(k) /\ at' = [at EXCEPT ![t] = next]
    BY <1>9 DEF EndsDelay, KernelBecomes, GoesTo
  <2>2. next \in {"task", "yield"} /\ (next # "yield" => AlreadyYielded(k))
    OBVIOUS
  <2> HIDE DEF next
  <2>3. QED
    BY <2>1, <2>2, UnlockStep
<1>10. ASSUME Yields(t)
      PROVE  Leads(H)
  BY <1>10, YieldsStep
<1>11. QED
  BY <1>1, <1>2, <1>3, <1>4, <1>5, <1>6, <1>7, <1>8, <1>9, <1>10 DEF Step

\* The idle task does something.
LEMMA IdleTaskStep ==
  ASSUME NEW H, Sound(k, at, H), IdleStep
  PROVE  Leads(H)
<1>1. Idle \in Task
  BY KernelAssumption
<1>2. ASSUME IdleLooks
      PROVE  Leads(H)
  <2>1. /\ Runs(Idle, "task") /\ k' = vTaskSuspendAll(k) /\ at' = [at EXCEPT ![Idle] = "locked"]
        /\ k.terminated # <<>>
    BY <1>2 DEF IdleLooks, KernelBecomes, GoesTo
  <2>2. \E u \in Task : H[u] = "terminated"
    BY <2>1, SomeoneDeleted
  <2>3. Sound(k', at', H) /\ Effect(k, H, k', H)
    BY <1>1, <2>1, <2>2, LockStep
  <2>4. QED
    BY <2>3 DEF Sound, Base, Good, Leads
<1>3. ASSUME IdleHasLooked
      PROVE  Leads(H)
  <2>1. Runs(Idle, "locked") /\ k' = xTaskResumeAll(k) /\ at' = [at EXCEPT ![Idle] = "reap"]
    BY <1>3 DEF IdleHasLooked, KernelBecomes, GoesTo
  <2>2. QED
    BY <1>1, <2>1, UnlockStep
<1>4. ASSUME IdleYields
      PROVE  Leads(H)
  <2>1. Runs(Idle, "task") /\ k' = vTaskSwitchContext(k) /\ at' = at
    BY <1>4 DEF IdleYields, KernelBecomes
  <2>2. QED
    BY <1>1, <2>1, YieldStep
<1>5. QED
  BY <1>2, <1>3, <1>4, FreesStep DEF IdleStep

\* The places of the tasks change in every step, and the kernel stays sound.
LEMMA SoundStep ==
  ASSUME WakeTimes, NEW H, Sound(k, at, H), Next
  PROVE  Leads(H)
<1>1. CASE \E t \in Task, p \in Prio : MainCreates(t, p)
  BY <1>1, MainCreatesStep
<1>2. CASE vTaskStartScheduler
  BY <1>2, StartStep
<1>3. CASE \E t \in Task \ {Idle} : Step(t)
  BY <1>3, AnyTaskStep
<1>4. CASE IdleStep
  BY <1>4, IdleTaskStep
<1>5. CASE vTick
  BY <1>5, TickStep
<1>6. CASE \E u \in Task : xTaskResumeFromISR(u)
  BY <1>6, FromISRStep
<1>7. QED
  BY <1>1, <1>2, <1>3, <1>4, <1>5, <1>6 DEF Next

\* Every step keeps the inductive invariant.
LEMMA Inductive == IInv /\ [Next]_vars => IInv'
<1> SUFFICES ASSUME IInv, [Next]_vars PROVE IInv'
  OBVIOUS
<1>1. WakeTimes
  BY DEF IInv
<1>2. PICK H \in [Task -> Places] : Sound(k, at, H)
  BY DEF IInv
<1>3. CASE Next
  <2>1. PICK H1 \in [Task -> Places] : Sound(k', at', H1)
    BY <1>1, <1>2, <1>3, SoundStep DEF Leads
  <2>2. k'.tick \in 0 .. MaxDelay
    BY <2>1 DEF Sound, Base, Good, Kernels
  <2>3. WakeTimes'
    BY <1>1, <1>2, <1>3, <2>2, HistoryStep
  <2>4. QED
    BY <2>1, <2>3 DEF IInv
<1>4. CASE UNCHANGED vars
  <2>1. k' = k /\ at' = at /\ lastWake' = lastWake /\ since' = since
    BY <1>4 DEF vars
  <2>2. WakeTimes'
    BY <1>1, <2>1 DEF WakeTimes
  <2>3. Sound(k', at', H)
    BY <1>2, <2>1
  <2>4. QED
    BY <1>2, <2>2, <2>3 DEF IInv
<1>5. QED
  BY <1>3, <1>4

\* The inductive invariant of the scheduler.
THEOREM SchedulerInvariant == Spec => []IInv
<1>1. Init => IInv
  <2> SUFFICES ASSUME Init PROVE IInv
    OBVIOUS
  <2> DEFINE H == [t \in Task |-> "none"]
  <2>1. H \in [Task -> Places]
    BY DEF Places
  <2>2. WakeTimes /\ Sound(k, at, H)
    BY Beginning
  <2> HIDE DEF H
  <2>3. QED
    BY <2>1, <2>2 DEF IInv
<1>2. QED
  BY <1>1, Inductive, PTL DEF Spec

-----------------------------------------------------------------------------
(* What it implies                                                           *)

\* What IInv says of the lists.
LEMMA Consistent == IInv => ListsConsistent
<1> SUFFICES ASSUME IInv PROVE ListsConsistent
  OBVIOUS
<1>1. PICK H \in [Task -> Places] : Sound(k, at, H)
  BY DEF IInv
<1>2. /\ Base(k, at, H) /\ Good(k, H) /\ Times(k, H) /\ k \in Kernels
      /\ \A t \in Task : HasPlace(k, t, H[t])
  BY <1>1 DEF Sound, Base, Good
<1>3. TypeOK
  <2>1. DOMAIN k = DOMAIN Kernel0
    BY <1>2 DEF Kernels, Kernel0
  <2>2. /\ k.running \in BOOLEAN /\ k.current \in Task \cup {None}
        /\ k.tick \in 0 .. MaxDelay /\ k.next \in 0 .. MaxDelay
        /\ k.overflows \in 0 .. Overflows - 1
        /\ k.ready \in [Prio -> Lists] /\ k.waiting \in [EventList -> Lists]
        /\ k.delayed \in Lists /\ k.overflow \in Lists /\ k.pending \in Lists
        /\ k.terminated \in Lists /\ k.suspended \subseteq Task
        /\ k.wake \in [Task -> 0 .. MaxDelay]
        /\ k.item \in [Task -> Prio] /\ k.prio \in [Task -> Prio]
        /\ k.base \in [Task -> Prio] /\ k.top \in Prio
        /\ k.locks \in {0, 1} /\ k.missed \in Nat /\ k.missedYield \in BOOLEAN
    BY <1>2 DEF Kernels
  <2>3. Lists \subseteq Seq(Task)
    BY DEF Lists
  <2>4. k.ready \in [Prio -> Seq(Task)] /\ k.waiting \in [EventList -> Seq(Task)]
    BY <2>2, <2>3
  <2>5. k.missed \in 0 .. MaxMissed
    BY <1>2, <2>2, TasksAssumption, KernelAssumption DEF Base
  <2>6. at \in [Task -> {"nowhere", "task", "delay", "yield", "locked", "reap"}]
    BY <1>2 DEF Base, Labels
  <2>7. /\ lastWake \in [Periodic -> 0 .. MaxDelay]
        /\ since \in [Periodic -> -MaxDelay .. Ticks]
    BY DEF IInv, WakeTimes
  <2>8. k.locks = 0 => k.pending = <<>> /\ k.missed = 0 /\ ~k.missedYield
    BY <1>2 DEF Base
  <2>9. QED
    BY <2>1, <2>2, <2>3, <2>4, <2>5, <2>6, <2>7, <2>8 DEF TypeOK
<1>4. ASSUME NEW t \in Task
      PROVE  \E l \in Home : IsAt(t, l) /\ (Exists(t) <=> l # "none")
  <2>1. H[t] \in Home /\ IsAt(t, H[t])
    BY <1>2 DEF Home, Places, IsAt, IsReady, HasPlace
  <2>2. Exists(t) <=> H[t] # "none"
    BY <1>1, ValidHome
  <2>3. QED
    BY <2>1, <2>2
<1>5. /\ k.delayed \in Lists /\ k.overflow \in Lists /\ k.terminated \in Lists
      /\ k.pending \in Lists /\ \A p \in Prio : k.ready[p] \in Lists
  BY <1>2 DEF Kernels
<1>6. \A s \in {k.delayed, k.overflow, k.terminated, k.pending} : IsInjective(s)
  BY <1>5 DEF Lists
<1>7. ASSUME NEW p \in Prio
      PROVE  IsInjective(k.ready[p]) /\ (k.ready[p] # <<>> => p <= k.top)
  <2>1. IsInjective(k.ready[p]) /\ k.ready[p] \in Seq(Task)
    BY <1>5 DEF Lists
  <2>2. ASSUME k.ready[p] # <<>> PROVE p <= k.top
    <3>1. PICK t \in Task : Contains(k.ready[p], t)
      BY <2>1, <2>2, SomeoneInList
    <3>2. H[t] = "ready" /\ p = k.prio[t]
      BY <1>2, <3>1 DEF HasPlace
    <3>3. QED
      BY <1>2, <3>2 DEF Good
  <2>3. QED
    BY <2>1, <2>2
<1>8. ASSUME NEW t \in Task, Contains(k.pending, t)
      PROVE  t \in k.suspended
  <2>1. k.locks = 1
    BY <1>2, <1>8, EmptyList DEF Base, Kernels
  <2>2. H[t] = "suspended"
    BY <1>2, <1>8, <2>1 DEF Base
  <2>3. QED
    BY <1>2, <2>2 DEF HasPlace
<1>9. Sorted(k.delayed) /\ Sorted(k.overflow)
  BY <1>2 DEF Good, InOrder, Sorted
<1>10. ASSUME NEW i \in 1 .. Len(k.delayed)
       PROVE  k.wake[k.delayed[i]] > k.tick
  <2>1. k.delayed[i] \in Task /\ Contains(k.delayed, k.delayed[i])
    BY <1>5, ListFacts DEF List, Contains
  <2>2. H[k.delayed[i]] = "delayed"
    BY <1>2, <2>1 DEF HasPlace
  <2>3. QED
    BY <1>2, <2>1, <2>2 DEF Times
<1>11. ASSUME NEW i \in 1 .. Len(k.overflow)
       PROVE  k.wake[k.overflow[i]] < k.tick
  <2>1. k.overflow[i] \in Task /\ Contains(k.overflow, k.overflow[i])
    BY <1>5, ListFacts DEF List, Contains
  <2>2. H[k.overflow[i]] = "overflow"
    BY <1>2, <2>1 DEF HasPlace
  <2>3. QED
    BY <1>2, <2>1, <2>2 DEF Times
<1>12. k.next <= WakeTime(k, k.delayed)
  <2>1. CASE k.delayed = <<>>
    BY <1>2, <2>1, Numbers DEF WakeTime, Kernels
  <2>2. CASE k.delayed # <<>>
    <3>1. Head(k.delayed) \in Task /\ Contains(k.delayed, Head(k.delayed))
      BY <1>5, <2>2, SomeoneInList DEF Lists
    <3>2. k.next <= k.wake[Head(k.delayed)]
      BY <1>2, <3>1 DEF HasPlace, Times
    <3>3. QED
      BY <2>2, <3>2 DEF WakeTime
  <2>3. QED
    BY <2>1, <2>2
<1>13. QED
  BY <1>3, <1>4, <1>6, <1>7, <1>8, <1>9, <1>10, <1>11, <1>12 DEF ListsConsistent

\* Every task is in one list, once, and every list is in order, always.
THEOREM ListsAlwaysConsistent == Spec => []ListsConsistent
  BY SchedulerInvariant, Consistent, PTL

\* What IInv says of the running task.
LEMMA HighestRuns == IInv => RunsHighest
<1> SUFFICES ASSUME IInv, k.running, k.locks = 0, at[k.current] # "yield"
             PROVE  /\ IsReady(k, k.current, k.prio[k.current])
                    /\ \A p \in Prio : p > k.prio[k.current] => k.ready[p] = <<>>
  BY DEF RunsHighest
<1>1. PICK H \in [Task -> Places] : Sound(k, at, H)
  BY DEF IInv
<1>2. /\ Base(k, at, H) /\ k \in Kernels /\ k.current \in Task
      /\ \A t \in Task : HasPlace(k, t, H[t])
  BY <1>1 DEF Sound, Base, Good
<1>3. at[k.current] # "delay"
  BY <1>2 DEF Base
<1>4. Highest(k, H)
  BY <1>1, <1>3 DEF Sound, InCharge
<1>5. IsReady(k, k.current, k.prio[k.current])
  BY <1>1, <1>2, <1>4, ValidHome DEF Highest
<1>6. ASSUME NEW p \in Prio, p > k.prio[k.current], k.ready[p] # <<>>
      PROVE  FALSE
  <2>1. k.ready[p] \in Seq(Task)
    BY <1>2 DEF Kernels, Lists
  <2>2. PICK t \in Task : Contains(k.ready[p], t)
    BY <1>6, <2>1, SomeoneInList
  <2>3. H[t] = "ready" /\ p = k.prio[t]
    BY <1>2, <2>2 DEF HasPlace
  <2>4. p <= k.prio[k.current]
    BY <1>4, <2>3 DEF Highest
  <2>5. p \in Nat /\ k.prio[k.current] \in Nat
    BY <1>2, Numbers DEF Kernels
  <2>6. QED
    BY <1>6, <2>4, <2>5
<1>7. QED
  BY <1>5, <1>6

\* No task of a higher priority than the running one is ever ready.
THEOREM HighestAlwaysRuns == Spec => []RunsHighest
  BY SchedulerInvariant, HighestRuns, PTL

\* A call of vTaskDelayUntil by a task that is in time.
LEMMA OnTime ==
  ASSUME IInv, NEW t \in Periodic, NEW n \in 1 .. MaxDelay, vTaskDelayUntil(t, n),
         since[t] \in 0 .. MaxDelay
  PROVE  IF n > since[t]
         THEN Sleeps(t)' /\ (k'.wake[t] - k.tick) % Ticks = n - since[t]
         ELSE ~Sleeps(t)'
<1> DEFINE toWake == Wrapped(lastWake[t] + n, Ticks)
           d      == Wrapped(toWake - k.tick, Ticks)
<1>1. PICK H \in [Task -> Places] : Sound(k, at, H)
  BY DEF IInv
<1>2. WakeTimes /\ t \in Task /\ t # Idle
  BY TasksAssumption DEF IInv, vTaskDelayUntil, Calls
<1>3. PICK H1 \in [Task -> Places] :
         /\ Sound(k', at', H1) /\ k'.tick = k.tick
         /\ ShouldDelay(lastWake[t], toWake, k.tick) => H1[t] \in Asleep /\ k'.wake[t] = toWake
         /\ ~ShouldDelay(lastWake[t], toWake, k.tick) => H1[t] \notin Asleep
  BY <1>1, <1>2, DelayUntilStep
<1>4. Sleeps(t)' <=> H1[t] \in Asleep
  <2>1. HasPlace(k', t, H1[t])
    BY <1>2, <1>3 DEF Sound, Base, Good
  <2>2. QED
    BY <2>1 DEF Sleeps, HasPlace, Asleep
<1>5. /\ lastWake[t] \in 0 .. Ticks-1 /\ k.tick \in 0 .. Ticks-1
      /\ k.tick = Wrapped(lastWake[t] + since[t], Ticks)
      /\ n \in 1 .. Ticks-1 /\ since[t] \in 0 .. Ticks-1
      /\ Ticks \in Nat \ {0}
  BY <1>1, <1>2, Numbers DEF WakeTimes, Sound, Base, Good, Kernels
<1>6. ShouldDelay(lastWake[t], toWake, k.tick) <=> since[t] < n
  <2>1. n \in 0 .. Ticks-1
    BY <1>5
  <2>2. ShouldDelay(lastWake[t], (lastWake[t] + n) % Ticks, (lastWake[t] + since[t]) % Ticks)
          <=> since[t] < n
    BY <1>5, <2>1, ShouldDelayIsRight
  <2>3. k.tick = (lastWake[t] + since[t]) % Ticks /\ toWake = (lastWake[t] + n) % Ticks
    BY <1>5 DEF Wrapped
  <2> HIDE DEF toWake
  <2>4. QED
    BY <2>2, <2>3
<1>7. ASSUME since[t] < n PROVE d = n - since[t]
  <2>1. k.tick = IF lastWake[t] + since[t] < Ticks THEN lastWake[t] + since[t]
                                                   ELSE lastWake[t] + since[t] - Ticks
    BY <1>5, OneTurn
  <2>2. toWake = IF lastWake[t] + n < Ticks THEN lastWake[t] + n ELSE lastWake[t] + n - Ticks
    BY <1>5, OneTurn
  <2>3. toWake \in 0 .. Ticks-1
    BY <1>5, <2>2
  <2> HIDE DEF toWake
  <2>4. d = IF toWake - k.tick < 0 THEN toWake - k.tick + Ticks ELSE toWake - k.tick
    BY <1>5, <2>3, OneTurn
  <2> HIDE DEF d
  <2>5. QED
    BY <1>5, <1>7, <2>1, <2>2, <2>3, <2>4
<1> HIDE DEF toWake
<1>8. CASE since[t] < n
  <2>1. Sleeps(t)' /\ k'.wake[t] = toWake
    BY <1>3, <1>4, <1>6, <1>8
  <2>2. (k'.wake[t] - k.tick) % Ticks = n - since[t]
    BY <1>7, <1>8, <2>1 DEF Wrapped
  <2>3. QED
    BY <1>5, <1>8, <2>1, <2>2
<1>9. CASE ~(since[t] < n)
  BY <1>3, <1>4, <1>5, <1>6, <1>9
<1>10. QED
  BY <1>8, <1>9

\* A task that calls vTaskDelayUntil in time sleeps for what is left of its period.
THEOREM AlwaysPunctual == Spec => Punctual
<1>1. IInv /\ [Next]_vars =>
        [\A t \in Periodic, n \in 1 .. MaxDelay :
           vTaskDelayUntil(t, n) /\ since[t] \in 0 .. MaxDelay =>
             IF n > since[t]
             THEN Sleeps(t)' /\ (k'.wake[t] - k.tick) % Ticks = n - since[t]
             ELSE ~Sleeps(t)']_vars
  BY OnTime
<1>2. QED
  BY <1>1, SchedulerInvariant, PTL DEF Spec, Punctual

-----------------------------------------------------------------------------
(* What it implements                                                        *)

\* What the abstract alarm sees of the kernel m, with the tasks where H says.
Sleepers(H) == {t \in Task : H[t] \in Asleep}
Lefts(m, H) == [t \in Task |-> IF H[t] \in Asleep THEN Rest(m, H, t) - m.missed ELSE 0]
Idlers(H)   == {t \in Task : H[t] \in {"none", "terminated", "suspended"}}

\* What the alarm is shown of one task,
LEMMA Seen ==
  ASSUME NEW m, NEW a, NEW H, Sound(m, a, H), NEW t \in Task
  PROVE  /\ Contains(m.delayed, t) \/ Contains(m.overflow, t) <=> H[t] \in Asleep
         /\ H[t] \in Asleep => (m.wake[t] - m.tick) % Ticks = Rest(m, H, t)
         /\ a[t] = "nowhere" \/ Contains(m.terminated, t) \/ t \in m.suspended
              <=> H[t] \in {"none", "terminated", "suspended"}
<1>1. /\ Good(m, H) /\ Times(m, H) /\ HasPlace(m, t, H[t]) /\ m \in Kernels
      /\ a[t] = "nowhere" <=> H[t] = "none"
  BY DEF Sound, Base, Good
<1>2. ASSUME H[t] \in Asleep PROVE (m.wake[t] - m.tick) % Ticks = Rest(m, H, t)
  <2>1. /\ m.wake[t] \in 0 .. MaxDelay /\ m.tick \in 0 .. MaxDelay
        /\ H[t] = "delayed" => m.wake[t] > m.tick
        /\ H[t] = "overflow" => m.wake[t] < m.tick
    BY <1>1, KernelNumbers DEF Times
  <2>2. Wrapped(m.wake[t] - m.tick, Ticks)
          = IF m.wake[t] - m.tick < 0 THEN m.wake[t] - m.tick + Ticks
                                      ELSE m.wake[t] - m.tick
    BY <2>1, Numbers, OneTurn
  <2>3. QED
    BY <1>2, <2>1, <2>2, Numbers DEF Rest, Asleep, Wrapped
<1>3. QED
  BY <1>1, <1>2 DEF HasPlace, Asleep

\* of all of them,
LEMMA SeenNow ==
  ASSUME NEW H, Sound(k, at, H)
  PROVE  /\ {t \in Task : Sleeps(t)} = Sleepers(H)
         /\ [t \in Task |-> Left(t)] = Lefts(k, H)
         /\ {t \in Task : ~Valid(t) \/ t \in k.suspended} = Idlers(H)
<1>1. \A t \in Task : /\ Sleeps(t) <=> H[t] \in Asleep
                      /\ ~Valid(t) \/ t \in k.suspended
                           <=> H[t] \in {"none", "terminated", "suspended"}
  BY Seen DEF Sleeps, Valid, Exists
<1>2. \A t \in Task : Left(t) = IF H[t] \in Asleep THEN Rest(k, H, t) - k.missed ELSE 0
  BY <1>1, Seen DEF Left
<1>3. QED
  BY <1>1, <1>2 DEF Sleepers, Lefts, Idlers

\* and of all of them after a step.
LEMMA SeenThen ==
  ASSUME NEW H, Sound(k', at', H)
  PROVE  /\ {t \in Task : Sleeps(t)}' = Sleepers(H)
         /\ [t \in Task |-> Left(t)]' = Lefts(k', H)
         /\ {t \in Task : ~Valid(t) \/ t \in k.suspended}' = Idlers(H)
<1>1. \A t \in Task : /\ Sleeps(t)' <=> H[t] \in Asleep
                      /\ ~Valid(t)' \/ t \in k'.suspended
                           <=> H[t] \in {"none", "terminated", "suspended"}
  BY Seen DEF Sleeps, Valid, Exists
<1>2. \A t \in Task : Left(t)' = IF H[t] \in Asleep THEN Rest(k', H, t) - k'.missed ELSE 0
  BY <1>1, Seen DEF Left
<1>3. QED
  BY <1>1, <1>2 DEF Sleepers, Lefts, Idlers

\* What is known of the times left, in numbers.
LEMMA RestSound ==
  ASSUME NEW m, NEW a, NEW H, Sound(m, a, H)
  PROVE  /\ \A t \in Task : /\ Rest(m, H, t) \in 0 .. MaxDelay
                            /\ Rest(m, H, t) > 0 <=> H[t] \in Asleep
         /\ m.missed \in Nat /\ (m.locks = 0 => m.missed = 0)
<1>1. /\ Good(m, H) /\ Times(m, H) /\ m \in Kernels
      /\ m.locks = 0 => m.missed = 0
  BY DEF Sound, Base, Good
<1>2. m.missed \in Nat
  BY <1>1, KernelNumbers
<1>3. QED
  BY <1>1, <1>2, RestFacts DEF Asleep

\* A step that leaves the times alone is not seen.
LEMMA StillSeen ==
  ASSUME NEW m, NEW m1, NEW H, NEW H1, Still(m, H, m1, H1)
  PROVE  /\ Sleepers(H1) = Sleepers(H) /\ Idlers(H1) = Idlers(H)
         /\ Lefts(m1, H1) = Lefts(m, H) /\ m1.locks = m.locks
BY DEF Still, Alike, Sleepers, Idlers, Lefts

\* Nor is a step by which the scheduler is suspended, but for that.
LEMMA HoldsSeen ==
  ASSUME NEW m, NEW m1, NEW H, NEW H1, Holds(m, H, m1, H1)
  PROVE  /\ Sleepers(H1) = Sleepers(H) /\ Idlers(H1) = Idlers(H)
         /\ Lefts(m1, H1) = Lefts(m, H) /\ m.locks = 0 /\ m1.locks = 1
BY DEF Holds, Alike, Sleepers, Idlers, Lefts

\* A task that moves goes on, stops, or is forgotten:
MoveSeen(m, H, m1, H1, u) ==
  /\ m1.locks = m.locks
  /\ \/ /\ Sleepers(H1) = Sleepers(H) /\ Lefts(m1, H1) = Lefts(m, H)
        /\ Idlers(H1) = Idlers(H) \ {u}
     \/ /\ Sleepers(H1) = Sleepers(H) \ {u} /\ Idlers(H1) = Idlers(H) \cup {u}
        /\ Lefts(m1, H1) = [t \in Task |->
                              IF t \in Sleepers(H) \ {u} THEN Lefts(m, H)[t] ELSE 0]
     \/ /\ Sleepers(H1) = Sleepers(H) /\ Lefts(m1, H1) = Lefts(m, H)
        /\ Idlers(H1) = Idlers(H)

\* this is what is seen of a step that moves a task,
LEMMA MovesSeen ==
  ASSUME NEW m, NEW m1, NEW H \in [Task -> Places], NEW H1, NEW u \in Task,
         NEW l \in Places, Moves(m, H, m1, H1, u, l)
  PROVE  MoveSeen(m, H, m1, H1, u)
<1>1. /\ m1.locks = m.locks /\ m1.missed = m.missed /\ Way(H[u], l)
      /\ H1[u] = l /\ \A v \in Task \ {u} : H1[v] = H[v] /\ Rest(m1, H1, v) = Rest(m, H, v)
  BY MoveFacts DEF Moves
<1>2. CASE H[u] \in {"none", "suspended"} /\ l = "ready"
  <2>1. H[u] \notin Asleep /\ H1[u] \notin Asleep
    BY <1>1, <1>2 DEF Asleep
  <2>2. Sleepers(H1) = Sleepers(H) /\ Lefts(m1, H1) = Lefts(m, H)
    BY <1>1, <2>1 DEF Sleepers, Lefts
  <2>3. Idlers(H1) = Idlers(H) \ {u}
    BY <1>1, <1>2 DEF Idlers
  <2>4. QED
    BY <1>1, <2>2, <2>3 DEF MoveSeen
<1>3. CASE l \in {"terminated", "suspended"}
  <2>1. H1[u] \notin Asleep
    BY <1>1, <1>3 DEF Asleep
  <2>2. /\ Sleepers(H1) = Sleepers(H) \ {u}
        /\ Lefts(m1, H1) = [t \in Task |->
                              IF t \in Sleepers(H) \ {u} THEN Lefts(m, H)[t] ELSE 0]
    BY <1>1, <2>1 DEF Sleepers, Lefts
  <2>3. Idlers(H1) = Idlers(H) \cup {u}
    BY <1>1, <1>3 DEF Idlers
  <2>4. QED
    BY <1>1, <2>2, <2>3 DEF MoveSeen
<1>4. CASE H[u] = "terminated" /\ l = "none"
  <2>1. H[u] \notin Asleep /\ H1[u] \notin Asleep
    BY <1>1, <1>4 DEF Asleep
  <2>2. Sleepers(H1) = Sleepers(H) /\ Lefts(m1, H1) = Lefts(m, H)
    BY <1>1, <2>1 DEF Sleepers, Lefts
  <2>3. Idlers(H1) = Idlers(H)
    BY <1>1, <1>4 DEF Idlers
  <2>4. QED
    BY <1>1, <2>2, <2>3 DEF MoveSeen
<1>5. QED
  BY <1>1, <1>2, <1>3, <1>4 DEF Way, MoveSeen

\* A task goes to sleep for what it has left then:
SleepSeen(m, H, m1, H1, u) ==
  /\ m.locks = 0 /\ m1.locks = 1 /\ u \notin Sleepers(H) \cup Idlers(H)
  /\ Rest(m1, H1, u) \in 1 .. MaxDelay /\ Idlers(H1) = Idlers(H)
  /\ Sleepers(H1) = Sleepers(H) \cup {u}
  /\ Lefts(m1, H1) = [t \in Task |->
       IF t \in Sleepers(H) \cup {u}
       THEN [Lefts(m, H) EXCEPT ![u] = Rest(m1, H1, u)][t] ELSE 0]

\* this is what is seen when a task that is ready falls asleep.
LEMMA FallsAsleepSeen ==
  ASSUME NEW m, NEW a, NEW m1, NEW a1, NEW H \in [Task -> Places], NEW H1,
         Sound(m, a, H), Sound(m1, a1, H1),
         NEW u \in Task, NEW l \in Asleep, FallsAsleep(m, H, m1, H1, u, l)
  PROVE  SleepSeen(m, H, m1, H1, u)
<1>1. /\ m.locks = 0 /\ m1.locks = 1 /\ m1.missed = m.missed /\ H[u] = "ready"
      /\ H1[u] = l /\ \A v \in Task \ {u} : H1[v] = H[v] /\ Rest(m1, H1, v) = Rest(m, H, v)
  <2>1. l \in Places
    BY DEF Asleep, Places
  <2>2. QED
    BY <2>1, MoveFacts DEF FallsAsleep
<1>2. m.missed = 0 /\ Rest(m1, H1, u) \in 0 .. MaxDelay /\ Rest(m1, H1, u) > 0
  BY <1>1, RestSound
<1>3. u \notin Sleepers(H) \cup Idlers(H)
  BY <1>1 DEF Sleepers, Idlers, Asleep
<1>4. Idlers(H1) = Idlers(H)
  BY <1>1 DEF Idlers, Asleep
<1>5. Sleepers(H1) = Sleepers(H) \cup {u}
  BY <1>1 DEF Sleepers
<1>6. Rest(m1, H1, u) - m1.missed = Rest(m1, H1, u)
  BY <1>1, <1>2, Numbers
<1>7. Lefts(m1, H1) = [t \in Task |->
        IF t \in Sleepers(H) \cup {u}
        THEN [Lefts(m, H) EXCEPT ![u] = Rest(m1, H1, u)][t] ELSE 0]
  BY <1>1, <1>6 DEF Lefts, Sleepers
<1>8. QED
  BY <1>1, <1>2, <1>3, <1>4, <1>5, <1>7, Numbers DEF SleepSeen

\* The ticks that were missed are over, and with them the sleeps that were due.
LEMMA ReleasesSeen ==
  ASSUME NEW m, NEW a, NEW m1, NEW a1, NEW H, NEW H1,
         Sound(m, a, H), Sound(m1, a1, H1), Releases(m, H, m1, H1)
  PROVE  /\ m.locks = 1 /\ m1.locks = 0 /\ Idlers(H1) \subseteq Idlers(H)
         /\ Sleepers(H1) = {t \in Sleepers(H) : Lefts(m, H)[t] > 0}
         /\ Lefts(m1, H1) = [t \in Task |->
              IF t \in {v \in Sleepers(H) : Lefts(m, H)[v] > 0} THEN Lefts(m, H)[t] ELSE 0]
<1> DEFINE r(t) == Rest(m, H, t)
           s(t) == Rest(m1, H1, t)
<1>1. /\ m.locks = 1 /\ m1.locks = 0 /\ m1.missed = 0 /\ m.missed \in Nat
      /\ \A t \in Task : s(t) = IF r(t) > m.missed THEN r(t) - m.missed ELSE 0
      /\ \A t \in Task : /\ r(t) \in 0 .. MaxDelay /\ (r(t) > 0 <=> H[t] \in Asleep)
                         /\ s(t) \in 0 .. MaxDelay /\ (s(t) > 0 <=> H1[t] \in Asleep)
  BY RestSound DEF Releases, Later
<1>2. \A t \in Task : \/ H1[t] = H[t]
                      \/ H[t] \in Asleep /\ H1[t] \in Asleep \cup {"ready"}
                      \/ H[t] = "suspended" /\ H1[t] = "ready"
  BY DEF Releases
<1>3. Idlers(H1) \subseteq Idlers(H)
  BY <1>2 DEF Idlers, Asleep
<1>4. \A t \in Task : Lefts(m, H)[t] = IF H[t] \in Asleep THEN r(t) - m.missed ELSE 0
  BY DEF Lefts
<1> HIDE DEF r, s
<1>5. \A t \in Task : /\ H1[t] \in Asleep <=> H[t] \in Asleep /\ Lefts(m, H)[t] > 0
                      /\ H1[t] \in Asleep => s(t) - m1.missed = Lefts(m, H)[t]
  BY <1>1, <1>4, Numbers
<1>6. Sleepers(H1) = {t \in Sleepers(H) : Lefts(m, H)[t] > 0}
  BY <1>5 DEF Sleepers
<1>7. Lefts(m1, H1) = [t \in Task |-> IF H1[t] \in Asleep THEN s(t) - m1.missed ELSE 0]
  BY DEF Lefts, s
<1>8. Lefts(m1, H1) = [t \in Task |->
        IF t \in {v \in Sleepers(H) : Lefts(m, H)[v] > 0} THEN Lefts(m, H)[t] ELSE 0]
  BY <1>5, <1>7 DEF Sleepers
<1>9. QED
  BY <1>1, <1>3, <1>6, <1>8

\* A tick takes one from what every sleeper has left.
LEMMA PassesSeen ==
  ASSUME NEW m, NEW a, NEW m1, NEW a1, NEW H, NEW H1,
         Sound(m, a, H), Sound(m1, a1, H1), Passes(m, H, m1, H1)
  PROVE  LET less == [t \in Task |-> Lefts(m, H)[t] - 1]
             S    == {t \in Sleepers(H) : m.locks > 0 \/ less[t] > 0}
         IN  /\ m1.locks = m.locks /\ Idlers(H1) = Idlers(H) /\ Sleepers(H1) = S
             /\ Lefts(m1, H1) = [t \in Task |-> IF t \in S THEN less[t] ELSE 0]
<1> DEFINE r(t) == Rest(m, H, t)
           s(t) == Rest(m1, H1, t)
           less == [t \in Task |-> Lefts(m, H)[t] - 1]
           S    == {t \in Sleepers(H) : m.locks > 0 \/ less[t] > 0}
<1>1. /\ m.missed \in Nat /\ m1.missed \in Nat /\ m1.locks = m.locks
      /\ m.locks = 0 => m.missed = 0 /\ m1.missed = 0
      /\ \A t \in Task : /\ r(t) \in 0 .. MaxDelay /\ (r(t) > 0 <=> H[t] \in Asleep)
                         /\ s(t) \in 0 .. MaxDelay /\ (s(t) > 0 <=> H1[t] \in Asleep)
  BY RestSound DEF Passes
<1>2. \/ /\ m.locks = 0 /\ Rested(H, H1)
         /\ \A t \in Task : s(t) = IF r(t) > 1 THEN r(t) - 1 ELSE 0
      \/ /\ m.locks = 1 /\ m1.missed = m.missed + 1 /\ H1 = H
         /\ \A t \in Task : s(t) = r(t)
  BY DEF Passes, Later, Alike
<1>3. Idlers(H1) = Idlers(H)
  BY <1>2 DEF Idlers, Rested, Asleep
<1>4. \A t \in Task : /\ Lefts(m, H)[t] = IF H[t] \in Asleep THEN r(t) - m.missed ELSE 0
                      /\ less[t] = Lefts(m, H)[t] - 1
  BY DEF Lefts
<1>5. Lefts(m1, H1) = [t \in Task |-> IF H1[t] \in Asleep THEN s(t) - m1.missed ELSE 0]
  BY DEF Lefts
<1> HIDE DEF r, s, less
<1>6. \A t \in Task : /\ H1[t] \in Asleep <=> H[t] \in Asleep /\ (m.locks > 0 \/ less[t] > 0)
                      /\ H1[t] \in Asleep => s(t) - m1.missed = less[t]
  <2>1. CASE m.locks = 0
    BY <1>1, <1>2, <1>4, <2>1, Numbers
  <2>2. CASE m.locks = 1
    BY <1>1, <1>2, <1>4, <2>2, Numbers
  <2>3. QED
    BY <1>2, <2>1, <2>2
<1>7. Sleepers(H1) = S
  BY <1>6 DEF Sleepers
<1>8. Lefts(m1, H1) = [t \in Task |-> IF t \in S THEN less[t] ELSE 0]
  BY <1>5, <1>6 DEF Sleepers
<1>9. QED
  BY <1>1, <1>3, <1>7, <1>8 DEF less

\* Every step of the scheduler is one of the alarm, or none.
LEMMA AlarmStep ==
  ASSUME NEW H \in [Task -> Places], NEW H1 \in [Task -> Places],
         Sound(k, at, H), Sound(k', at', H1), Effect(k, H, k', H1)
  PROVE  [Alarms!Next]_(Alarms!vars)
<1>1. /\ {t \in Task : Sleeps(t)} = Sleepers(H)
      /\ [t \in Task |-> Left(t)] = Lefts(k, H)
      /\ {t \in Task : ~Valid(t) \/ t \in k.suspended} = Idlers(H)
  BY SeenNow
<1>2. /\ {t \in Task : Sleeps(t)}' = Sleepers(H1)
      /\ [t \in Task |-> Left(t)]' = Lefts(k', H1)
      /\ {t \in Task : ~Valid(t) \/ t \in k.suspended}' = Idlers(H1)
  BY SeenThen
<1>3. CASE Still(k, H, k', H1)
  <2>1. UNCHANGED Alarms!vars
    BY <1>1, <1>2, <1>3, StillSeen DEF Alarms!vars
  <2>2. QED
    BY <2>1
<1>4. ASSUME NEW u \in Task, NEW l \in Places, Moves(k, H, k', H1, u, l)
      PROVE  [Alarms!Next]_(Alarms!vars)
  <2>1. MoveSeen(k, H, k', H1, u)
    BY <1>4, MovesSeen
  <2>2. /\ k'.locks = k.locks
        /\ \/ /\ Sleepers(H1) = Sleepers(H) /\ Lefts(k', H1) = Lefts(k, H)
              /\ Idlers(H1) = Idlers(H) \ {u}
           \/ /\ Sleepers(H1) = Sleepers(H) \ {u} /\ Idlers(H1) = Idlers(H) \cup {u}
              /\ Lefts(k', H1) = [t \in Task |->
                                    IF t \in Sleepers(H) \ {u} THEN Lefts(k, H)[t] ELSE 0]
           \/ /\ Sleepers(H1) = Sleepers(H) /\ Lefts(k', H1) = Lefts(k, H)
              /\ Idlers(H1) = Idlers(H)
    BY <2>1 DEF MoveSeen
  <2>3. CASE /\ Sleepers(H1) = Sleepers(H) /\ Lefts(k', H1) = Lefts(k, H)
             /\ Idlers(H1) = Idlers(H) \ {u}
    <3>1. Alarms!Go(u)
      BY <1>1, <1>2, <2>2, <2>3 DEF Alarms!Go
    <3>2. QED
      BY <3>1 DEF Alarms!Next
  <2>4. CASE /\ Sleepers(H1) = Sleepers(H) \ {u} /\ Idlers(H1) = Idlers(H) \cup {u}
             /\ Lefts(k', H1) = [t \in Task |->
                                   IF t \in Sleepers(H) \ {u} THEN Lefts(k, H)[t] ELSE 0]
    <3>1. Alarms!Stop(u)
      BY <1>1, <1>2, <2>2, <2>4 DEF Alarms!Stop, Alarms!Asleep
    <3>2. QED
      BY <3>1 DEF Alarms!Next
  <2>5. CASE /\ Sleepers(H1) = Sleepers(H) /\ Lefts(k', H1) = Lefts(k, H)
             /\ Idlers(H1) = Idlers(H)
    <3>1. UNCHANGED Alarms!vars
      BY <1>1, <1>2, <2>2, <2>5 DEF Alarms!vars
    <3>2. QED
      BY <3>1
  <2>6. QED
    BY <2>2, <2>3, <2>4, <2>5
<1>5. CASE Holds(k, H, k', H1)
  <2>1. Alarms!Hold
    BY <1>1, <1>2, <1>5, HoldsSeen DEF Alarms!Hold
  <2>2. QED
    BY <2>1 DEF Alarms!Next
<1>6. ASSUME NEW u \in Task, NEW l \in Asleep, FallsAsleep(k, H, k', H1, u, l)
      PROVE  [Alarms!Next]_(Alarms!vars)
  <2>1. PICK n \in 1 .. MaxDelay :
          /\ k.locks = 0 /\ k'.locks = 1 /\ u \notin Sleepers(H) \cup Idlers(H)
          /\ Idlers(H1) = Idlers(H) /\ Sleepers(H1) = Sleepers(H) \cup {u}
          /\ Lefts(k', H1) = [t \in Task |->
               IF t \in Sleepers(H) \cup {u} THEN [Lefts(k, H) EXCEPT ![u] = n][t] ELSE 0]
    <3>1. SleepSeen(k, H, k', H1, u)
      BY <1>6, FallsAsleepSeen
    <3>2. QED
      BY <3>1 DEF SleepSeen
  <2>2. Alarms!Sleep(u, n)
    BY <1>1, <1>2, <2>1 DEF Alarms!Sleep, Alarms!Asleep
  <2>3. QED
    BY <2>1, <2>2 DEF Alarms!Next
<1>7. CASE Releases(k, H, k', H1)
  <2>1. Alarms!Release
    BY <1>1, <1>2, <1>7, ReleasesSeen DEF Alarms!Release, Alarms!Asleep
  <2>2. QED
    BY <2>1 DEF Alarms!Next
<1>8. CASE Passes(k, H, k', H1)
  <2> DEFINE less == [t \in Task |-> Lefts(k, H)[t] - 1]
             S    == {t \in Sleepers(H) : k.locks > 0 \/ less[t] > 0}
  <2>1. /\ k'.locks = k.locks /\ Idlers(H1) = Idlers(H) /\ Sleepers(H1) = S
        /\ Lefts(k', H1) = [t \in Task |-> IF t \in S THEN less[t] ELSE 0]
    BY <1>8, PassesSeen
  <2>2. Alarms!Tick
    BY <1>1, <1>2, <2>1 DEF Alarms!Tick, Alarms!Asleep
  <2>3. QED
    BY <2>2 DEF Alarms!Next
<1>9. QED
  BY <1>3, <1>4, <1>5, <1>6, <1>7, <1>8 DEF Effect

\* At first there is no task that could sleep.
LEMMA AlarmInit ==
  ASSUME Init
  PROVE  Alarms!Init
<1> DEFINE H == [t \in Task |-> "none"]
<1>1. \A t \in Task : H[t] = "none"
  OBVIOUS
<1>2. Sound(k, at, H) /\ k.locks = 0
  BY Beginning DEF Init, Kernel0
<1> HIDE DEF H
<1>3. Sleepers(H) = {} /\ Idlers(H) = Task /\ Lefts(k, H) = [t \in Task |-> 0]
  BY <1>1 DEF Sleepers, Idlers, Lefts, Asleep
<1>4. /\ {t \in Task : Sleeps(t)} = {}
      /\ [t \in Task |-> Left(t)] = [t \in Task |-> 0]
      /\ {t \in Task : ~Valid(t) \/ t \in k.suspended} = Task
  BY <1>2, <1>3, SeenNow
<1>5. QED
  BY <1>2, <1>4 DEF Alarms!Init

\* The scheduler keeps every sleep to the tick: it implements Alarm.
THEOREM SchedulerIsAlarm == Spec => ImplementsAlarm
<1>1. Init => Alarms!Init
  BY AlarmInit
<1>2. IInv /\ [Next]_vars => [Alarms!Next]_(Alarms!vars)
  <2>1. ASSUME IInv, Next PROVE [Alarms!Next]_(Alarms!vars)
    <3>1. PICK H \in [Task -> Places] : Sound(k, at, H)
      BY <2>1 DEF IInv
    <3>2. Leads(H)
      BY <2>1, <3>1, SoundStep DEF IInv
    <3>3. PICK H1 \in [Task -> Places] : Sound(k', at', H1) /\ Effect(k, H, k', H1)
      BY <3>2 DEF Leads
    <3>4. QED
      BY <3>1, <3>3, AlarmStep
  <2>2. UNCHANGED vars => UNCHANGED Alarms!vars
    BY DEF vars, Alarms!vars, Sleeps, Left, Valid, Exists
  <2>3. QED
    BY <2>1, <2>2
<1>3. QED
  BY <1>1, <1>2, SchedulerInvariant, PTL DEF Spec, ImplementsAlarm, Alarms!Spec

-----------------------------------------------------------------------------
(* Waiting for events                                                        *)

\* t is on an event list.
Waits(K, t) == \E e \in EventList : Contains(K.waiting[e], t)

\* A task waits for one event at most, and is not ready and not pending then.
Apart(K, H) ==
  \A t \in Task :
    /\ Waits(K, t) => H[t] \in Stopped /\ ~Contains(K.pending, t)
    /\ \A e, f \in EventList :
         Contains(K.waiting[e], t) /\ Contains(K.waiting[f], t) => e = f

\* Between K and k1 nobody begins to wait.  Who waits no more is ready, or
\* pending, and who was pending is ready or still pending.
Frees(K, H, k1, H1) ==
  /\ \A e \in EventList : \A w : InOrder(K.waiting[e], w) => InOrder(k1.waiting[e], w)
  /\ \A e \in EventList, t \in Task : Contains(k1.waiting[e], t) => Contains(K.waiting[e], t)
  /\ \A t \in Task :
       /\ H1[t] = "none" <=> H[t] = "none"
       /\ H1[t] = "terminated" <=> H[t] = "terminated"
       /\ H1[t] = "suspended" => H[t] = "suspended"
       /\ H[t] = "ready" => H1[t] = "ready"
       /\ Contains(k1.pending, t) =>
            (Waits(K, t) \/ Contains(K.pending, t)) /\ ~Waits(k1, t)
       /\ Waits(K, t) \/ Contains(K.pending, t) =>
            (H1[t] = "ready" <=> ~Waits(k1, t) /\ ~Contains(k1.pending, t))

\* Who sleeps on has n ticks less to sleep.
SleepsOn(K, H, k1, H1, n) ==
  \A t \in Task : H1[t] \in Asleep => H[t] \in Asleep /\ Rest(k1, H1, t) = Rest(K, H, t) - n

\* But for lists and the running task k1 is as K.
Fixed(K, k1) ==
  /\ k1.running = K.running /\ k1.tick = K.tick /\ k1.overflows = K.overflows
  /\ k1.item = K.item /\ k1.prio = K.prio /\ k1.base = K.base
  /\ k1.locks = K.locks /\ k1.missed = K.missed

\* vTaskSwitchContext takes the highest that is ready, and nothing else.
LEMMA SwitchedOn ==
  ASSUME NEW K, NEW H, Good(K, H), Times(K, H), K.locks = 0, NEW i \in Task, H[i] = "ready"
  PROVE  LET k1 == vTaskSwitchContext(K) IN
    /\ Good(k1, H) /\ Times(k1, H) /\ Highest(k1, H) /\ Fixed(K, k1)
    /\ k1.missedYield = K.missedYield /\ k1.pending = K.pending
    /\ k1.waiting = K.waiting /\ k1.wake = K.wake
<1> DEFINE k1 == vTaskSwitchContext(K)
<1>1. /\ Good(k1, H) /\ Highest(k1, H) /\ SameButCurrent(K, k1)
      /\ k1.pending = K.pending /\ Times(k1, H)
  BY Switched
<1>2. k1.waiting = K.waiting /\ k1.overflows = K.overflows
  BY OtherFieldsKept DEF Good
<1> HIDE DEF k1
<1>3. QED
  BY <1>1, <1>2 DEF k1, Fixed, SameButCurrent

\* Nobody moves.
LEMMA FreesNobody ==
  ASSUME NEW K, NEW H, NEW k1, Apart(K, H), Good(K, H), k1.waiting = K.waiting,
         k1.pending = K.pending
  PROVE  Frees(K, H, k1, H)
<1>1. \A t \in Task : Waits(k1, t) <=> Waits(K, t)
  BY DEF Waits
<1>2. \A t \in Task : Waits(K, t) \/ Contains(K.pending, t) => H[t] # "ready"
  BY DEF Apart, Good, Stopped
<1>3. QED
  BY <1>1, <1>2 DEF Frees, Apart

\* Nobody has slept if no wake-up time and no tick has changed.
LEMMA SleepsAlike ==
  ASSUME NEW K, NEW H, NEW k1, k1.wake = K.wake, k1.tick = K.tick,
         \A t \in Task : Rest(K, H, t) \in Int
  PROVE  SleepsOn(K, H, k1, H, 0)
<1>1. \A t \in Task : Rest(k1, H, t) = Rest(K, H, t)
  BY RestAlike
<1>2. QED
  BY <1>1 DEF SleepsOn

\* Who leaves in the first step or the second has left.
LEMMA FreesOn ==
  ASSUME NEW K, NEW H, NEW k1, NEW H1, NEW k2, NEW H2, Good(K, H), Good(k1, H1),
         Frees(K, H, k1, H1), Frees(k1, H1, k2, H2)
  PROVE  Frees(K, H, k2, H2)
<1>1. \A t \in Task : /\ Waits(k2, t) => Waits(k1, t)
                      /\ Waits(k1, t) => Waits(K, t)
  BY DEF Frees, Waits
<1>2. ASSUME NEW t \in Task, Waits(K, t) \/ Contains(K.pending, t)
      PROVE  H2[t] = "ready" <=> ~Waits(k2, t) /\ ~Contains(k2.pending, t)
  <2>1. CASE Waits(k1, t) \/ Contains(k1.pending, t)
    BY <2>1 DEF Frees
  <2>2. CASE ~(Waits(k1, t) \/ Contains(k1.pending, t))
    BY <1>1, <1>2, <2>2 DEF Frees
  <2>3. QED
    BY <2>1, <2>2
<1>3. ASSUME NEW t \in Task, Contains(k2.pending, t)
      PROVE  (Waits(K, t) \/ Contains(K.pending, t)) /\ ~Waits(k2, t)
  BY <1>1, <1>3 DEF Frees
<1>4. QED
  BY <1>2, <1>3 DEF Frees

\* Who waits goes on to stand apart.
LEMMA ApartStill ==
  ASSUME NEW K, NEW H, NEW k1, NEW H1, Good(k1, H1), Apart(K, H), Frees(K, H, k1, H1)
  PROVE  Apart(k1, H1)
<1>1. \A t \in Task : Waits(k1, t) => Waits(K, t)
  BY DEF Frees, Waits
<1>2. ASSUME NEW t \in Task, Waits(k1, t)
      PROVE  H1[t] \in Stopped /\ ~Contains(k1.pending, t)
  <2>1. /\ H[t] \in Stopped /\ H1[t] # "ready" /\ ~Contains(k1.pending, t)
        /\ H1[t] # "none" /\ H1[t] # "terminated"
    BY <1>1, <1>2 DEF Apart, Frees, Stopped
  <2>2. H1[t] \in Places
    BY DEF Good
  <2>3. QED
    BY <2>1, <2>2 DEF Stopped, Places
<1>3. QED
  BY <1>2 DEF Apart, Frees

\* The kernel's own ways to wake tasks, the tick and xTaskResumeAll, free who they wake.
LEMMA SettledFrees ==
  ASSUME NEW K, NEW H, NEW k1, NEW H1, Good(K, H), Good(k1, H1), Apart(K, H),
         Leave(K, H, k1, H1), Settled(K, H, H1), k1.pending = <<>>,
         \A t \in Task : Contains(K.pending, t) => H1[t] = "ready"
  PROVE  Frees(K, H, k1, H1)
<1>1. \A t \in Task : ~Contains(k1.pending, t)
  BY EmptyList
<1>2. ASSUME NEW t \in Task
      PROVE  /\ Waits(k1, t) <=> Waits(K, t) /\ (H1[t] = "ready" => H[t] = "ready")
             /\ Contains(K.pending, t) => H[t] \in Stopped
             /\ Waits(K, t) => H[t] \in Stopped /\ ~Contains(K.pending, t)
  BY DEF Waits, Leave, Good, Apart
<1>3. ASSUME NEW t \in Task, Waits(K, t) \/ Contains(K.pending, t)
      PROVE  H1[t] = "ready" <=> ~Waits(k1, t) /\ ~Contains(k1.pending, t)
  BY <1>1, <1>2, <1>3 DEF Stopped
<1>4. ASSUME NEW t \in Task
      PROVE  /\ H1[t] = "none" <=> H[t] = "none"
             /\ H1[t] = "terminated" <=> H[t] = "terminated"
             /\ H1[t] = "suspended" => H[t] = "suspended"
             /\ H[t] = "ready" => H1[t] = "ready"
  BY <1>2 DEF Settled, Stopped, Asleep
<1>5. QED
  BY <1>1, <1>3, <1>4 DEF Frees, Leave

\* Who rests sleeps on.
LEMMA RestingSleeps ==
  ASSUME NEW K, NEW H, NEW k1, NEW H1, Good(K, H), Times(K, H), Good(k1, H1), Times(k1, H1),
         NEW n \in Nat, Resting(K, H, k1, H1, n)
  PROVE  SleepsOn(K, H, k1, H1, n)
<1>1. ASSUME NEW t \in Task, H1[t] \in Asleep
      PROVE  H[t] \in Asleep /\ Rest(k1, H1, t) = Rest(K, H, t) - n
  <2>1. /\ Rest(K, H, t) \in 0 .. MaxDelay /\ Rest(k1, H1, t) \in 0 .. MaxDelay
        /\ Rest(K, H, t) > 0 <=> H[t] \in Asleep
        /\ Rest(k1, H1, t) > 0 <=> H1[t] \in Asleep
    BY RestFacts DEF Asleep
  <2>2. Rest(k1, H1, t) = IF Rest(K, H, t) > n THEN Rest(K, H, t) - n ELSE 0
    BY <1>1 DEF Resting, Asleep
  <2>3. MaxDelay \in Nat /\ Rest(K, H, t) \in Nat /\ Rest(k1, H1, t) > 0
    BY <1>1, <2>1, Numbers
  <2>4. QED
    BY <2>1, <2>2, <2>3
<1>2. QED
  BY <1>1 DEF SleepsOn

\* A tick, and the switch of context that follows it.
LEMMA TickedOn ==
  ASSUME NEW K, NEW H, Good(K, H), Times(K, H), Apart(K, H), K.locks = 0, K.pending = <<>>,
         NEW i \in Task, H[i] = "ready"
  PROVE  LET k1 == vTaskSwitchContext(vTaskIncrementTick(K)) IN
         \E H1 \in [Task -> Places] :
           /\ Good(k1, H1) /\ Times(k1, H1) /\ Highest(k1, H1)
           /\ Frees(K, H, k1, H1) /\ SleepsOn(K, H, k1, H1, 1)
           /\ SameButTick(K, [k1 EXCEPT !.current = K.current]) /\ k1.pending = <<>>
           /\ Counts(K, k1, 1)
<1> DEFINE k0 == vTaskIncrementTick(K)
<1>1. PICK H1 \in [Task -> Places] :
         /\ Good(k0, H1) /\ Times(k0, H1) /\ SameButTick(K, k0)
         /\ Rested(H, H1) /\ k0.pending = K.pending
         /\ Later(K, H, k0, H1, 1) /\ Leave(K, H, k0, H1) /\ Counts(K, k0, 1)
  BY Ticked
<1> HIDE DEF k0
<1>2. Frees(K, H, k0, H1)
  <2>1. \A t \in Task : ~Contains(K.pending, t)
    BY EmptyList
  <2>2. Settled(K, H, H1)
    BY <1>1 DEF Rested, Settled
  <2>3. QED
    BY <1>1, <2>1, <2>2, SettledFrees
<1>3. SleepsOn(K, H, k0, H1, 1)
  <2>1. \A t \in Task : ~Contains(K.pending, t)
    BY EmptyList
  <2>2. Resting(K, H, k0, H1, 1)
    BY <1>1, <2>1 DEF Resting, Later
  <2>3. QED
    BY <1>1, <2>2, RestingSleeps
<1>4. H1[i] = "ready" /\ k0.locks = 0
  BY <1>1 DEF Leave, SameButTick
<1> DEFINE k1 == vTaskSwitchContext(k0)
<1>5. /\ Good(k1, H1) /\ Times(k1, H1) /\ Highest(k1, H1) /\ Fixed(k0, k1)
      /\ k1.missedYield = k0.missedYield /\ k1.pending = k0.pending
      /\ k1.waiting = k0.waiting /\ k1.wake = k0.wake
  BY <1>1, <1>4, SwitchedOn
<1> HIDE DEF k1
<1>6. Apart(k0, H1)
  BY <1>1, <1>2, ApartStill
<1>7. Frees(K, H, k1, H1)
  <2>1. Frees(k0, H1, k1, H1)
    BY <1>1, <1>5, <1>6, FreesNobody
  <2>2. QED
    BY <1>1, <1>2, <2>1, FreesOn
<1>8. SleepsOn(K, H, k1, H1, 1)
  <2>1. \A t \in Task : Rest(k1, H1, t) = Rest(k0, H1, t)
    BY <1>5, RestAlike DEF Fixed
  <2>2. QED
    BY <1>3, <2>1 DEF SleepsOn
<1>9. Counts(K, k1, 1)
  BY <1>1, <1>5 DEF Counts, Fixed
<1>10. SameButTick(K, [k1 EXCEPT !.current = K.current])
  <2>1. k1 \in Kernels
    BY <1>5 DEF Good
  <2>2. QED
    BY <1>1, <1>5, <2>1 DEF SameButTick, Fixed, Kernels
<1>11. QED
  BY <1>1, <1>5, <1>7, <1>8, <1>9, <1>10 DEF k0, k1

\* xTaskResumeAll, with the ticks that were missed.
LEMMA ResumedOn ==
  ASSUME NEW K, NEW H, Good(K, H), Times(K, H), Apart(K, H), K.locks = 1, K.current \in Task,
         NEW i \in Task, H[i] = "ready"
  PROVE  LET k1 == xTaskResumeAll(K) IN
         \E H1 \in [Task -> Places] :
           /\ Good(k1, H1) /\ Times(k1, H1) /\ Frees(K, H, k1, H1)
           /\ SleepsOn(K, H, k1, H1, K.missed) /\ Counts(K, k1, K.missed)
           /\ k1.running = K.running /\ k1.prio = K.prio /\ k1.base = K.base /\ k1.item = K.item
           /\ k1.locks = 0 /\ k1.missed = 0 /\ k1.missedYield = FALSE /\ k1.pending = <<>>
           /\ AlreadyYielded(K) => Highest(k1, H1)
           /\ ~AlreadyYielded(K) => k1.current = K.current
           /\ Highest(K, H) => Highest(k1, H1)
<1> DEFINE k1 == xTaskResumeAll(K)
<1>1. PICK H1 \in [Task -> Places] :
           /\ Good(k1, H1) /\ Times(k1, H1) /\ Settled(K, H, H1)
           /\ k1.running = K.running /\ k1.prio = K.prio /\ k1.base = K.base
           /\ k1.locks = 0 /\ k1.missed = 0 /\ k1.missedYield = FALSE /\ k1.pending = <<>>
           /\ AlreadyYielded(K) => Highest(k1, H1)
           /\ ~AlreadyYielded(K) => k1.current = K.current
           /\ Highest(K, H) => Highest(k1, H1)
           /\ Resting(K, H, k1, H1, K.missed) /\ k1.item = K.item
           /\ Leave(K, H, k1, H1) /\ Counts(K, k1, K.missed)
  BY ResumedAll
<1> HIDE DEF k1
<1>2. \A t \in Task : Contains(K.pending, t) => H1[t] = "ready"
  BY <1>1 DEF Resting
<1>3. Frees(K, H, k1, H1)
  BY <1>1, <1>2, SettledFrees
<1>4. K.missed \in Nat
  BY DEF Good, Kernels
<1>5. SleepsOn(K, H, k1, H1, K.missed)
  BY <1>1, <1>4, RestingSleeps
<1>6. QED
  BY <1>1, <1>3, <1>5 DEF k1

\* It does not matter which of its two items a task removes first.
LEMMA OrderOfFields ==
  ASSUME NEW K \in Kernels, NEW a, NEW b, NEW c, NEW d, NEW f, NEW g, NEW x, NEW y
  PROVE  [[K EXCEPT !.waiting = x, !.pending = y]
             EXCEPT !.ready = a, !.delayed = b, !.overflow = c, !.suspended = d,
                    !.terminated = f, !.wake = g]
       = [[K EXCEPT !.ready = a, !.delayed = b, !.overflow = c, !.suspended = d,
                    !.terminated = f, !.wake = g]
             EXCEPT !.waiting = x, !.pending = y]
BY DEF Kernels

\* RemoveGenericItem, spelled out,
LEMMA GenericItemGone ==
  ASSUME NEW K \in Kernels, NEW t \in Task
  PROVE  RemoveGenericItem(K, t)
           = [K EXCEPT !.ready      = [p \in Prio |-> Without(K.ready[p], t)],
                       !.delayed    = Without(K.delayed, t),
                       !.overflow   = Without(K.overflow, t),
                       !.suspended  = K.suspended \ {t},
                       !.terminated = Without(K.terminated, t),
                       !.wake       = [K.wake EXCEPT ![t] = 0]]
BY DEF RemoveGenericItem, Kernels

\* RemoveEventItem too,
LEMMA EventItemGone ==
  ASSUME NEW K \in Kernels, NEW t \in Task
  PROVE  RemoveEventItem(K, t)
           = [K EXCEPT !.waiting = [e \in EventList |-> Without(K.waiting[e], t)],
                       !.pending = Without(K.pending, t)]
BY DEF RemoveEventItem, Kernels

\* and the order of the two does not matter.
LEMMA ItemsGone ==
  ASSUME NEW K \in Kernels, NEW t \in Task
  PROVE  RemoveGenericItem(RemoveEventItem(K, t), t) = RemoveEventItem(RemoveGenericItem(K, t), t)
<1> DEFINE a == [p \in Prio |-> Without(K.ready[p], t)]
           b == Without(K.delayed, t)
           c == Without(K.overflow, t)
           d == K.suspended \ {t}
           f == Without(K.terminated, t)
           g == [K.wake EXCEPT ![t] = 0]
           x == [e \in EventList |-> Without(K.waiting[e], t)]
           y == Without(K.pending, t)
           k1 == RemoveEventItem(K, t)
           k2 == RemoveGenericItem(K, t)
<1>1. k1 = [K EXCEPT !.waiting = x, !.pending = y]
  BY EventItemGone
<1>2. k2 = [K EXCEPT !.ready = a, !.delayed = b, !.overflow = c, !.suspended = d,
                     !.terminated = f, !.wake = g]
  BY GenericItemGone
<1>3. /\ k1 \in Kernels /\ k1.ready = K.ready /\ k1.delayed = K.delayed
      /\ k1.overflow = K.overflow /\ k1.terminated = K.terminated
      /\ k1.suspended = K.suspended /\ k1.wake = K.wake
  BY RemoveEventItemFields
<1>4. k2 \in Kernels /\ k2.waiting = K.waiting /\ k2.pending = K.pending
  BY RemoveGenericItemFields
<1>5. RemoveGenericItem(k1, t)
        = [k1 EXCEPT !.ready = a, !.delayed = b, !.overflow = c, !.suspended = d,
                     !.terminated = f, !.wake = g]
  <2> HIDE DEF k1
  <2>1. RemoveGenericItem(k1, t)
          = [k1 EXCEPT !.ready      = [p \in Prio |-> Without(k1.ready[p], t)],
                       !.delayed    = Without(k1.delayed, t),
                       !.overflow   = Without(k1.overflow, t),
                       !.suspended  = k1.suspended \ {t},
                       !.terminated = Without(k1.terminated, t),
                       !.wake       = [k1.wake EXCEPT ![t] = 0]]
    BY <1>3, GenericItemGone
  <2>2. QED
    BY <1>3, <2>1
<1>6. RemoveEventItem(k2, t) = [k2 EXCEPT !.waiting = x, !.pending = y]
  <2> HIDE DEF k2
  <2>1. RemoveEventItem(k2, t)
          = [k2 EXCEPT !.waiting = [e \in EventList |-> Without(k2.waiting[e], t)],
                       !.pending = Without(k2.pending, t)]
    BY <1>4, EventItemGone
  <2>2. QED
    BY <1>4, <2>1
<1> HIDE DEF a, b, c, d, f, g, x, y, k1, k2
<1>7. RemoveGenericItem(k1, t) = RemoveEventItem(k2, t)
  BY <1>1, <1>2, <1>5, <1>6, OrderOfFields
<1>8. QED
  BY <1>7 DEF k1, k2

\* xTaskRemoveFromEventList, with the scheduler running, is what unblocks a task.
LEMMA RemovedIsUnblocked ==
  ASSUME NEW K \in Kernels, NEW e \in EventList, K.locks = 0, Head(K.waiting[e]) \in Task
  PROVE  xTaskRemoveFromEventList(K, e) = Unblock(K, Head(K.waiting[e]))
<1> DEFINE t == Head(K.waiting[e])
<1>1. RemoveGenericItem(RemoveEventItem(K, t), t) = RemoveEventItem(RemoveGenericItem(K, t), t)
  BY ItemsGone
<1> HIDE DEF t
<1>2. xTaskRemoveFromEventList(K, e)
        = IF K.locks = 0
          THEN prvAddTaskToReadyQueue(RemoveGenericItem(RemoveEventItem(K, t), t), t)
          ELSE [RemoveEventItem(K, t) EXCEPT !.pending = Append(@, t)]
  BY DEF xTaskRemoveFromEventList, t
<1>3. QED
  BY <1>1, <1>2 DEF Unblock, t

-----------------------------------------------------------------------------
(* Leaving an event list while the scheduler is suspended                    *)

\* Setting the list of pending tasks, field by field.
LEMMA SetPending ==
  ASSUME NEW K \in Kernels, NEW t \in Task, NEW x \in Lists
  PROVE  LET k1 == [K EXCEPT !.pending = x] IN
         /\ k1 \in Kernels /\ k1.pending = x /\ k1.waiting = K.waiting
         /\ k1.ready = K.ready /\ k1.delayed = K.delayed /\ k1.overflow = K.overflow
         /\ k1.terminated = K.terminated /\ k1.suspended = K.suspended /\ k1.wake = K.wake
         /\ k1.running = K.running /\ k1.current = K.current /\ k1.tick = K.tick
         /\ k1.item = K.item /\ k1.prio = K.prio /\ k1.base = K.base /\ k1.top = K.top
         /\ k1.next = K.next /\ k1.locks = K.locks /\ k1.missed = K.missed
         /\ k1.missedYield = K.missedYield /\ k1.overflows = K.overflows
<1> DEFINE k1 == [K EXCEPT !.pending = x]
<1>1. k1 \in Kernels /\ k1.pending = x
  BY DEF Kernels
<1>2. QED
  BY <1>1 DEF Kernels

\* With the scheduler suspended, the first task on e becomes pending.
LEMMA PendsOne ==
  ASSUME NEW K, NEW H, Good(K, H), Times(K, H), Apart(K, H), K.locks = 1,
         NEW e \in EventList, K.waiting[e] # <<>>
  PROVE  LET k1 == xTaskRemoveFromEventList(K, e)
             t  == Head(K.waiting[e]) IN
         /\ t \in Task /\ Contains(K.waiting[e], t)
         /\ Good(k1, H) /\ Times(k1, H) /\ Frees(K, H, k1, H)
         /\ Fixed(K, k1) /\ k1.wake = K.wake /\ k1.current = K.current
         /\ \A f \in EventList, u \in Task :
              Contains(k1.waiting[f], u) <=> Contains(K.waiting[f], u) /\ u # t
         /\ Len(k1.waiting[e]) = Len(K.waiting[e]) - 1
<1> DEFINE t  == Head(K.waiting[e])
           k0 == RemoveEventItem(K, t)
           k1 == [k0 EXCEPT !.pending = Append(@, t)]
<1>1. /\ K \in Kernels /\ H \in [Task -> Places] /\ K.waiting[e] \in Seq(Task)
      /\ \A f \in EventList : List(K.waiting[f])
      /\ List(K.pending)
  BY DEF Good, Kernels, Lists, List
<1>2. t \in Task /\ Contains(K.waiting[e], t)
  BY <1>1, SomeoneInList
<1>3. H[t] \in Stopped /\ ~Contains(K.pending, t)
  BY <1>2 DEF Apart, Waits
<1>4. xTaskRemoveFromEventList(K, e) = k1
  BY DEF xTaskRemoveFromEventList
<1> HIDE DEF t
<1>5. /\ k0 \in Kernels
      /\ k0.pending = Without(K.pending, t)
      /\ k0.ready = K.ready /\ k0.delayed = K.delayed /\ k0.overflow = K.overflow
      /\ k0.terminated = K.terminated /\ k0.suspended = K.suspended /\ k0.wake = K.wake
      /\ k0.running = K.running /\ k0.current = K.current /\ k0.tick = K.tick
      /\ k0.item = K.item /\ k0.prio = K.prio /\ k0.base = K.base /\ k0.top = K.top
      /\ k0.next = K.next /\ k0.locks = K.locks /\ k0.missed = K.missed
      /\ k0.missedYield = K.missedYield
  BY <1>1, <1>2, RemoveEventItemFields
<1>6. /\ k0.waiting = [f \in EventList |-> Without(K.waiting[f], t)]
      /\ k0.overflows = K.overflows
  BY <1>1, <1>2, OtherFields
<1> HIDE DEF k0
<1>7. k0.pending = K.pending
  BY <1>1, <1>3, <1>5, WithoutFacts
<1> DEFINE x == Append(K.pending, t)
<1>8. /\ List(x)
      /\ \A u : Contains(x, u) <=> Contains(K.pending, u) \/ u = t
  BY <1>1, <1>2, <1>3, AppendToList
<1>9. k1 = [k0 EXCEPT !.pending = x]
  BY <1>5, <1>7 DEF Kernels
<1> HIDE DEF x
<1>10. /\ k1 \in Kernels /\ k1.pending = x /\ k1.waiting = k0.waiting
       /\ k1.ready = k0.ready /\ k1.delayed = k0.delayed /\ k1.overflow = k0.overflow
       /\ k1.terminated = k0.terminated /\ k1.suspended = k0.suspended /\ k1.wake = k0.wake
       /\ k1.running = k0.running /\ k1.current = k0.current /\ k1.tick = k0.tick
       /\ k1.item = k0.item /\ k1.prio = k0.prio /\ k1.base = k0.base /\ k1.top = k0.top
       /\ k1.next = k0.next /\ k1.locks = k0.locks /\ k1.missed = k0.missed
       /\ k1.missedYield = k0.missedYield /\ k1.overflows = k0.overflows
  <2>1. x \in Lists
    BY <1>8 DEF List
  <2> HIDE DEF k1
  <2>2. QED
    BY ONLY <1>2, <1>5, <1>9, <2>1, SetPending
<1> HIDE DEF k1
<1>11. Good(k1, H)
  <2>1. \A u \in Task : HasPlace(k1, u, H[u])
    BY <1>5, <1>10 DEF Good, HasPlace
  <2>2. \A u \in Task : Contains(k1.pending, u) => H[u] \in Stopped
    BY <1>3, <1>8, <1>10 DEF Good
  <2>3. QED
    BY <1>1, <1>5, <1>10, <2>1, <2>2 DEF Good
<1>12. Times(k1, H)
  BY <1>5, <1>10, TimesAlike
<1>13. \A f \in EventList :
         /\ \A u : Contains(k1.waiting[f], u) <=> Contains(K.waiting[f], u) /\ u # t
         /\ \A w : InOrder(K.waiting[f], w) => InOrder(k1.waiting[f], w)
         /\ Contains(K.waiting[f], t) => Len(k1.waiting[f]) = Len(K.waiting[f]) - 1
  BY <1>1, <1>6, <1>10, WithoutFacts
<1>14. Frees(K, H, k1, H)
  <2>1. \A u \in Task : Waits(k1, u) <=> Waits(K, u) /\ u # t
    BY <1>13 DEF Waits
  <2>2. \A u \in Task : Contains(k1.pending, u) <=> Contains(K.pending, u) \/ u = t
    BY <1>8, <1>10
  <2>3. Waits(K, t)
    BY <1>2 DEF Waits
  <2>4. \A u \in Task : Waits(K, u) \/ Contains(K.pending, u) => H[u] # "ready"
    BY DEF Apart, Good, Stopped
  <2>5. \A u \in Task : Waits(K, u) => ~Contains(K.pending, u)
    BY DEF Apart
  <2>6. QED
    BY <1>13, <2>1, <2>2, <2>3, <2>4, <2>5 DEF Frees
<1>15. Fixed(K, k1) /\ k1.wake = K.wake /\ k1.current = K.current
  BY <1>5, <1>6, <1>10 DEF Fixed
<1>16. QED
  BY <1>2, <1>4, <1>11, <1>12, <1>13, <1>14, <1>15 DEF t

\* The tasks that wait on e in K, and no more in k1.
Gone(K, k1, e) == {t \in Task : Contains(K.waiting[e], t) /\ ~Contains(k1.waiting[e], t)}

\* What n turns of the loop of prvUnlockQueue make of K.
PendsMany(K, H, k1, e, n) ==
  /\ Good(k1, H) /\ Times(k1, H) /\ Frees(K, H, k1, H) /\ Apart(k1, H)
  /\ Fixed(K, k1) /\ k1.wake = K.wake /\ k1.current = K.current
  /\ \A f \in EventList \ {e}, u \in Task : Contains(k1.waiting[f], u) <=> Contains(K.waiting[f], u)
  /\ Len(k1.waiting[e]) = Len(K.waiting[e]) - n
  /\ IsFiniteSet(Gone(K, k1, e)) /\ Cardinality(Gone(K, k1, e)) = n

\* No task leaves,
LEMMA PendsNone ==
  ASSUME NEW K, NEW H, Good(K, H), Times(K, H), Apart(K, H), NEW e \in EventList
  PROVE  PendsMany(K, H, K, e, 0)
<1>1. Gone(K, K, e) = {}
  BY DEF Gone
<1>2. IsFiniteSet(Gone(K, K, e)) /\ Cardinality(Gone(K, K, e)) = 0
  BY <1>1, FS_EmptySet
<1>3. Frees(K, H, K, H)
  BY FreesNobody
<1>4. Len(K.waiting[e]) \in Nat
  BY ListFacts DEF Good, Kernels, List
<1>5. QED
  BY <1>2, <1>3, <1>4 DEF PendsMany, Fixed

\* or one more than n.
LEMMA PendsOneMore ==
  ASSUME NEW K, NEW H, Good(K, H), K.locks = 1, NEW e \in EventList, NEW n \in Nat,
         NEW k0, PendsMany(K, H, k0, e, n), n < Len(K.waiting[e])
  PROVE  PendsMany(K, H, xTaskRemoveFromEventList(k0, e), e, n + 1)
<1> DEFINE k1 == xTaskRemoveFromEventList(k0, e)
           t  == Head(k0.waiting[e])
<1>1. /\ Good(k0, H) /\ Times(k0, H) /\ Apart(k0, H) /\ k0.locks = 1
      /\ Len(k0.waiting[e]) = Len(K.waiting[e]) - n
      /\ IsFiniteSet(Gone(K, k0, e)) /\ Cardinality(Gone(K, k0, e)) = n
      /\ Frees(K, H, k0, H)
  BY DEF PendsMany, Fixed
<1>2. k0.waiting[e] # <<>>
  <2>1. Len(K.waiting[e]) \in Nat
    BY ListFacts DEF Good, Kernels, List
  <2>2. Len(<<>>) = 0
    OBVIOUS
  <2>3. QED
    BY <1>1, <2>1, <2>2
<1>3. /\ t \in Task /\ Contains(k0.waiting[e], t)
      /\ Good(k1, H) /\ Times(k1, H) /\ Frees(k0, H, k1, H)
      /\ Fixed(k0, k1) /\ k1.wake = k0.wake /\ k1.current = k0.current
      /\ \A f \in EventList, u \in Task :
           Contains(k1.waiting[f], u) <=> Contains(k0.waiting[f], u) /\ u # t
      /\ Len(k1.waiting[e]) = Len(k0.waiting[e]) - 1
  BY <1>1, <1>2, PendsOne
<1> HIDE DEF k1, t
<1>4. Apart(k1, H)
  BY <1>1, <1>3, ApartStill
<1>5. Frees(K, H, k1, H)
  BY <1>1, <1>3, FreesOn
<1>6. \A f \in EventList \ {e}, u \in Task : Contains(k1.waiting[f], u) <=> Contains(K.waiting[f], u)
  <2>1. \A f \in EventList \ {e} : ~Contains(k0.waiting[f], t)
    BY <1>1, <1>3 DEF Apart
  <2>2. QED
    BY <1>3, <2>1 DEF PendsMany
<1>7. Contains(K.waiting[e], t)
  BY <1>1, <1>3 DEF Frees
<1>8. Gone(K, k1, e) = Gone(K, k0, e) \cup {t} /\ t \notin Gone(K, k0, e)
  BY <1>3, <1>7 DEF Gone
<1>9. IsFiniteSet(Gone(K, k1, e)) /\ Cardinality(Gone(K, k1, e)) = n + 1
  BY <1>1, <1>8, FS_AddElement
<1>10. Len(K.waiting[e]) \in Nat
  BY ListFacts DEF Good, Kernels, List
<1>11. Len(k1.waiting[e]) = Len(K.waiting[e]) - (n + 1)
  BY <1>1, <1>3, <1>10
<1>12. Fixed(K, k1) /\ k1.wake = K.wake /\ k1.current = K.current
  BY <1>3 DEF PendsMany, Fixed
<1>13. QED
  BY <1>3, <1>4, <1>5, <1>6, <1>9, <1>11, <1>12 DEF PendsMany, k1

-----------------------------------------------------------------------------
(* Priorities that are lent                                                  *)

\* Task t is lent priority p, and so is its event item.
Lent(K, t, p) == [K EXCEPT !.item[t] = p, !.prio[t] = p]

\* Between K and k1 nothing happened but that t was lent priority p.
Lends(K, k1, t, p) ==
  /\ k1.prio = [K.prio EXCEPT ![t] = p] /\ k1.item = [K.item EXCEPT ![t] = p]
  /\ k1.running = K.running /\ k1.current = K.current /\ k1.tick = K.tick
  /\ k1.overflows = K.overflows /\ k1.base = K.base /\ k1.locks = K.locks
  /\ k1.missed = K.missed /\ k1.missedYield = K.missedYield /\ k1.pending = K.pending
  /\ k1.waiting = K.waiting

\* Lending a priority, field by field.
LEMMA LentFields ==
  ASSUME NEW K \in Kernels, NEW t \in Task, NEW p \in Prio
  PROVE  LET k1 == Lent(K, t, p) IN
    /\ k1 \in Kernels /\ Lends(K, k1, t, p)
    /\ k1.ready = K.ready /\ k1.delayed = K.delayed /\ k1.overflow = K.overflow
    /\ k1.terminated = K.terminated /\ k1.suspended = K.suspended
    /\ k1.wake = K.wake /\ k1.top = K.top /\ k1.next = K.next
<1> DEFINE prio == [K.prio EXCEPT ![t] = p]
           item == [K.item EXCEPT ![t] = p]
           k1   == Lent(K, t, p)
<1>1. prio \in [Task -> Prio] /\ item \in [Task -> Prio]
  BY DEF Kernels
<1>2. k1 = [K EXCEPT !.item = item, !.prio = prio]
  BY DEF Kernels, Lent
<1> HIDE DEF k1
<1> SUFFICES /\ k1 \in Kernels /\ Lends(K, k1, t, p)
             /\ k1.ready = K.ready /\ k1.delayed = K.delayed /\ k1.overflow = K.overflow
             /\ k1.terminated = K.terminated /\ k1.suspended = K.suspended
             /\ k1.wake = K.wake /\ k1.top = K.top /\ k1.next = K.next
  BY DEF k1
<1>3. prio = [K.prio EXCEPT ![t] = p] /\ item = [K.item EXCEPT ![t] = p]
  OBVIOUS
<1> HIDE DEF prio, item
<1>4. k1 \in Kernels
  BY <1>1, <1>2 DEF Kernels
<1>5. /\ k1.ready = K.ready /\ k1.delayed = K.delayed /\ k1.overflow = K.overflow
      /\ k1.terminated = K.terminated /\ k1.suspended = K.suspended
      /\ k1.wake = K.wake /\ k1.top = K.top /\ k1.next = K.next
  BY <1>2 DEF Kernels
<1>6. /\ k1.prio = prio /\ k1.item = item
      /\ k1.running = K.running /\ k1.current = K.current /\ k1.tick = K.tick
      /\ k1.overflows = K.overflows /\ k1.base = K.base /\ k1.locks = K.locks
      /\ k1.missed = K.missed /\ k1.missedYield = K.missedYield /\ k1.pending = K.pending
      /\ k1.waiting = K.waiting
  BY <1>2 DEF Kernels
<1>7. QED
  BY <1>4, <1>5, <1>6, <1>3 DEF Lends

\* A task that is not ready is lent a priority.
LEMMA LentWhileAway ==
  ASSUME NEW K, NEW H, Good(K, H), NEW t \in Task, H[t] # "ready", NEW p \in Prio
  PROVE  LET k1 == Lent(K, t, p) IN
    /\ Good(k1, H) /\ (Times(K, H) => Times(k1, H))
    /\ Lends(K, k1, t, p) /\ k1.wake = K.wake
<1> DEFINE k1 == Lent(K, t, p)
<1>1. K \in Kernels
  BY DEF Good
<1>2. /\ k1 \in Kernels /\ Lends(K, k1, t, p)
      /\ k1.ready = K.ready /\ k1.delayed = K.delayed /\ k1.overflow = K.overflow
      /\ k1.terminated = K.terminated /\ k1.suspended = K.suspended
      /\ k1.wake = K.wake /\ k1.top = K.top /\ k1.next = K.next
  BY <1>1, LentFields
<1> HIDE DEF k1
<1>3. /\ k1.pending = K.pending /\ k1.tick = K.tick
      /\ \A u \in Task \ {t} : k1.prio[u] = K.prio[u]
  BY <1>1, <1>2 DEF Lends, Kernels
<1>4. ASSUME NEW u \in Task PROVE HasPlace(k1, u, H[u])
  BY <1>2, <1>3 DEF Good, HasPlace
<1>5. \A u \in Task : H[u] = "ready" => k1.prio[u] <= k1.top
  BY <1>2, <1>3 DEF Good
<1>6. Good(k1, H)
  BY <1>2, <1>3, <1>4, <1>5 DEF Good
<1>7. Times(K, H) => Times(k1, H)
  BY <1>2, <1>3, TimesAlike
<1>8. QED
  BY <1>2, <1>6, <1>7 DEF k1

\* A ready task is lent a priority, and moves to the list of that.
LEMMA LentWhileReady ==
  ASSUME NEW K, NEW H, Good(K, H), NEW t \in Task, H[t] = "ready", NEW p \in Prio
  PROVE  LET k1 == prvAddTaskToReadyQueue(Lent(RemoveGenericItem(K, t), t, p), t) IN
    /\ Good(k1, H) /\ (Times(K, H) => Times(k1, H))
    /\ Lends(K, k1, t, p) /\ \A u \in Task \ {t} : k1.wake[u] = K.wake[u]
<1> DEFINE ka == RemoveGenericItem(K, t)
           kb == Lent(ka, t, p)
           Ha == [H EXCEPT ![t] = "none"]
           k1 == prvAddTaskToReadyQueue(kb, t)
<1>1. K \in Kernels /\ H \in [Task -> Places] /\ ~Contains(K.pending, t)
  BY DEF Good, Stopped
<1>2. /\ Good(ka, Ha) /\ Same(K, ka) /\ ka.pending = K.pending
      /\ Times(K, H) => Times(ka, Ha)
      /\ \A u \in Task \ {t} : ka.wake[u] = K.wake[u]
  BY <1>1, RemovedGenericItem
<1>3. ka.waiting = K.waiting /\ ka.overflows = K.overflows
  BY <1>1, OtherFields
<1>4. Ha[t] = "none" /\ [Ha EXCEPT ![t] = "ready"] = H
  BY <1>1
<1> HIDE DEF ka, Ha
<1>5. /\ Good(kb, Ha) /\ (Times(ka, Ha) => Times(kb, Ha))
      /\ Lends(ka, kb, t, p) /\ kb.wake = ka.wake
  BY <1>2, <1>4, LentWhileAway
<1> HIDE DEF kb
<1>6. /\ Good(k1, [Ha EXCEPT ![t] = "ready"]) /\ Same(kb, k1) /\ k1.pending = kb.pending
      /\ Times(kb, Ha) => Times(k1, [Ha EXCEPT ![t] = "ready"])
      /\ k1.wake = kb.wake
  <2>1. Good(kb, Ha) /\ Ha[t] = "none"
    BY <1>4, <1>5
  <2>2. QED
    BY <2>1, Readied
<1>7. k1.waiting = kb.waiting /\ k1.overflows = kb.overflows
  <2>1. kb \in Kernels
    BY <1>5 DEF Good
  <2>2. QED
    BY <2>1, OtherFields
<1> HIDE DEF k1
<1>8. Good(k1, H) /\ (Times(K, H) => Times(k1, H))
  BY <1>2, <1>4, <1>5, <1>6
<1>9. Lends(K, k1, t, p)
  BY <1>2, <1>3, <1>5, <1>6, <1>7 DEF Same, Lends
<1>10. \A u \in Task \ {t} : k1.wake[u] = K.wake[u]
  BY <1>2, <1>5, <1>6
<1>11. QED
  BY <1>8, <1>9, <1>10 DEF k1, kb, ka

\* The order in which the fields of a record are set does not matter:
LEMMA OrderOfLending ==
  ASSUME NEW K \in Kernels, NEW a, NEW b, NEW c, NEW d, NEW f, NEW g, NEW x, NEW y
  PROVE  [[K EXCEPT !.item = x, !.prio = y]
             EXCEPT !.ready = a, !.delayed = b, !.overflow = c, !.suspended = d,
                    !.terminated = f, !.wake = g]
       = [[K EXCEPT !.ready = a, !.delayed = b, !.overflow = c, !.suspended = d,
                    !.terminated = f, !.wake = g]
             EXCEPT !.item = x, !.prio = y]
BY DEF Kernels

\* lending, in terms of all priorities,
LEMMA LentIs ==
  ASSUME NEW K \in Kernels, NEW t \in Task, NEW p \in Prio
  PROVE  Lent(K, t, p)
           = [K EXCEPT !.item = [K.item EXCEPT ![t] = p], !.prio = [K.prio EXCEPT ![t] = p]]
BY DEF Lent, Kernels

\* It does not matter whether a task leaves its list before or after.
LEMMA LendingRemoves ==
  ASSUME NEW K \in Kernels, NEW t \in Task, NEW p \in Prio
  PROVE  RemoveGenericItem(Lent(K, t, p), t) = Lent(RemoveGenericItem(K, t), t, p)
<1> DEFINE a == [r \in Prio |-> Without(K.ready[r], t)]
           b == Without(K.delayed, t)
           c == Without(K.overflow, t)
           d == K.suspended \ {t}
           f == Without(K.terminated, t)
           g == [K.wake EXCEPT ![t] = 0]
           x == [K.item EXCEPT ![t] = p]
           y == [K.prio EXCEPT ![t] = p]
           k1 == Lent(K, t, p)
           k2 == RemoveGenericItem(K, t)
<1>1. t \in Task /\ p \in Prio
  OBVIOUS
<1>2. k1 = [K EXCEPT !.item = x, !.prio = y]
  BY LentIs
<1>3. k2 = [K EXCEPT !.ready = a, !.delayed = b, !.overflow = c, !.suspended = d,
                     !.terminated = f, !.wake = g]
  BY GenericItemGone
<1>4. /\ k1 \in Kernels /\ k1.ready = K.ready /\ k1.delayed = K.delayed
      /\ k1.overflow = K.overflow /\ k1.terminated = K.terminated
      /\ k1.suspended = K.suspended /\ k1.wake = K.wake
  BY LentFields
<1>5. k2 \in Kernels /\ k2.item = K.item /\ k2.prio = K.prio
  BY RemoveGenericItemFields
<1>6. RemoveGenericItem(k1, t)
        = [k1 EXCEPT !.ready = a, !.delayed = b, !.overflow = c, !.suspended = d,
                     !.terminated = f, !.wake = g]
  <2> HIDE DEF k1
  <2>1. RemoveGenericItem(k1, t)
          = [k1 EXCEPT !.ready      = [r \in Prio |-> Without(k1.ready[r], t)],
                       !.delayed    = Without(k1.delayed, t),
                       !.overflow   = Without(k1.overflow, t),
                       !.suspended  = k1.suspended \ {t},
                       !.terminated = Without(k1.terminated, t),
                       !.wake       = [k1.wake EXCEPT ![t] = 0]]
    BY <1>4, GenericItemGone
  <2>2. QED
    BY <1>4, <2>1
<1>7. Lent(k2, t, p) = [k2 EXCEPT !.item = x, !.prio = y]
  <2> HIDE DEF k2
  <2>1. Lent(k2, t, p)
          = [k2 EXCEPT !.item = [k2.item EXCEPT ![t] = p], !.prio = [k2.prio EXCEPT ![t] = p]]
    BY <1>5 DEF Lent, Kernels
  <2>2. QED
    BY <1>5, <2>1
<1> HIDE DEF a, b, c, d, f, g, x, y, k1, k2
<1>8. RemoveGenericItem(k1, t) = Lent(k2, t, p)
  BY <1>2, <1>3, <1>6, <1>7, OrderOfLending
<1>9. QED
  BY <1>8 DEF k1, k2

-----------------------------------------------------------------------------
(* Entering an event list                                                    *)

\* Setting an event list, field by field.
LEMMA SetWaiting ==
  ASSUME NEW K, NEW H, Good(K, H), NEW e \in EventList, NEW s \in Lists
  PROVE  LET k1 == [K EXCEPT !.waiting[e] = s] IN
         /\ Good(k1, H) /\ (Times(K, H) => Times(k1, H))
         /\ k1.waiting = [K.waiting EXCEPT ![e] = s]
         /\ Fixed(K, k1) /\ Same(K, k1) /\ k1.pending = K.pending /\ k1.wake = K.wake
<1> DEFINE x  == [K.waiting EXCEPT ![e] = s]
           k1 == [K EXCEPT !.waiting[e] = s]
<1>1. K \in Kernels /\ x \in [EventList -> Lists]
  BY DEF Good, Kernels
<1>2. k1 = [K EXCEPT !.waiting = x]
  BY <1>1 DEF Kernels
<1> HIDE DEF x, k1
<1>3. k1 \in Kernels /\ k1.waiting = x
  BY <1>1, <1>2 DEF Kernels
<1>4. /\ k1.ready = K.ready /\ k1.delayed = K.delayed /\ k1.overflow = K.overflow
      /\ k1.terminated = K.terminated /\ k1.suspended = K.suspended
      /\ k1.wake = K.wake /\ k1.pending = K.pending /\ k1.top = K.top
      /\ k1.next = K.next /\ k1.tick = K.tick /\ k1.prio = K.prio
  BY <1>1, <1>2 DEF Kernels
<1>5. Fixed(K, k1) /\ Same(K, k1)
  BY <1>1, <1>2 DEF Kernels, Fixed, Same
<1>6. Good(k1, H)
  BY <1>3, <1>4, GoodAlike
<1>7. Times(K, H) => Times(k1, H)
  BY <1>4, TimesAlike
<1>8. QED
  BY <1>3, <1>4, <1>5, <1>6, <1>7 DEF x, k1

\* Falling asleep leaves the event lists alone.
LEMMA SleepingFields ==
  ASSUME NEW K \in Kernels, NEW time, NEW x
  PROVE  /\ prvAddCurrentTaskToDelayedList(K, time).waiting = K.waiting
         /\ prvAddCurrentTaskToDelayedList(K, time).overflows = K.overflows
         /\ [K EXCEPT !.suspended = x].waiting = K.waiting
         /\ [K EXCEPT !.suspended = x].overflows = K.overflows
BY DEF Kernels, prvAddCurrentTaskToDelayedList

\* What is left of K when the current task has gone to the list l, for n ticks.
Stops(K, H, k1, l, n) ==
  /\ Good(k1, Move(H, K.current, l)) /\ Times(k1, Move(H, K.current, l))
  /\ Fixed(K, k1) /\ k1.current = K.current /\ k1.missedYield = K.missedYield
  /\ k1.pending = K.pending
  /\ l \in Asleep => Rest(k1, Move(H, K.current, l), K.current) = n
  /\ \A u \in Task \ {K.current} : k1.wake[u] = K.wake[u]

\* The current task falls asleep for n ticks.
LEMMA FellAsleep ==
  ASSUME NEW K, NEW H, Good(K, H), Times(K, H), K.current \in Task, H[K.current] = "ready",
         NEW n \in 1 .. MaxDelay
  PROVE  LET k1 == DelayCurrent(K, (K.tick + n) % Ticks) IN
         \E l \in Asleep : Stops(K, H, k1, l, n) /\ k1.waiting = K.waiting
<1> DEFINE time == Wrapped(K.tick + n, Ticks)
           t  == K.current
           k1 == DelayCurrent(K, time)
           l  == IF time < K.tick THEN "overflow" ELSE "delayed"
           H1 == Move(H, t, l)
<1>1. K \in Kernels /\ K.tick \in 0 .. MaxDelay /\ MaxDelay \in Nat \ {0} /\ Ticks = MaxDelay + 1
  BY Numbers DEF Good, Kernels
<1>2. time = IF K.tick + n < Ticks THEN K.tick + n ELSE (K.tick + n) - Ticks
  <2>1. /\ Ticks \in Nat \ {0} /\ K.tick + n \in Int
        /\ 0 <= K.tick + n /\ -Ticks <= K.tick + n /\ K.tick + n < 2 * Ticks
    BY <1>1
  <2> DEFINE z == K.tick + n
  <2> HIDE DEF z
  <2>2. /\ Ticks \in Nat \ {0} /\ z \in Int /\ 0 <= z /\ -Ticks <= z /\ z < 2 * Ticks
    BY <2>1 DEF z
  <2>3. Wrapped(z, Ticks) = IF z < 0 THEN z + Ticks ELSE IF z < Ticks THEN z ELSE z - Ticks
    BY <2>2, OneTurn
  <2>4. Wrapped(z, Ticks) = IF z < Ticks THEN z ELSE z - Ticks
    BY <2>2, <2>3
  <2>5. QED
    BY <2>4 DEF z
<1>3. time \in 0 .. MaxDelay /\ time # K.tick
  BY <1>1, <1>2
<1> HIDE DEF time
<1>4. /\ Good(k1, H1) /\ Times(k1, H1) /\ Same(K, k1) /\ k1.pending = K.pending
      /\ k1.wake[t] = time /\ \A u \in Task \ {t} : k1.wake[u] = K.wake[u]
  BY <1>3, Delayed DEF Move
<1>5. k1.waiting = K.waiting /\ k1.overflows = K.overflows
  <2> DEFINE k0 == RemoveGenericItem(K, t)
  <2>1. k0 \in Kernels /\ k0.waiting = K.waiting /\ k0.overflows = K.overflows
    BY <1>1, RemoveGenericItemFields, OtherFields
  <2>2. k1 = prvAddCurrentTaskToDelayedList(k0, time)
    BY DEF DelayCurrent
  <2> HIDE DEF k0, k1
  <2>3. QED
    BY <2>1, <2>2, SleepingFields
<1>6. Fixed(K, k1) /\ k1.current = t /\ k1.missedYield = K.missedYield /\ k1.tick = K.tick
  BY <1>4, <1>5 DEF Fixed, Same
<1>7. H1[t] = l /\ l \in Asleep
  BY DEF Good, Move, Asleep
<1>8. Rest(k1, H1, t) = n
  <2> HIDE DEF k1, H1, l
  <2>1. l = IF time < K.tick THEN "overflow" ELSE "delayed"
    BY DEF l
  <2>2. n \in Nat
    BY <1>1
  <2>3. QED
    BY <1>1, <1>2, <1>3, <1>4, <1>6, <1>7, <2>1, <2>2 DEF Rest
<1>9. Stops(K, H, k1, l, n)
  BY <1>4, <1>6, <1>7, <1>8 DEF Stops
<1>10. QED
  BY <1>5, <1>7, <1>9 DEF time, Wrapped

\* The current task stops for good.
LEMMA FellSilent ==
  ASSUME NEW K, NEW H, Good(K, H), Times(K, H), K.current \in Task, H[K.current] = "ready", NEW n
  PROVE  LET k1 == [RemoveGenericItem(K, K.current) EXCEPT !.suspended = @ \cup {K.current}] IN
         Stops(K, H, k1, "suspended", n) /\ k1.waiting = K.waiting
<1> DEFINE t  == K.current
           k0 == RemoveGenericItem(K, t)
           H0 == [H EXCEPT ![t] = "none"]
           k1 == [k0 EXCEPT !.suspended = @ \cup {t}]
           H1 == Move(H, t, "suspended")
<1>1. K \in Kernels /\ H \in [Task -> Places] /\ ~Contains(K.pending, t)
  BY DEF Good, Stopped
<1>2. /\ Good(k0, H0) /\ Same(K, k0) /\ k0.pending = K.pending /\ Times(k0, H0)
      /\ \A u \in Task \ {t} : k0.wake[u] = K.wake[u]
  BY <1>1, RemovedGenericItem
<1>3. k0.waiting = K.waiting /\ k0.overflows = K.overflows /\ k0 \in Kernels
  BY <1>1, OtherFields, RemoveGenericItemFields
<1>4. H0[t] = "none" /\ [H0 EXCEPT ![t] = "suspended"] = H1
  BY <1>1 DEF Move
<1> HIDE DEF k0, H0
<1>5. /\ Good(k1, H1) /\ Times(k1, H1) /\ Same(k0, k1)
      /\ k1.pending = k0.pending /\ k1.wake = k0.wake
  BY <1>2, <1>4, Suspended
<1>6. k1.waiting = k0.waiting /\ k1.overflows = k0.overflows
  <2>1. k1 = [k0 EXCEPT !.suspended = k0.suspended \cup {t}]
    BY <1>3 DEF Kernels
  <2> HIDE DEF k1
  <2>2. QED
    BY <1>3, <2>1, SleepingFields
<1> HIDE DEF k1
<1>7. Fixed(K, k1) /\ k1.current = t /\ k1.missedYield = K.missedYield
  BY <1>2, <1>3, <1>5, <1>6 DEF Fixed, Same
<1>8. QED
  BY <1>2, <1>3, <1>5, <1>6, <1>7 DEF Stops, Asleep, k1, k0

\* vTaskPlaceOnEventList: the current task waits on e, for n ticks at most.
LEMMA PlacedOn ==
  ASSUME NEW K, NEW H, Good(K, H), Times(K, H), K.current \in Task, H[K.current] = "ready",
         NEW e \in EventList, NEW n \in 1 .. MaxDelay, ~Contains(K.waiting[e], K.current)
  PROVE  LET k1 == vTaskPlaceOnEventList(K, e, n) IN
         \E l \in Stopped :
           /\ Stops(K, H, k1, l, n) /\ (l = "suspended" <=> n = MaxDelay)
           /\ \A u : Contains(k1.waiting[e], u) <=> Contains(K.waiting[e], u) \/ u = K.current
           /\ \A f \in EventList \ {e} : k1.waiting[f] = K.waiting[f]
           /\ InOrder(K.waiting[e], EventValue(K)) => InOrder(k1.waiting[e], EventValue(K))
<1> DEFINE t  == K.current
           s  == vListInsert(K.waiting[e], t, EventValue(K))
           k0 == [K EXCEPT !.waiting[e] = s]
           k1 == vTaskPlaceOnEventList(K, e, n)
           ks == [RemoveGenericItem(k0, t) EXCEPT !.suspended = @ \cup {t}]
           kd == DelayCurrent(k0, (K.tick + n) % Ticks)
<1>1. K \in Kernels /\ List(K.waiting[e]) /\ K.item \in [Task -> Prio] /\ K.waiting \in [EventList -> Lists]
  BY DEF Good, Kernels, List
<1>2. \A u \in Task : EventValue(K)[u] \in Int
  <2>1. ASSUME NEW u \in Task PROVE K.item[u] \in Int /\ Priorities \in Int
    <3>1. K.item[u] \in Prio
      BY <1>1
    <3>2. QED
      BY <3>1, KernelAssumption DEF Prio
  <2>2. QED
    BY <2>1 DEF EventValue
<1>3. /\ List(s) /\ \A u : Contains(s, u) <=> Contains(K.waiting[e], u) \/ u = t
      /\ InOrder(K.waiting[e], EventValue(K)) => InOrder(s, EventValue(K))
  BY <1>1, <1>2, InsertFacts
<1>4. k0 = [K EXCEPT !.waiting[e] = s]
  OBVIOUS
<1>5. k1 = IF n = MaxDelay THEN ks ELSE kd
  <2>1. k0.current = t
    BY <1>1 DEF Kernels
  <2>2. k1 = IF n = MaxDelay
             THEN [RemoveGenericItem(k0, K.current) EXCEPT !.suspended = @ \cup {K.current}]
             ELSE DelayCurrent(k0, (K.tick + n) % Ticks)
    <3>1. k0 = [K EXCEPT !.waiting[e] = vListInsert(@, K.current, EventValue(K))]
      BY <1>1 DEF Kernels
    <3> HIDE DEF k0
    <3>2. QED
      BY <3>1 DEF vTaskPlaceOnEventList
  <2> HIDE DEF k0
  <2>3. QED
    BY <2>2
<1> HIDE DEF s, k0, ks, kd, k1
<1>6. /\ Good(k0, H) /\ Times(k0, H) /\ k0.waiting = [K.waiting EXCEPT ![e] = s]
      /\ Fixed(K, k0) /\ Same(K, k0) /\ k0.pending = K.pending /\ k0.wake = K.wake
  <2>1. s \in Lists
    BY <1>3 DEF List
  <2>2. QED
    BY <1>4, <2>1, SetWaiting
<1>7. k0.current = t /\ k0.tick = K.tick /\ k0.missedYield = K.missedYield
  BY <1>6 DEF Same
<1>8. /\ \A u : Contains(k0.waiting[e], u) <=> Contains(K.waiting[e], u) \/ u = t
      /\ \A f \in EventList \ {e} : k0.waiting[f] = K.waiting[f]
      /\ InOrder(K.waiting[e], EventValue(K)) => InOrder(k0.waiting[e], EventValue(K))
  BY <1>1, <1>3, <1>6
<1>9. ASSUME NEW x, NEW l, Stops(k0, H, x, l, n)
      PROVE  Stops(K, H, x, l, n)
  BY <1>6, <1>7, <1>9 DEF Stops, Fixed
<1>10. CASE n = MaxDelay
  <2>1. Stops(k0, H, ks, "suspended", n) /\ ks.waiting = k0.waiting
    BY <1>6, <1>7, FellSilent DEF ks
  <2>2. k1 = ks /\ "suspended" \in Stopped
    BY <1>5, <1>10 DEF Stopped
  <2>3. Stops(K, H, k1, "suspended", n)
    BY <1>9, <2>1, <2>2
  <2>4. QED
    BY <1>8, <1>10, <2>1, <2>2, <2>3 DEF k1
<1>11. CASE n # MaxDelay
  <2>1. PICK l \in Asleep : Stops(k0, H, kd, l, n) /\ kd.waiting = k0.waiting
    BY <1>6, <1>7, FellAsleep DEF kd
  <2>2. k1 = kd /\ l \in Stopped /\ l # "suspended"
    BY <1>5, <1>11 DEF Stopped, Asleep
  <2>3. Stops(K, H, k1, l, n)
    BY <1>9, <2>1, <2>2
  <2>4. QED
    BY <1>8, <1>11, <2>1, <2>2, <2>3 DEF k1
<1>12. QED
  BY <1>10, <1>11
=============================================================================
