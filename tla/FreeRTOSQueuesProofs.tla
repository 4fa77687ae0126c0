------------------------ MODULE FreeRTOSQueuesProofs ------------------------
(***************************************************************************)
(* Proofs about the queues of FreeRTOS, for any items, length, tasks and   *)
(* programs, and in every order of the steps of tasks and interrupts.  The *)
(* ring of slots is a channel (ChannelInvariant).  What the kernel and the *)
(* calls agree on while tasks are inside a call (Frame) is the ground for  *)
(* three invariants: how long each call has waited (Timing), that what is  *)
(* there is met by as many who are about to take it (Fed), and that a mutex *)
(* is lent the priorities of those who wait for it (Lending).              *)
(***************************************************************************)
EXTENDS FreeRTOSQueues, FreeRTOSTasksProofs

-----------------------------------------------------------------------------
(* Waking one task, or many                                                  *)

\* With the scheduler running, a critical section wakes the first task on e.
LEMMA WokeOne ==
  ASSUME NEW K, NEW H, Good(K, H), Times(K, H), Apart(K, H), K.locks = 0, K.pending = <<>>,
         K.current \in Task, NEW e \in EventList, K.waiting[e] # <<>>
  PROVE  LET k1 == WakeOne(K, e)
             t  == Head(K.waiting[e])
             H1 == [H EXCEPT ![t] = "ready"] IN
         /\ t \in Task /\ Contains(K.waiting[e], t)
         /\ Good(k1, H1) /\ Times(k1, H1) /\ Frees(K, H, k1, H1)
         /\ SleepsOn(K, H, k1, H1, 0) /\ Fixed(K, k1)
         /\ k1.missedYield = K.missedYield /\ k1.pending = <<>>
         /\ k1.current \in Task /\ k1.prio[k1.current] >= k1.prio[t]
         /\ k1.current = K.current \/ H1[k1.current] = "ready"
         /\ \A f \in EventList, u \in Task :
              Contains(k1.waiting[f], u) <=> Contains(K.waiting[f], u) /\ u # t
<1> DEFINE t  == Head(K.waiting[e])
           k0 == xTaskRemoveFromEventList(K, e)
           k1 == WakeOne(K, e)
           H1 == [H EXCEPT ![t] = "ready"]
<1>1. /\ K \in Kernels /\ H \in [Task -> Places] /\ K.waiting[e] \in Seq(Task)
      /\ \A f \in EventList : K.waiting[f] \in Lists
      /\ K.prio \in [Task -> Prio] /\ Prio \subseteq Nat
  BY Numbers DEF Good, Kernels, Lists
<1>2. t \in Task /\ Contains(K.waiting[e], t)
  BY <1>1, SomeoneInList
<1>3. /\ H[t] \in Stopped
      /\ H1 \in [Task -> Places] /\ H1[t] = "ready" /\ \A u \in Task \ {t} : H1[u] = H[u]
  BY <1>1, <1>2 DEF Apart, Waits, Stopped, Places
<1>4. k0 = Unblock(K, t)
  BY <1>1, <1>2, RemovedIsUnblocked
<1>5. /\ Good(k0, H1) /\ Same(K, k0) /\ k0.pending = Without(K.pending, t)
      /\ Times(k0, H1) /\ \A u \in Task \ {t} : k0.wake[u] = K.wake[u]
      /\ k0.waiting = [f \in EventList |-> Without(K.waiting[f], t)]
      /\ k0.overflows = K.overflows /\ Leave(K, H, k0, H1)
  <2> HIDE DEF t, k0
  <2>1. H[t] # "ready"
    BY <1>3 DEF Stopped
  <2>2. /\ Good(Unblock(K, t), H1) /\ Same(K, Unblock(K, t))
        /\ Unblock(K, t).pending = Without(K.pending, t)
        /\ Times(Unblock(K, t), H1)
        /\ \A u \in Task \ {t} : Unblock(K, t).wake[u] = K.wake[u]
    BY <1>2, Unblocked
  <2>3. /\ Unblock(K, t).waiting = [f \in EventList |-> Without(K.waiting[f], t)]
        /\ Unblock(K, t).overflows = K.overflows
    BY <1>1, <1>2, UnblockFields
  <2>4. Leave(K, H, Unblock(K, t), H1)
    BY <1>2, <2>1, UnblockedLeaves
  <2>5. QED
    BY <1>4, <2>2, <2>3, <2>4
<1> HIDE DEF t, k0, H1
<1>6. k0.pending = <<>> /\ \A u \in Task : ~Contains(K.pending, u)
  BY <1>5, EmptyList DEF Without
<1>7. \A f \in EventList, u \in Task :
        Contains(k0.waiting[f], u) <=> Contains(K.waiting[f], u) /\ u # t
  BY <1>1, <1>5, WithoutFacts DEF List
<1>8. Frees(K, H, k0, H1) /\ SleepsOn(K, H, k0, H1, 0)
  <2>1. ASSUME NEW u \in Task
        PROVE  /\ Waits(k0, u) <=> Waits(K, u) /\ u # t
               /\ ~Contains(k0.pending, u) /\ ~Contains(K.pending, u)
    BY <1>6, <1>7 DEF Waits
  <2>2. \A u \in Task : Waits(K, u) => H[u] \in Stopped
    BY DEF Apart
  <2>3. Frees(K, H, k0, H1)
    BY <1>3, <1>5, <1>7, <2>1, <2>2 DEF Frees, Leave, Stopped
  <2>4. \A u \in Task \ {t} : Rest(k0, H1, u) = Rest(K, H, u)
    BY <1>3, <1>5, RestAlike DEF Same
  <2>5. \A u \in Task : Rest(K, H, u) \in Int
    BY RestFacts, Numbers
  <2>6. QED
    BY <1>3, <2>3, <2>4, <2>5 DEF SleepsOn, Asleep
<1>9. k1 = IF K.prio[t] >= K.prio[K.current] THEN vTaskSwitchContext(k0) ELSE k0
  BY DEF WakeOne, HeadOutranks, t, k0
<1>10. CASE K.prio[t] >= K.prio[K.current]
  <2> DEFINE k2 == vTaskSwitchContext(k0)
  <2>1. k0.locks = 0
    BY <1>5 DEF Same
  <2>2. /\ Good(k2, H1) /\ Times(k2, H1) /\ Highest(k2, H1) /\ Fixed(k0, k2)
        /\ k2.missedYield = k0.missedYield /\ k2.pending = k0.pending
        /\ k2.waiting = k0.waiting /\ k2.wake = k0.wake
    BY <1>2, <1>3, <1>5, <2>1, SwitchedOn
  <2> HIDE DEF k2
  <2>3. Apart(k0, H1)
    BY <1>5, <1>8, ApartStill
  <2>4. Frees(K, H, k2, H1)
    <3>1. Frees(k0, H1, k2, H1)
      BY <1>5, <2>2, <2>3, FreesNobody
    <3>2. QED
      BY <1>5, <1>8, <3>1, FreesOn
  <2>5. SleepsOn(K, H, k2, H1, 0)
    <3>1. \A u \in Task : Rest(k2, H1, u) = Rest(k0, H1, u)
      BY <2>2, RestAlike DEF Fixed
    <3>2. QED
      BY <1>8, <3>1 DEF SleepsOn
  <2>6. k2.current \in Task /\ H1[k2.current] = "ready" /\ k2.prio[t] <= k2.prio[k2.current]
    BY <1>2, <1>3, <2>2 DEF Highest
  <2>7. k2.prio \in [Task -> Prio]
    BY <2>2 DEF Good, Kernels
  <2>8. k2.prio[k2.current] >= k2.prio[t]
    BY <1>1, <1>2, <2>6, <2>7
  <2>9. k1 = k2
    BY <1>9, <1>10 DEF k2
  <2> HIDE DEF k1
  <2>10. QED
    BY <1>2, <1>5, <1>6, <1>7, <2>2, <2>4, <2>5, <2>6, <2>8, <2>9
       DEF t, k1, H1, Fixed, Same
<1>11. CASE ~(K.prio[t] >= K.prio[K.current])
  <2>1. k1 = k0
    BY <1>9, <1>11
  <2>2. K.prio[K.current] >= K.prio[t]
    <3>1. K.prio[K.current] \in Nat /\ K.prio[t] \in Nat
      BY <1>1, <1>2
    <3>2. QED
      BY <1>11, <3>1
  <2> HIDE DEF k1
  <2>3. QED
    BY <1>2, <1>5, <1>6, <1>7, <1>8, <2>1, <2>2 DEF t, k1, H1, Fixed, Same
<1>12. QED
  BY <1>10, <1>11

\* The first n tasks that wait on e, or all of them, become pending.
LEMMA WokeUpTo ==
  ASSUME NEW H, Good(k, H), Times(k, H), Apart(k, H), k.locks = 1,
         NEW e \in EventList, NEW n \in Nat
  PROVE  LET k1 == WakeUpTo(n, e) IN
         /\ Good(k1, H) /\ Times(k1, H) /\ Frees(k, H, k1, H)
         /\ Fixed(k, k1) /\ k1.wake = k.wake /\ k1.current = k.current
         /\ \A f \in EventList \ {e}, t \in Task :
              Contains(k1.waiting[f], t) <=> Contains(k.waiting[f], t)
         /\ IsFiniteSet(Gone(k, k1, e)) /\ Cardinality(Gone(k, k1, e)) \in Nat
         /\ n <= Cardinality(Gone(k, k1, e)) \/ k1.waiting[e] = <<>>
<1> DEFINE L == Len(k.waiting[e])
           m == IF n < L THEN n ELSE L
           S == {x \in Kernels : \E i \in 0 .. L : PendsMany(k, H, x, e, i)}
           F == [x \in S |-> IF x.waiting[e] = <<>> THEN x ELSE xTaskRemoveFromEventList(x, e)]
           woken[i \in 0 .. m] == IF i = 0 THEN k ELSE xTaskRemoveFromEventList(woken[i - 1], e)
           P(x, i) == PendsMany(k, H, x, e, i)
           Z == \E i \in 1 .. m : k.prio[k.waiting[e][i]] >= k.prio[k.current]
<1>1. L \in Nat /\ m \in 0 .. L /\ m \in Nat
  BY ListFacts DEF Good, Kernels, List
<1>2. k \in S /\ P(k, 0)
  BY <1>1, PendsNone DEF Good
<1>3. ASSUME NEW x, NEW i \in 0 .. L, P(x, i)
      PROVE  /\ x.waiting[e] = <<>> <=> i = L
             /\ i < L => P(xTaskRemoveFromEventList(x, e), i + 1)
             /\ x \in Kernels
  <2>1. x \in Kernels /\ Len(x.waiting[e]) = L - i
    BY <1>3 DEF PendsMany, Good
  <2>2. x.waiting[e] \in Seq(Task)
    BY <2>1 DEF Kernels, Lists
  <2>3. i \in Nat
    BY <1>1
  <2>4. i < L => P(xTaskRemoveFromEventList(x, e), i + 1)
    BY <1>3, <2>3, PendsOneMore
  <2>5. x.waiting[e] = <<>> <=> Len(x.waiting[e]) = 0
    BY <2>2, SomeoneInList
  <2>6. QED
    BY <1>1, <2>1, <2>4, <2>5
<1> HIDE DEF P
<1>4. ASSUME NEW x \in S
      PROVE  F[x] \in S
  <2>1. PICK i \in 0 .. L : P(x, i)
    BY DEF P
  <2>2. CASE x.waiting[e] = <<>>
    BY <2>2
  <2>3. CASE x.waiting[e] # <<>>
    <3>1. i < L /\ i + 1 \in 0 .. L
      BY <1>1, <1>3, <2>1, <2>3
    <3>2. P(xTaskRemoveFromEventList(x, e), i + 1)
      BY <1>3, <2>1, <3>1
    <3>3. xTaskRemoveFromEventList(x, e) \in Kernels
      BY <1>3, <3>1, <3>2
    <3>4. xTaskRemoveFromEventList(x, e) \in S
      BY <3>1, <3>2, <3>3 DEF P
    <3>5. QED
      BY <2>3, <3>4
  <2>4. QED
    BY <2>2, <2>3
<1>5. StaysIn(F, S)
  <2>1. F \in [S -> S]
    <3> HIDE DEF S
    <3>1. F = [x \in S |-> F[x]]
      OBVIOUS
    <3> HIDE DEF F
    <3>2. QED
      BY <1>4, <3>1
  <2>2. QED
    BY <2>1 DEF StaysIn
<1> HIDE DEF m
<1>6. woken = [i \in 0 .. m |-> IF i = 0 THEN k ELSE xTaskRemoveFromEventList(woken[i - 1], e)]
  <2> HIDE DEF F, S, L
  <2>1. PICK g : IsLoop(g, F, S, k, m)
    BY <1>1, <1>2, <1>5, Iterates
  <2>2. g \in [0 .. m -> S] /\ g[0] = k /\ \A i \in 1 .. m : g[i] = F[g[i - 1]]
    BY <2>1 DEF IsLoop
  <2> DEFINE T == {i \in Nat : i <= m => P(g[i], i)}
             G(i) == g[i] = xTaskRemoveFromEventList(g[i - 1], e)
  <2>3. ASSUME NEW i \in Nat, i + 1 <= m, P(g[i], i)
        PROVE  P(g[i + 1], i + 1) /\ G(i + 1)
    <3>1. /\ i + 1 \in 1 .. m /\ (i + 1) - 1 = i /\ i \in 0 .. m /\ i < L /\ i \in 0 .. L
      BY <1>1, <2>3
    <3>2. g[i] \in S /\ g[i + 1] = F[g[i]]
      BY <2>2, <3>1
    <3>3. g[i].waiting[e] # <<>>
      BY <1>3, <2>3, <3>1
    <3>4. g[i + 1] = xTaskRemoveFromEventList(g[i], e)
      BY <3>2, <3>3 DEF F
    <3>5. P(xTaskRemoveFromEventList(g[i], e), i + 1)
      BY <1>3, <2>3, <3>1
    <3>6. QED
      BY <3>1, <3>4, <3>5
  <2>4. Nat \subseteq T
    <3>1. 0 \in T
      BY <1>2, <2>2
    <3>2. ASSUME NEW i \in Nat, i \in T PROVE i + 1 \in T
      BY <1>1, <2>3, <3>2
    <3> HIDE DEF T
    <3>3. QED
      BY <3>1, <3>2, Induction
  <2>5. ASSUME NEW i \in 0 .. m
        PROVE  g[i] = IF i = 0 THEN k ELSE xTaskRemoveFromEventList(g[i - 1], e)
    <3>1. CASE i # 0
      <4>1. i - 1 \in Nat /\ (i - 1) + 1 = i /\ i <= m /\ i - 1 <= m
        BY <1>1, <3>1
      <4>2. P(g[i - 1], i - 1)
        BY <2>4, <4>1
      <4>3. G((i - 1) + 1)
        <5> HIDE DEF G
        <5>1. QED
          BY <2>3, <4>1, <4>2
      <4>4. QED
        BY <3>1, <4>1, <4>3
    <3>2. QED
      BY <2>2, <3>1
  <2>6. g = [i \in 0 .. m |-> IF i = 0 THEN k ELSE xTaskRemoveFromEventList(g[i - 1], e)]
    BY <2>2, <2>5
  <2> DEFINE OK(w) == w = [i \in 0 .. m |-> IF i = 0 THEN k ELSE xTaskRemoveFromEventList(w[i - 1], e)]
  <2>7. \E w : OK(w)
    BY <2>6
  <2>8. OK(CHOOSE w : OK(w))
    BY <2>7, Zenon
  <2>9. QED
    BY <2>8, Zenon
<1> HIDE DEF woken
<1>7. P(woken[m], m)
  <2> DEFINE T == {i \in Nat : i <= m => P(woken[i], i)}
  <2> HIDE DEF L
  <2>1. 0 \in T
    <3>1. woken[0] = k
      BY <1>1, <1>6
    <3>2. QED
      BY <1>2, <3>1
  <2>2. ASSUME NEW i \in Nat, i \in T PROVE i + 1 \in T
    <3>1. SUFFICES ASSUME i + 1 <= m PROVE P(woken[i + 1], i + 1)
      OBVIOUS
    <3>2. i \in 0 .. L /\ i < L /\ i + 1 \in 0 .. m /\ i + 1 # 0 /\ (i + 1) - 1 = i /\ i <= m
      BY <1>1, <3>1
    <3>3. woken[i + 1] = xTaskRemoveFromEventList(woken[i], e)
      BY <1>6, <3>2
    <3>4. P(woken[i], i)
      BY <2>2, <3>2
    <3>5. QED
      BY <1>3, <3>2, <3>3, <3>4
  <2> HIDE DEF T
  <2>3. m \in T
    BY <1>1, <2>1, <2>2, Induction
  <2>4. QED
    BY <1>1, <2>3 DEF T
<1> DEFINE w  == woken[m]
           k1 == [w EXCEPT !.missedYield = @ \/ Z]
<1>8. WakeUpTo(n, e) = k1
  BY Zenon DEF WakeUpTo, woken, m
<1>9. /\ Good(w, H) /\ Times(w, H) /\ Frees(k, H, w, H)
      /\ Fixed(k, w) /\ w.wake = k.wake /\ w.current = k.current
      /\ \A f \in EventList \ {e}, t \in Task :
           Contains(w.waiting[f], t) <=> Contains(k.waiting[f], t)
      /\ IsFiniteSet(Gone(k, w, e)) /\ Cardinality(Gone(k, w, e)) = m
  BY <1>7 DEF P, PendsMany
<1>10. n <= m \/ w.waiting[e] = <<>>
  <2>1. n <= m \/ m = L
    BY <1>1 DEF m
  <2> HIDE DEF L
  <2>2. QED
    BY <1>1, <1>3, <1>7, <2>1
<1> HIDE DEF w
<1>11. w \in Kernels /\ Apart(k, H) /\ Good(k, H)
  BY <1>9 DEF Good
<1> DEFINE y == w.missedYield \/ Z
<1>12. y \in BOOLEAN /\ w.missed \in Nat /\ k1 = [w EXCEPT !.missed = w.missed, !.missedYield = y]
  BY <1>11 DEF Kernels
<1> HIDE DEF Z, y, k1
<1>13. Good(k1, H) /\ Times(k1, H) /\ HasMissed(w, k1, w.missed, y)
  BY <1>9, <1>12, SetMissed
<1>14. k1.waiting = w.waiting /\ k1.overflows = w.overflows
  BY <1>11, <1>12, OtherFieldsKept
<1>15. Frees(w, H, k1, H)
  <2>1. Apart(w, H)
    BY <1>9, <1>11, ApartStill
  <2>2. k1.pending = w.pending
    BY <1>13 DEF HasMissed
  <2>3. QED
    BY <1>9, <1>14, <2>1, <2>2, FreesNobody
<1>16. Frees(k, H, k1, H)
  BY <1>9, <1>11, <1>13, <1>15, FreesOn
<1>17. Fixed(k, k1) /\ k1.wake = k.wake /\ k1.current = k.current
  BY <1>9, <1>13, <1>14 DEF Fixed, HasMissed
<1>18. Gone(k, k1, e) = Gone(k, w, e)
  BY <1>14 DEF Gone
<1>19. QED
  BY <1>1, <1>8, <1>9, <1>10, <1>13, <1>14, <1>16, <1>17, <1>18

\* vTaskPriorityInherit lends h the priority of the current task, if that is higher.
LEMMA Inherited ==
  ASSUME NEW K, NEW H, Good(K, H), Times(K, H), K.current \in Task, NEW h \in Task,
         K.item = K.prio
  PROVE  LET k1 == vTaskPriorityInherit(K, h) IN
    /\ Good(k1, H) /\ Times(k1, H)
    /\ Lends(K, k1, h, MaxOf(K.prio[h], K.prio[K.current]))
    /\ \A u \in Task : H[u] \in Asleep => k1.wake[u] = K.wake[u]
<1> DEFINE c  == K.prio[K.current]
           k0 == Lent(K, h, c)
           k1 == vTaskPriorityInherit(K, h)
           k2 == prvAddTaskToReadyQueue(RemoveGenericItem(k0, h), h)
           p  == MaxOf(K.prio[h], c)
<1>1. K \in Kernels /\ K.prio[h] \in Nat /\ c \in Nat /\ c \in Prio /\ K.prio[h] \in Prio
  BY Numbers DEF Good, Kernels
<1>2. k1 = IF K.prio[h] >= c THEN K ELSE IF IsReady(K, h, K.prio[h]) THEN k2 ELSE k0
  BY DEF vTaskPriorityInherit, Lent
<1>3. CASE K.prio[h] >= c
  <2>1. k1 = K /\ p = K.prio[h]
    BY <1>1, <1>2, <1>3 DEF MaxOf
  <2>2. [K.prio EXCEPT ![h] = K.prio[h]] = K.prio
    BY <1>1 DEF Kernels
  <2>3. Lends(K, K, h, K.prio[h])
    BY <2>2 DEF Lends
  <2> HIDE DEF k1, p
  <2>4. QED
    BY <2>1, <2>3 DEF k1, p
<1>4. CASE ~(K.prio[h] >= c)
  <2>1. p = c
    BY <1>1, <1>4 DEF MaxOf
  <2>2. IsReady(K, h, K.prio[h]) <=> H[h] = "ready"
    BY <1>1 DEF Good, HasPlace, IsReady
  <2>3. CASE H[h] = "ready"
    <3> DEFINE k3 == prvAddTaskToReadyQueue(Lent(RemoveGenericItem(K, h), h, c), h)
    <3>1. /\ Good(k3, H) /\ Times(k3, H) /\ Lends(K, k3, h, c)
          /\ \A u \in Task \ {h} : k3.wake[u] = K.wake[u]
      BY <1>1, <2>3, LentWhileReady
    <3>2. RemoveGenericItem(k0, h) = Lent(RemoveGenericItem(K, h), h, c)
      BY <1>1, LendingRemoves
    <3>3. k1 = k3
      BY <1>2, <1>4, <2>2, <2>3, <3>2
    <3>4. \A u \in Task : H[u] \in Asleep => u # h
      BY <2>3 DEF Asleep
    <3> HIDE DEF k1, k3, p, c
    <3>5. QED
      BY <2>1, <3>1, <3>3, <3>4 DEF k1, p, c
  <2>4. CASE H[h] # "ready"
    <3>1. Good(k0, H) /\ Times(k0, H) /\ Lends(K, k0, h, c) /\ k0.wake = K.wake
      BY <1>1, <2>4, LentWhileAway
    <3>2. k1 = k0
      BY <1>2, <1>4, <2>2, <2>4
    <3> HIDE DEF k1, k0, p, c
    <3>3. QED
      BY <2>1, <3>1, <3>2 DEF k1, p, c
  <2>5. QED
    BY <2>3, <2>4
<1>5. QED
  BY <1>3, <1>4

\* vTaskPriorityDisinherit takes back what h was lent.
LEMMA Disinherited ==
  ASSUME NEW K, NEW H, Good(K, H), Times(K, H), NEW h \in Task, H[h] = "ready", K.item = K.prio
  PROVE  LET k1 == vTaskPriorityDisinherit(K, h) IN
    /\ Good(k1, H) /\ Times(k1, H) /\ Lends(K, k1, h, K.base[h])
    /\ \A u \in Task : H[u] \in Asleep => k1.wake[u] = K.wake[u]
<1> DEFINE p  == K.base[h]
           k1 == vTaskPriorityDisinherit(K, h)
           ka == RemoveGenericItem(K, h)
           k3 == prvAddTaskToReadyQueue(Lent(ka, h, p), h)
<1>1. K \in Kernels /\ p \in Prio /\ h # None
  BY KernelAssumption DEF Good, Kernels
<1>2. CASE K.prio[h] = p
  <2>1. k1 = K
    BY <1>2 DEF vTaskPriorityDisinherit
  <2>2. [K.prio EXCEPT ![h] = p] = K.prio
    BY <1>1, <1>2 DEF Kernels
  <2>3. Lends(K, K, h, p)
    BY <2>2 DEF Lends
  <2> HIDE DEF k1, p
  <2>4. QED
    BY <2>1, <2>3 DEF k1, p
<1>3. CASE K.prio[h] # p
  <2>1. ka \in Kernels
    BY <1>1, RemoveGenericItemFields
  <2>2. Lent(ka, h, p) = [ka EXCEPT !.prio[h] = p, !.item[h] = p]
    <3> HIDE DEF ka, p
    <3>1. QED
      BY <2>1 DEF Lent, Kernels
  <2>3. k1 = k3
    BY <1>1, <1>3, <2>2 DEF vTaskPriorityDisinherit
  <2>4. /\ Good(k3, H) /\ Times(k3, H) /\ Lends(K, k3, h, p)
        /\ \A u \in Task \ {h} : k3.wake[u] = K.wake[u]
    BY <1>1, LentWhileReady
  <2>5. \A u \in Task : H[u] \in Asleep => u # h
    BY DEF Asleep
  <2> HIDE DEF k1, k3, p
  <2>6. QED
    BY <2>3, <2>4, <2>5 DEF k1, p
<1>4. QED
  BY <1>2, <1>3

\* A yield that was missed is noted.
LEMMA SetMissedYield ==
  ASSUME NEW K, NEW H, Good(K, H), Apart(K, H), NEW y \in BOOLEAN
  PROVE  LET k1 == [K EXCEPT !.missedYield = y] IN
         /\ Good(k1, H) /\ (Times(K, H) => Times(k1, H)) /\ Frees(K, H, k1, H) /\ Fixed(K, k1)
         /\ k1.wake = K.wake /\ k1.current = K.current /\ k1.waiting = K.waiting
<1> DEFINE k1 == [K EXCEPT !.missedYield = y]
<1>1. K \in Kernels /\ K.missed \in Nat /\ k1 = [K EXCEPT !.missed = K.missed, !.missedYield = y]
  BY DEF Good, Kernels
<1> HIDE DEF k1
<1>2. Good(k1, H) /\ (Times(K, H) => Times(k1, H)) /\ HasMissed(K, k1, K.missed, y)
  BY <1>1, SetMissed
<1>3. k1.waiting = K.waiting /\ k1.overflows = K.overflows
  BY <1>1, OtherFieldsKept
<1>4. k1.pending = K.pending
  BY <1>2 DEF HasMissed
<1>5. Frees(K, H, k1, H)
  BY <1>3, <1>4, FreesNobody
<1>6. Fixed(K, k1) /\ k1.wake = K.wake /\ k1.current = K.current
  BY <1>2, <1>3 DEF Fixed, HasMissed
<1>7. QED
  BY <1>2, <1>3, <1>5, <1>6 DEF k1

\* While the scheduler is suspended a critical section makes the first task on e pending.
LEMMA PendsFirst ==
  ASSUME NEW K, NEW H, Good(K, H), Times(K, H), Apart(K, H), K.locks = 1,
         NEW e \in EventList, K.waiting[e] # <<>>
  PROVE  LET k1 == WakeOne(K, e)
             t  == Head(K.waiting[e]) IN
         /\ t \in Task /\ Contains(K.waiting[e], t)
         /\ Good(k1, H) /\ Times(k1, H) /\ Frees(K, H, k1, H)
         /\ Fixed(K, k1) /\ k1.wake = K.wake /\ k1.current = K.current
         /\ \A f \in EventList, u \in Task :
              Contains(k1.waiting[f], u) <=> Contains(K.waiting[f], u) /\ u # t
<1> DEFINE t  == Head(K.waiting[e])
           k0 == xTaskRemoveFromEventList(K, e)
           k1 == WakeOne(K, e)
           k2 == vTaskSwitchContext(k0)
<1>1. /\ t \in Task /\ Contains(K.waiting[e], t)
      /\ Good(k0, H) /\ Times(k0, H) /\ Frees(K, H, k0, H)
      /\ Fixed(K, k0) /\ k0.wake = K.wake /\ k0.current = K.current
      /\ \A f \in EventList, u \in Task :
           Contains(k0.waiting[f], u) <=> Contains(K.waiting[f], u) /\ u # t
  BY PendsOne
<1>2. k1 = IF HeadOutranks(K, e) THEN k2 ELSE k0
  BY DEF WakeOne
<1> HIDE DEF t, k0
<1>3. k2 = [k0 EXCEPT !.missedYield = TRUE]
  BY <1>1 DEF Fixed, vTaskSwitchContext
<1> HIDE DEF k1, k2
<1>4. Apart(k0, H)
  BY <1>1, ApartStill
<1>5. /\ Good(k2, H) /\ Times(k2, H) /\ Frees(k0, H, k2, H) /\ Fixed(k0, k2)
      /\ k2.wake = k0.wake /\ k2.current = k0.current /\ k2.waiting = k0.waiting
  BY <1>1, <1>3, <1>4, SetMissedYield
<1>6. Frees(K, H, k2, H)
  BY <1>1, <1>5, FreesOn
<1>7. Fixed(K, k2)
  BY <1>1, <1>5 DEF Fixed
<1>8. QED
  BY <1>1, <1>2, <1>5, <1>6, <1>7 DEF k1, t

\* What a critical section that wakes the first task on e does to K.
Wakened(K, H, k1, H1, e) ==
  /\ Good(k1, H1) /\ Times(k1, H1) /\ Frees(K, H, k1, H1)
  /\ SleepsOn(K, H, k1, H1, 0) /\ Fixed(K, k1)
  /\ k1.current \in Task /\ (k1.current = K.current \/ H1[k1.current] = "ready")
  /\ K.locks = 0 => k1.missedYield = K.missedYield /\ k1.pending = <<>>
  /\ K.locks = 1 => k1.current = K.current
  /\ IF K.waiting[e] = <<>> THEN k1 = K /\ H1 = H
     ELSE \E t \in Task :
       /\ Contains(K.waiting[e], t) /\ t = Head(K.waiting[e])
       /\ \A f \in EventList, u \in Task :
            Contains(k1.waiting[f], u) <=> Contains(K.waiting[f], u) /\ u # t
       /\ K.locks = 0 => H1[t] = "ready" /\ k1.prio[k1.current] >= k1.prio[t]

\* WakeOne, with the scheduler suspended or not, and with nobody waiting.
LEMMA WokeAny ==
  ASSUME NEW K, NEW H, Good(K, H), Times(K, H), Apart(K, H), K.locks = 0 => K.pending = <<>>,
         K.current \in Task, NEW e \in EventList
  PROVE  \E H1 \in [Task -> Places] : Wakened(K, H, WakeOne(K, e), H1, e)
<1> DEFINE k1 == WakeOne(K, e)
           t  == Head(K.waiting[e])
<1>1. K \in Kernels /\ H \in [Task -> Places] /\ K.locks \in {0, 1}
  BY DEF Good, Kernels
<1>2. \A u \in Task : Rest(K, H, u) \in Int
  BY RestFacts, Numbers
<1>3. CASE K.waiting[e] = <<>>
  <2>1. k1 = K
    BY <1>3 DEF WakeOne
  <2>2. Frees(K, H, K, H) /\ SleepsOn(K, H, K, H, 0)
    BY <1>2, FreesNobody, SleepsAlike
  <2>3. Wakened(K, H, K, H, e)
    BY <1>3, <2>2 DEF Wakened, Fixed
  <2>4. QED
    BY <1>1, <2>1, <2>3
<1>4. CASE K.waiting[e] # <<>> /\ K.locks = 1
  <2>1. /\ t \in Task /\ Contains(K.waiting[e], t)
        /\ Good(k1, H) /\ Times(k1, H) /\ Frees(K, H, k1, H)
        /\ Fixed(K, k1) /\ k1.wake = K.wake /\ k1.current = K.current
        /\ \A f \in EventList, u \in Task :
             Contains(k1.waiting[f], u) <=> Contains(K.waiting[f], u) /\ u # t
    BY <1>4, PendsFirst
  <2> HIDE DEF k1, t
  <2>2. SleepsOn(K, H, k1, H, 0)
    BY <1>2, <2>1, SleepsAlike DEF Fixed
  <2>3. Wakened(K, H, k1, H, e)
    BY <1>4, <2>1, <2>2 DEF Wakened, t
  <2>4. QED
    BY <1>1, <2>3 DEF k1
<1>5. CASE K.waiting[e] # <<>> /\ K.locks = 0
  <2> DEFINE H1 == [H EXCEPT ![t] = "ready"]
  <2>1. /\ t \in Task /\ Contains(K.waiting[e], t)
        /\ Good(k1, H1) /\ Times(k1, H1) /\ Frees(K, H, k1, H1)
        /\ SleepsOn(K, H, k1, H1, 0) /\ Fixed(K, k1)
        /\ k1.missedYield = K.missedYield /\ k1.pending = <<>>
        /\ k1.current \in Task /\ k1.prio[k1.current] >= k1.prio[t]
        /\ k1.current = K.current \/ H1[k1.current] = "ready"
        /\ \A f \in EventList, u \in Task :
             Contains(k1.waiting[f], u) <=> Contains(K.waiting[f], u) /\ u # t
    BY <1>5, WokeOne
  <2>2. H1[t] = "ready" /\ H1 \in [Task -> Places]
    BY <1>1, <2>1 DEF Places
  <2> HIDE DEF k1, t, H1
  <2>3. Wakened(K, H, k1, H1, e)
    BY <1>5, <2>1, <2>2 DEF Wakened, t
  <2>4. QED
    BY <2>2, <2>3 DEF k1
<1>6. QED
  BY <1>1, <1>3, <1>4, <1>5

-----------------------------------------------------------------------------
(* The ring                                                                  *)

\* The kinds of queue, and the records they are.
Kinds == {"queue", "semaphore", "mutex", "recursive"}

Queues ==
  [kind : Kinds, items : [Index -> Item \cup {None}], write : Index, read : Index,
   count : 0 .. Length, length : {1, Length}, rxLock : Int, txLock : Int,
   holder : Task \cup {None}, depth : Int]

\* The ring of c items that begins after position r and ends before w.
IsRing(r, c, w) == w = Wrapped(Wrapped(r + 1, Length) + c, Length)

\* The slots from the one after pcReadFrom to the one before pcWriteTo hold items.
Ring(r) ==
  r.kind = "queue" => IsRing(r.read, r.count, r.write)

\* A queue without items counts at most as many as it may.
QueueTypes ==
  /\ q \in Queues /\ q.count <= q.length /\ Ring(q)
  /\ q.kind \notin Mutexes => q.length = Length
  /\ \A t \in Task : call[t].item \in Item \cup {None}

\* The contents of a queue r.
Held(r) ==
  [i \in 1 .. r.count |->
     IF r.kind = "queue" THEN r.items[Wrapped(r.read + i, Length)] ELSE None]

\* Positions in the ring are of its slots, and two of them differ.
LEMMA Slots ==
  ASSUME NEW r \in Index, NEW n \in 1 .. Length
  PROVE  /\ Length \in Nat \ {0}
         /\ Wrapped(r + n, Length) \in Index
         /\ Wrapped(r + n, Length) = IF r + n < Length THEN r + n ELSE r + n - Length
<1>1. Length \in Nat \ {0}
  BY QueuesAssumption
<1>2. QED
  BY <1>1, OneTurn DEF Index

\* What the ring holds, slot by slot.
LEMMA HeldFacts ==
  ASSUME NEW r \in Queues
  PROVE  /\ Held(r) \in Seq(Item \cup {None}) /\ Len(Held(r)) = r.count
         /\ \A i \in 1 .. r.count : Held(r)[i] =
              IF r.kind = "queue" THEN r.items[Wrapped(r.read + i, Length)] ELSE None
<1>1. /\ r.count \in 0 .. Length /\ r.read \in Index /\ Length \in Nat \ {0}
      /\ r.items \in [Index -> Item \cup {None}]
  BY QueuesAssumption DEF Queues
<1>2. \A i \in 1 .. r.count : Wrapped(r.read + i, Length) \in Index
  BY <1>1, Slots
<1>3. \A i \in 1 .. r.count :
        (IF r.kind = "queue" THEN r.items[Wrapped(r.read + i, Length)] ELSE None)
          \in Item \cup {None}
  BY <1>1, <1>2
<1>4. r.count \in Nat
  BY <1>1
<1>5. QED
  BY <1>3, <1>4 DEF Held

\* The positions after some others, in terms of sums.
LEMMA SlotAfter ==
  ASSUME NEW r \in Index, NEW n \in 0 .. Length
  PROVE  /\ Wrapped(r + 1, Length) \in Index
         /\ Wrapped(r + 1, Length) = IF r + 1 < Length THEN r + 1 ELSE 0
         /\ Wrapped(Wrapped(r + 1, Length) + n, Length) \in Index
         /\ Wrapped(Wrapped(r + 1, Length) + n, Length)
              = IF r + 1 + n < Length THEN r + 1 + n
                ELSE IF r + 1 + n < 2 * Length THEN r + 1 + n - Length
                ELSE 0
<1> DEFINE w == Wrapped(r + 1, Length)
<1>1. Length \in Nat \ {0} /\ r \in 0 .. Length - 1
  BY QueuesAssumption DEF Index
<1>2. w \in Index /\ w = IF r + 1 < Length THEN r + 1 ELSE 0
  BY <1>1, OneTurn DEF Index
<1> HIDE DEF w
<1>3. Wrapped(w + n, Length) = IF w + n < Length THEN w + n ELSE w + n - Length
  BY <1>1, <1>2, OneTurn DEF Index
<1>4. /\ Wrapped(w + n, Length) \in Index
      /\ Wrapped(w + n, Length) = IF r + 1 + n < Length THEN r + 1 + n
                                  ELSE IF r + 1 + n < 2 * Length THEN r + 1 + n - Length
                                  ELSE 0
  BY <1>1, <1>2, <1>3 DEF Index
<1>5. QED
  BY <1>2, <1>4 DEF w

\* The position before.
LEMMA SlotBefore ==
  ASSUME NEW r \in Index
  PROVE  /\ Wrapped(r - 1, Length) \in Index
         /\ Wrapped(r - 1, Length) = IF r = 0 THEN Length - 1 ELSE r - 1
<1>1. Length \in Nat \ {0} /\ r \in 0 .. Length - 1
  BY QueuesAssumption DEF Index
<1>2. Wrapped(r - 1, Length) = IF r - 1 < 0 THEN r - 1 + Length ELSE r - 1
  BY <1>1, OneTurn
<1>3. QED
  BY <1>1, <1>2 DEF Index

\* An item is added at the back,
LEMMA RingBack ==
  ASSUME NEW r \in Index, NEW c \in 0 .. Length - 1, NEW w, IsRing(r, c, w)
  PROVE  /\ IsRing(r, c + 1, Wrapped(w + 1, Length)) /\ Wrapped(w + 1, Length) \in Index
         /\ Wrapped(r + (c + 1), Length) = w
         /\ \A i \in 1 .. c : /\ Wrapped(r + i, Length) # w
                              /\ Wrapped(r + i, Length) \in Index
<1>1. Length \in Nat \ {0} /\ r \in 0 .. Length - 1 /\ c + 1 \in 1 .. Length
      /\ c \in 0 .. Length /\ c + 1 \in 0 .. Length
  BY QueuesAssumption DEF Index
<1>2. /\ w \in Index
      /\ w = IF r + 1 + c < Length THEN r + 1 + c ELSE r + 1 + c - Length
  BY <1>1, SlotAfter DEF IsRing
<1>3. /\ Wrapped(w + 1, Length) \in Index
      /\ Wrapped(w + 1, Length) = IF w + 1 < Length THEN w + 1 ELSE 0
  BY <1>1, <1>2, SlotAfter
<1>4. IsRing(r, c + 1, Wrapped(w + 1, Length))
  <2> DEFINE x == Wrapped(Wrapped(r + 1, Length) + (c + 1), Length)
  <2>1. x = IF r + 1 + (c + 1) < Length THEN r + 1 + (c + 1)
            ELSE IF r + 1 + (c + 1) < 2 * Length THEN r + 1 + (c + 1) - Length ELSE 0
    BY <1>1, SlotAfter
  <2> HIDE DEF x
  <2>2. Wrapped(w + 1, Length) = x
    BY <1>1, <1>2, <1>3, <2>1
  <2>3. QED
    BY <2>2 DEF IsRing, x
<1>5. \A i \in 1 .. Length :
        /\ Wrapped(r + i, Length) \in Index
        /\ Wrapped(r + i, Length) = IF r + i < Length THEN r + i ELSE r + i - Length
  BY Slots
<1>6. Wrapped(r + (c + 1), Length) = w
  BY <1>1, <1>2, <1>5
<1>7. ASSUME NEW i \in 1 .. c
      PROVE  Wrapped(r + i, Length) # w /\ Wrapped(r + i, Length) \in Index
  <2>1. i \in 1 .. Length
    BY <1>1
  <2>2. QED
    BY <1>1, <1>2, <1>5, <2>1
<1>8. QED
  BY <1>3, <1>4, <1>6, <1>7

\* or at the front,
LEMMA RingFront ==
  ASSUME NEW r \in Index, NEW c \in 0 .. Length - 1, NEW w, IsRing(r, c, w)
  PROVE  LET x == Wrapped(r - 1, Length) IN
         /\ IsRing(x, c + 1, w) /\ x \in Index
         /\ Wrapped(x + 1, Length) = r
         /\ \A i \in 1 .. c : /\ Wrapped(r + i, Length) # r
                              /\ Wrapped(r + i, Length) \in Index
                              /\ Wrapped(x + (i + 1), Length) = Wrapped(r + i, Length)
<1> DEFINE x == Wrapped(r - 1, Length)
<1>1. Length \in Nat \ {0} /\ r \in 0 .. Length - 1 /\ Index = 0 .. Length - 1
      /\ c \in 0 .. Length /\ c + 1 \in 0 .. Length
  BY QueuesAssumption DEF Index
<1>2. /\ w \in Index
      /\ w = IF r + 1 + c < Length THEN r + 1 + c ELSE r + 1 + c - Length
  BY <1>1, SlotAfter DEF IsRing
<1>3. x \in Index /\ x = IF r = 0 THEN Length - 1 ELSE r - 1
  BY SlotBefore
<1> HIDE DEF x
<1>4. Wrapped(x + 1, Length) = r
  <2>1. Wrapped(x + 1, Length) = IF x + 1 < Length THEN x + 1 ELSE 0
    BY <1>1, <1>3, SlotAfter
  <2>2. QED
    BY <1>1, <1>3, <2>1
<1>5. IsRing(x, c + 1, w)
  <2> DEFINE y == Wrapped(Wrapped(x + 1, Length) + (c + 1), Length)
  <2>1. y = IF x + 1 + (c + 1) < Length THEN x + 1 + (c + 1)
            ELSE IF x + 1 + (c + 1) < 2 * Length THEN x + 1 + (c + 1) - Length ELSE 0
    BY <1>1, <1>3, SlotAfter
  <2> HIDE DEF y
  <2>2. w = y
    BY <1>1, <1>2, <1>3, <2>1
  <2>3. QED
    BY <2>2 DEF IsRing, y
<1>6. ASSUME NEW i \in 1 .. c
      PROVE  /\ Wrapped(r + i, Length) # r /\ Wrapped(r + i, Length) \in Index
             /\ Wrapped(x + (i + 1), Length) = Wrapped(r + i, Length)
  <2>1. i \in 1 .. Length /\ i + 1 \in 1 .. Length /\ i < Length
    BY <1>1
  <2>2. /\ Wrapped(r + i, Length) \in Index
        /\ Wrapped(r + i, Length) = IF r + i < Length THEN r + i ELSE r + i - Length
    BY <2>1, Slots
  <2>3. Wrapped(x + (i + 1), Length)
          = IF x + (i + 1) < Length THEN x + (i + 1) ELSE x + (i + 1) - Length
    BY <1>3, <2>1, Slots
  <2>4. QED
    BY <1>1, <1>3, <2>1, <2>2, <2>3
<1>7. QED
  BY <1>3, <1>4, <1>5, <1>6 DEF x

\* or the first one is removed.
LEMMA RingRemove ==
  ASSUME NEW r \in Index, NEW c \in 1 .. Length, NEW w, IsRing(r, c, w)
  PROVE  LET x == Wrapped(r + 1, Length) IN
         /\ IsRing(x, c - 1, w) /\ x \in Index
         /\ \A i \in 1 .. c - 1 : /\ Wrapped(r + (i + 1), Length) # x
                                  /\ Wrapped(r + (i + 1), Length) \in Index
                                  /\ Wrapped(x + i, Length) = Wrapped(r + (i + 1), Length)
<1> DEFINE x == Wrapped(r + 1, Length)
<1>1. Length \in Nat \ {0} /\ r \in 0 .. Length - 1 /\ Index = 0 .. Length - 1
      /\ c \in 0 .. Length /\ c - 1 \in 0 .. Length
  BY QueuesAssumption DEF Index
<1>2. w = IF r + 1 + c < Length THEN r + 1 + c
          ELSE IF r + 1 + c < 2 * Length THEN r + 1 + c - Length ELSE 0
  BY <1>1, SlotAfter DEF IsRing
<1>3. x \in Index /\ x = IF r + 1 < Length THEN r + 1 ELSE 0
  BY <1>1, SlotAfter
<1> HIDE DEF x
<1>4. IsRing(x, c - 1, w)
  <2> DEFINE y == Wrapped(Wrapped(x + 1, Length) + (c - 1), Length)
  <2>1. y = IF x + 1 + (c - 1) < Length THEN x + 1 + (c - 1)
            ELSE IF x + 1 + (c - 1) < 2 * Length THEN x + 1 + (c - 1) - Length ELSE 0
    BY <1>1, <1>3, SlotAfter
  <2> HIDE DEF y
  <2>2. w = y
    BY <1>1, <1>2, <1>3, <2>1
  <2>3. QED
    BY <2>2 DEF IsRing, y
<1>5. ASSUME NEW i \in 1 .. c - 1
      PROVE  /\ Wrapped(r + (i + 1), Length) # x /\ Wrapped(r + (i + 1), Length) \in Index
             /\ Wrapped(x + i, Length) = Wrapped(r + (i + 1), Length)
  <2>1. i \in 1 .. Length /\ i + 1 \in 1 .. Length /\ i < Length
    BY <1>1
  <2>2. /\ Wrapped(r + (i + 1), Length) \in Index
        /\ Wrapped(r + (i + 1), Length)
             = IF r + (i + 1) < Length THEN r + (i + 1) ELSE r + (i + 1) - Length
    BY <2>1, Slots
  <2>3. Wrapped(x + i, Length) = IF x + i < Length THEN x + i ELSE x + i - Length
    BY <1>3, <2>1, Slots
  <2>4. QED
    BY <1>1, <1>3, <2>1, <2>2, <2>3
<1>6. QED
  BY <1>3, <1>4, <1>5 DEF x

\* What is used of the types of a queue.
LEMMA QueueNumbers ==
  ASSUME QueueTypes
  PROVE  /\ Length \in Nat \ {0} /\ Index = 0 .. Length - 1
         /\ q \in Queues /\ q.count \in 0 .. Length /\ q.length \in {1, Length}
         /\ q.count <= q.length /\ q.write \in Index /\ q.read \in Index
         /\ q.items \in [Index -> Item \cup {None}]
         /\ q.kind = "queue" => q.length = Length /\ IsRing(q.read, q.count, q.write)
BY QueuesAssumption DEF QueueTypes, Queues, Ring, Index, Mutexes

\* A queue that does not keep items counts one more.
LEMMA CountedHeld ==
  ASSUME QueueTypes, q.count < q.length, q.kind # "queue"
  PROVE  LET r == [q EXCEPT !.count = @ + 1, !.holder = None] IN
    /\ r \in Queues /\ r.count <= r.length /\ Ring(r)
    /\ r.kind = q.kind /\ r.length = q.length /\ r.txLock = q.txLock /\ r.rxLock = q.rxLock
    /\ Held(r) = Append(Held(q), None)
<1> DEFINE r == [q EXCEPT !.count = @ + 1, !.holder = None]
           h == Held(q)
           a == Append(h, None)
<1>1. /\ q \in Queues /\ q.count \in 0 .. Length /\ q.length \in {1, Length}
      /\ q.count < q.length /\ Length \in Nat \ {0}
      /\ q.count + 1 \in 0 .. Length /\ q.count + 1 <= q.length
  BY QueueNumbers
<1>2. /\ h \in Seq(Item \cup {None}) /\ Len(h) = q.count
      /\ \A i \in 1 .. q.count : h[i] = None
  BY <1>1, HeldFacts
<1>3. /\ r \in Queues /\ r.count = q.count + 1 /\ r.kind = q.kind /\ r.length = q.length
      /\ r.txLock = q.txLock /\ r.rxLock = q.rxLock /\ r.count <= r.length
  BY <1>1 DEF Queues
<1>4. /\ Held(r) \in Seq(Item \cup {None}) /\ Len(Held(r)) = q.count + 1
      /\ \A i \in 1 .. q.count + 1 : Held(r)[i] = None
  BY <1>3, HeldFacts
<1> HIDE DEF r, h
<1>5. /\ a \in Seq(Item \cup {None}) /\ Len(a) = q.count + 1
      /\ \A i \in 1 .. q.count : a[i] = h[i]
      /\ a[q.count + 1] = None
  BY <1>2, AppendProperties
<1> HIDE DEF a
<1>6. \A i \in 1 .. q.count + 1 : a[i] = None
  <2>1. TAKE i \in 1 .. q.count + 1
  <2>2. i \in 1 .. q.count \/ i = q.count + 1
    BY <1>1
  <2>3. QED
    BY <1>2, <1>5, <2>2
<1>7. Held(r) = a
  BY <1>4, <1>5, <1>6, SeqEqual
<1>8. QED
  BY <1>3, <1>7 DEF Ring, r, h, a

\* An item that is copied to the back is the last.
LEMMA BackHeld ==
  ASSUME QueueTypes, q.count < q.length, q.kind = "queue", NEW x \in Item \cup {None}
  PROVE  LET r == Insert(x, FALSE) IN
    /\ r \in Queues /\ r.count <= r.length /\ Ring(r)
    /\ r.kind = q.kind /\ r.length = q.length /\ r.txLock = q.txLock /\ r.rxLock = q.rxLock
    /\ Held(r) = Append(Held(q), x)
<1> DEFINE r == Insert(x, FALSE)
           h == Held(q)
           a == Append(h, x)
           to == Wrapped(q.write + 1, Length)
<1>1. /\ q \in Queues /\ q.count \in 0 .. Length - 1 /\ q.length = Length
      /\ q.count + 1 \in 0 .. Length
      /\ q.write \in Index /\ q.read \in Index /\ q.items \in [Index -> Item \cup {None}]
      /\ IsRing(q.read, q.count, q.write)
  BY QueueNumbers
<1>2. /\ IsRing(q.read, q.count + 1, to) /\ to \in Index
      /\ Wrapped(q.read + (q.count + 1), Length) = q.write
      /\ \A i \in 1 .. q.count : /\ Wrapped(q.read + i, Length) # q.write
                                 /\ Wrapped(q.read + i, Length) \in Index
  BY <1>1, RingBack
<1>3. r = [q EXCEPT !.items[q.write] = x, !.write = to, !.count = @ + 1]
  BY DEF Insert, Wrapped
<1> HIDE DEF r, h, to
<1>4. /\ r \in Queues /\ r.items = [q.items EXCEPT ![q.write] = x] /\ r.write = to
      /\ r.read = q.read /\ r.count = q.count + 1 /\ r.kind = "queue" /\ r.length = q.length
      /\ r.txLock = q.txLock /\ r.rxLock = q.rxLock
  BY <1>1, <1>2, <1>3 DEF Queues
<1>5. Ring(r) /\ r.count <= r.length
  BY <1>1, <1>2, <1>4 DEF Ring
<1>6. /\ h \in Seq(Item \cup {None}) /\ Len(h) = q.count
      /\ \A i \in 1 .. q.count : h[i] = q.items[Wrapped(q.read + i, Length)]
  BY <1>1, HeldFacts DEF h
<1>7. /\ Held(r) \in Seq(Item \cup {None}) /\ Len(Held(r)) = q.count + 1
      /\ \A i \in 1 .. q.count + 1 : Held(r)[i] = r.items[Wrapped(q.read + i, Length)]
  BY <1>4, HeldFacts
<1>8. /\ a \in Seq(Item \cup {None}) /\ Len(a) = q.count + 1
      /\ \A i \in 1 .. q.count : a[i] = h[i]
      /\ a[q.count + 1] = x
  BY <1>6, AppendProperties
<1> HIDE DEF a
<1>9. \A i \in 1 .. q.count + 1 : Held(r)[i] = a[i]
  <2>1. TAKE i \in 1 .. q.count + 1
  <2>2. CASE i = q.count + 1
    BY <1>1, <1>2, <1>4, <1>7, <1>8, <2>2
  <2>3. CASE i # q.count + 1
    <3>1. i \in 1 .. q.count
      BY <1>1, <2>3
    <3>2. r.items[Wrapped(q.read + i, Length)] = q.items[Wrapped(q.read + i, Length)]
      BY <1>1, <1>2, <1>4, <3>1
    <3>3. QED
      BY <1>6, <1>7, <1>8, <3>1, <3>2
  <2>4. QED
    BY <2>2, <2>3
<1>10. Held(r) = a
  BY <1>7, <1>8, <1>9, SeqEqual
<1>11. QED
  BY <1>4, <1>5, <1>10 DEF r, h, a

\* An item that is copied to the front is the first.
LEMMA FrontHeld ==
  ASSUME QueueTypes, q.count < q.length, q.kind = "queue", NEW x \in Item \cup {None}
  PROVE  LET r == Insert(x, TRUE) IN
    /\ r \in Queues /\ r.count <= r.length /\ Ring(r)
    /\ r.kind = q.kind /\ r.length = q.length /\ r.txLock = q.txLock /\ r.rxLock = q.rxLock
    /\ Held(r) = <<x>> \o Held(q)
<1> DEFINE r == Insert(x, TRUE)
           h == Held(q)
           a == <<x>> \o h
           to == Wrapped(q.read - 1, Length)
<1>1. /\ q \in Queues /\ q.count \in 0 .. Length - 1 /\ q.length = Length
      /\ q.count + 1 \in 0 .. Length
      /\ q.write \in Index /\ q.read \in Index /\ q.items \in [Index -> Item \cup {None}]
      /\ IsRing(q.read, q.count, q.write)
  BY QueueNumbers
<1>2. /\ IsRing(to, q.count + 1, q.write) /\ to \in Index
      /\ Wrapped(to + 1, Length) = q.read
      /\ \A i \in 1 .. q.count :
           /\ Wrapped(q.read + i, Length) # q.read
           /\ Wrapped(q.read + i, Length) \in Index
           /\ Wrapped(to + (i + 1), Length) = Wrapped(q.read + i, Length)
  BY <1>1, RingFront
<1>3. r = [q EXCEPT !.items[q.read] = x, !.read = to, !.count = @ + 1]
  BY DEF Insert, Wrapped
<1> HIDE DEF r, h, to
<1>4. /\ r \in Queues /\ r.items = [q.items EXCEPT ![q.read] = x] /\ r.write = q.write
      /\ r.read = to /\ r.count = q.count + 1 /\ r.kind = "queue" /\ r.length = q.length
      /\ r.txLock = q.txLock /\ r.rxLock = q.rxLock
  BY <1>1, <1>2, <1>3 DEF Queues
<1>5. Ring(r) /\ r.count <= r.length
  BY <1>1, <1>2, <1>4 DEF Ring
<1>6. /\ h \in Seq(Item \cup {None}) /\ Len(h) = q.count
      /\ \A i \in 1 .. q.count : h[i] = q.items[Wrapped(q.read + i, Length)]
  BY <1>1, HeldFacts DEF h
<1>7. /\ Held(r) \in Seq(Item \cup {None}) /\ Len(Held(r)) = q.count + 1
      /\ \A i \in 1 .. q.count + 1 : Held(r)[i] = r.items[Wrapped(to + i, Length)]
  BY <1>4, HeldFacts
<1>8. /\ a \in Seq(Item \cup {None}) /\ Len(a) = q.count + 1
      /\ a[1] = x /\ \A i \in 2 .. q.count + 1 : a[i] = h[i - 1]
  BY <1>1, <1>6
<1> HIDE DEF a
<1>9. \A i \in 1 .. q.count + 1 : Held(r)[i] = a[i]
  <2>1. TAKE i \in 1 .. q.count + 1
  <2>2. CASE i = 1
    BY <1>1, <1>2, <1>4, <1>7, <1>8, <2>2
  <2>3. CASE i # 1
    <3>1. i - 1 \in 1 .. q.count /\ i \in 2 .. q.count + 1 /\ (i - 1) + 1 = i
      BY <1>1, <2>3
    <3>2. /\ Wrapped(q.read + (i - 1), Length) # q.read
          /\ Wrapped(q.read + (i - 1), Length) \in Index
          /\ Wrapped(to + i, Length) = Wrapped(q.read + (i - 1), Length)
      BY <1>2, <3>1
    <3>3. Held(r)[i] = q.items[Wrapped(q.read + (i - 1), Length)]
      BY <1>1, <1>4, <1>7, <3>2
    <3>4. QED
      BY <1>6, <1>8, <3>1, <3>3
  <2>4. QED
    BY <2>2, <2>3
<1>10. Held(r) = a
  BY <1>7, <1>8, <1>9, SeqEqual
<1>11. QED
  BY <1>4, <1>5, <1>10 DEF r, h, a

\* The item that is copied out was the first.
LEMMA RemovedHeld ==
  ASSUME QueueTypes, q.count > 0, NEW t \in Task \cup {None}
  PROVE  LET r == Remove1(t) IN
    /\ r \in Queues /\ r.count <= r.length /\ Ring(r)
    /\ r.kind = q.kind /\ r.length = q.length /\ r.txLock = q.txLock /\ r.rxLock = q.rxLock
    /\ Held(q) # <<>> /\ FirstItem = Head(Held(q)) /\ Held(r) = Tail(Held(q))
<1> DEFINE r == Remove1(t)
           h == Held(q)
           to == Wrapped(q.read + 1, Length)
<1>1. /\ q \in Queues /\ q.count \in 1 .. Length /\ q.length \in {1, Length}
      /\ Length \in Nat \ {0} /\ 1 \in 1 .. q.count
      /\ q.count - 1 \in 0 .. Length /\ q.count - 1 <= q.length
      /\ q.read \in Index /\ q.items \in [Index -> Item \cup {None}]
      /\ q.kind = "queue" => IsRing(q.read, q.count, q.write)
  BY QueueNumbers
<1>2. /\ to \in Index
      /\ \A i \in 1 .. q.count - 1 :
           q.kind = "queue" =>
             /\ Wrapped(q.read + (i + 1), Length) # to
             /\ Wrapped(q.read + (i + 1), Length) \in Index
             /\ Wrapped(to + i, Length) = Wrapped(q.read + (i + 1), Length)
      /\ q.kind = "queue" => IsRing(to, q.count - 1, q.write)
  <2>1. 0 \in 0 .. Length
    BY <1>1
  <2>2. to \in Index
    BY <1>1, <2>1, SlotAfter
  <2>3. QED
    BY <1>1, <2>2, RingRemove
<1>3. NextToRead = to
  BY DEF NextToRead, Wrapped
<1>4. r = [q EXCEPT !.read   = IF q.kind = "queue" THEN to ELSE @,
                    !.items  = IF q.kind = "queue" THEN [@ EXCEPT ![to] = None] ELSE @,
                    !.count  = @ - 1,
                    !.holder = IF IsMutex THEN t ELSE @]
  BY <1>3 DEF Remove1
<1>5. FirstItem = IF q.kind = "queue" THEN q.items[to] ELSE None
  BY <1>3 DEF FirstItem
<1> HIDE DEF r, h
<1>6. /\ h \in Seq(Item \cup {None}) /\ Len(h) = q.count
      /\ \A i \in 1 .. q.count : h[i] =
           IF q.kind = "queue" THEN q.items[Wrapped(q.read + i, Length)] ELSE None
  BY <1>1, HeldFacts DEF h
<1>7. /\ h # <<>> /\ Head(h) = h[1] /\ FirstItem = Head(h)
      /\ Tail(h) \in Seq(Item \cup {None}) /\ Len(Tail(h)) = q.count - 1
      /\ \A i \in 1 .. q.count - 1 : Tail(h)[i] = h[i + 1]
  <2>1. h # <<>>
    BY <1>1, <1>6
  <2>2. Head(h) = h[1]
    BY <1>6, <2>1
  <2>3. FirstItem = Head(h)
    BY <1>1, <1>5, <1>6, <2>2
  <2>4. QED
    BY <1>6, <2>1, <2>2, <2>3, HeadTailProperties
<1> HIDE DEF to
<1>8. /\ r \in Queues /\ r.write = q.write /\ r.count = q.count - 1 /\ r.kind = q.kind
      /\ r.length = q.length /\ r.txLock = q.txLock /\ r.rxLock = q.rxLock
      /\ q.kind = "queue" => r.read = to /\ r.items = [q.items EXCEPT ![to] = None]
  <2>1. CASE q.kind = "queue"
    BY <1>1, <1>2, <1>4, <2>1 DEF Queues
  <2>2. CASE q.kind # "queue"
    BY <1>1, <1>2, <1>4, <2>2 DEF Queues
  <2>3. QED
    BY <2>1, <2>2
<1>9. Ring(r) /\ r.count <= r.length
  BY <1>1, <1>2, <1>8 DEF Ring
<1>10. /\ Held(r) \in Seq(Item \cup {None}) /\ Len(Held(r)) = q.count - 1
       /\ \A i \in 1 .. q.count - 1 : Held(r)[i] =
            IF q.kind = "queue" THEN r.items[Wrapped(r.read + i, Length)] ELSE None
  BY <1>8, HeldFacts
<1>11. \A i \in 1 .. q.count - 1 : Held(r)[i] = Tail(h)[i]
  <2>1. TAKE i \in 1 .. q.count - 1
  <2>2. i + 1 \in 1 .. q.count
    BY <1>1
  <2>3. CASE q.kind # "queue"
    BY <1>6, <1>7, <1>10, <2>2, <2>3
  <2>4. CASE q.kind = "queue"
    <3>1. Held(r)[i] = q.items[Wrapped(q.read + (i + 1), Length)]
      BY <1>1, <1>2, <1>8, <1>10, <2>4
    <3>2. QED
      BY <1>6, <1>7, <2>2, <2>4, <3>1
  <2>5. QED
    BY <2>3, <2>4
<1>12. Held(r) = Tail(h)
  BY <1>7, <1>10, <1>11, SeqEqual
<1>13. QED
  BY <1>7, <1>8, <1>9, <1>12 DEF r, h

\* prvCopyDataToQueue to a queue with room.
LEMMA InsertedHeld ==
  ASSUME QueueTypes, q.count < q.length, NEW x \in Item \cup {None}, NEW front
  PROVE  LET r == prvCopyDataToQueue(x, front) IN
    /\ r \in Queues /\ r.count <= r.length /\ Ring(r)
    /\ r.kind = q.kind /\ r.length = q.length /\ r.txLock = q.txLock /\ r.rxLock = q.rxLock
    /\ \E y \in Item \cup {None} : Held(r) \in {Append(Held(q), y), <<y>> \o Held(q)}
<1>1. CASE q.kind # "queue"
  <2> DEFINE r == [q EXCEPT !.count = @ + 1, !.holder = None]
  <2>1. prvCopyDataToQueue(x, front) = r
    BY <1>1 DEF prvCopyDataToQueue
  <2>2. /\ r \in Queues /\ r.count <= r.length /\ Ring(r)
        /\ r.kind = q.kind /\ r.length = q.length /\ r.txLock = q.txLock /\ r.rxLock = q.rxLock
        /\ Held(r) = Append(Held(q), None)
    BY <1>1, CountedHeld
  <2> HIDE DEF r
  <2>3. QED
    BY <2>1, <2>2
<1>2. CASE q.kind = "queue"
  <2>1. \/ prvCopyDataToQueue(x, front) = Insert(x, TRUE)
        \/ prvCopyDataToQueue(x, front) = Insert(x, FALSE)
    BY <1>2 DEF prvCopyDataToQueue, Insert
  <2>2. CASE prvCopyDataToQueue(x, front) = Insert(x, TRUE)
    BY <1>2, <2>2, FrontHeld
  <2>3. CASE prvCopyDataToQueue(x, front) = Insert(x, FALSE)
    BY <1>2, <2>3, BackHeld
  <2>4. QED
    BY <2>1, <2>2, <2>3
<1>3. QED
  BY <1>1, <1>2

\* A queue that differs from r in none of these holds the same.
Alike1(r, r1) ==
  /\ r1.kind = r.kind /\ r1.items = r.items /\ r1.write = r.write /\ r1.read = r.read
  /\ r1.count = r.count /\ r1.length = r.length

\* What it holds depends on no other field.
LEMMA HeldAlike ==
  ASSUME NEW r, NEW r1, Alike1(r, r1)
  PROVE  Held(r1) = Held(r) /\ (Ring(r) => Ring(r1))
BY DEF Held, Alike1, Ring

\* Locks, the depth and the holder are no part of the ring.
LEMMA LocksAlike ==
  ASSUME NEW r \in Queues, NEW x \in Int, NEW y \in Int, NEW d \in Int
  PROVE  /\ [r EXCEPT !.rxLock = x, !.txLock = y] \in Queues
         /\ Alike1(r, [r EXCEPT !.rxLock = x, !.txLock = y])
         /\ [r EXCEPT !.rxLock = x] \in Queues /\ Alike1(r, [r EXCEPT !.rxLock = x])
         /\ [r EXCEPT !.txLock = y] \in Queues /\ Alike1(r, [r EXCEPT !.txLock = y])
         /\ [r EXCEPT !.depth = d] \in Queues /\ Alike1(r, [r EXCEPT !.depth = d])
BY DEF Queues, Alike1

\* What is to be shown of a step: the types are kept, and the channel follows.
Follows ==
  /\ q' \in Queues /\ q'.count <= q'.length /\ Ring(q')
  /\ q'.kind = q.kind /\ q'.length = q.length
  /\ \A t \in Task : call'[t].item \in Item \cup {None}
  /\ C!Next

\* Nobody is told anything, or only that the call is in vain.
ToldNothingNew ==
  \/ answer' = None
  \/ \E u \in Task : answer' = [to |-> u, says |-> "full"] \/ answer' = [to |-> u, says |-> "empty"]

\* Contents is what the ring holds.
LEMMA ContentsHeld == Contents = Held(q) /\ Contents' = Held(q')
BY DEF Contents, Held, InQueue, Wrapped

\* A step that leaves the ring alone and gives nothing out.
LEMMA RingStays ==
  ASSUME QueueTypes, q' \in Queues, Alike1(q, q'), ToldNothingNew,
         \A t \in Task : call'[t].item \in Item \cup {None}
  PROVE  Follows
<1>1. Held(q') = Held(q) /\ Ring(q')
  BY HeldAlike DEF QueueTypes
<1>2. q'.length = q.length /\ q'.count <= q'.length /\ q'.kind = q.kind
  BY DEF Alike1, QueueTypes
<1>3. C!Next
  <2>1. CASE answer' = None
    BY <1>1, <1>2, <2>1, ContentsHeld DEF C!Next, C!Silence
  <2>2. ASSUME NEW u \in Task,
               answer' = [to |-> u, says |-> "full"] \/ answer' = [to |-> u, says |-> "empty"]
        PROVE  C!Next
    <3>1. C!Refuse(u)
      BY <1>1, <1>2, <2>2, ContentsHeld DEF C!Refuse, C!Tells
    <3>2. QED
      BY <3>1 DEF C!Next
  <2>3. QED
    BY <2>1, <2>2 DEF ToldNothingNew
<1>4. QED
  BY <1>1, <1>2, <1>3 DEF Follows

\* A step that copies an item into the queue and tells a user so.
LEMMA RingGrows ==
  ASSUME QueueTypes, q.count < q.length, NEW x \in Item \cup {None}, NEW front,
         NEW r, r = prvCopyDataToQueue(x, front), q' \in Queues, Alike1(r, q'),
         NEW u \in Task \cup {Interrupt}, answer' = [to |-> u, says |-> "sent"],
         \A t \in Task : call'[t].item \in Item \cup {None}
  PROVE  Follows
<1>1. /\ r.count <= r.length /\ Ring(r) /\ r.kind = q.kind /\ r.length = q.length
      /\ \E y \in Item \cup {None} : Held(r) \in {Append(Held(q), y), <<y>> \o Held(q)}
  BY InsertedHeld
<1>2. PICK y \in Item \cup {None} : Held(r) \in {Append(Held(q), y), <<y>> \o Held(q)}
  BY <1>1
<1>3. Held(q') = Held(r) /\ Ring(q')
  BY <1>1, HeldAlike
<1>4. Len(Held(q)) = q.count
  BY HeldFacts DEF QueueTypes
<1>5. q'.length = q.length /\ q'.kind = q.kind /\ q'.count <= q'.length
  BY <1>1 DEF Alike1
<1>6. C!Put(u, y)
  BY <1>2, <1>3, <1>4, <1>5, ContentsHeld DEF C!Put, C!Tells
<1>7. C!Next
  BY <1>6 DEF C!Next
<1>8. QED
  BY <1>3, <1>5, <1>7 DEF Follows

\* A step that copies the first item out and tells it.
LEMMA RingShrinks ==
  ASSUME QueueTypes, q.count > 0, NEW t \in Task \cup {None},
         NEW r, r = Remove1(t), q' \in Queues, Alike1(r, q'),
         NEW u \in Task \cup {Interrupt}, answer' = [to |-> u, says |-> FirstItem],
         \A v \in Task : call'[v].item \in Item \cup {None}
  PROVE  Follows
<1>1. /\ r.count <= r.length /\ Ring(r) /\ r.kind = q.kind /\ r.length = q.length
      /\ Held(q) # <<>> /\ FirstItem = Head(Held(q)) /\ Held(r) = Tail(Held(q))
  BY RemovedHeld
<1>2. Held(q') = Held(r) /\ Ring(q')
  BY <1>1, HeldAlike
<1>3. q'.length = q.length /\ q'.kind = q.kind /\ q'.count <= q'.length
  BY <1>1 DEF Alike1
<1>4. C!Take(u)
  BY <1>1, <1>2, <1>3, ContentsHeld DEF C!Take, C!Tells
<1>5. C!Next
  BY <1>4 DEF C!Next
<1>6. QED
  BY <1>2, <1>3, <1>5 DEF Follows

-----------------------------------------------------------------------------
(* Calls                                                                     *)

\* A call is a record of these fields; no more is used of it here.
IsCall(c) ==
  c = [op |-> c.op, step |-> c.step, item |-> c.item, front |-> c.front,
       ticks |-> c.ticks, asked |-> c.asked, entered |-> c.entered,
       time |-> c.time, overflows |-> c.overflows]

\* What a call carries is an item or nothing.
CallTypes ==
  /\ call = [t \in Task |-> call[t]]
  /\ \A t \in Task : IsCall(call[t]) /\ call[t].item \in Item \cup {None}

\* What t sends, if it does, is an item, or nothing for what only counts.
Carried(c) == IsCall(c) /\ c.item \in Item \cup {None}

\* The inductive invariant of the queue as a channel.
ChannelInvariant == QueueTypes /\ CallTypes

\* A step that only changes the call of one task.
LEMMA CallChanges ==
  ASSUME CallTypes, NEW t \in Task, NEW c, Carried(c), call' = [call EXCEPT ![t] = c]
  PROVE  CallTypes'
<1>1. \A u \in Task : call'[u] = IF u = t THEN c ELSE call[u]
  BY DEF CallTypes
<1>2. call' = [u \in Task |-> call'[u]]
  BY DEF CallTypes
<1>3. QED
  BY <1>1, <1>2 DEF CallTypes, Carried

\* The calls that begin, go on and end.
\* Setting a field of a call.
LEMMA FieldCarried ==
  ASSUME NEW c, Carried(c), NEW x
  PROVE  /\ Carried([c EXCEPT !.op = x])
         /\ Carried([c EXCEPT !.step = x])
         /\ Carried([c EXCEPT !.front = x])
         /\ Carried([c EXCEPT !.ticks = x])
         /\ Carried([c EXCEPT !.asked = x])
         /\ Carried([c EXCEPT !.entered = x])
         /\ Carried([c EXCEPT !.time = x])
         /\ Carried([c EXCEPT !.overflows = x])
         /\ x \in Item \cup {None} => Carried([c EXCEPT !.item = x])
<1>1. c = [op |-> c.op, step |-> c.step, item |-> c.item, front |-> c.front, ticks |-> c.ticks, asked |-> c.asked, entered |-> c.entered, time |-> c.time, overflows |-> c.overflows] /\ c.item \in Item \cup {None}
  BY DEF Carried, IsCall
<1>2. Carried([c EXCEPT !.op = x])
  <2> DEFINE d == [c EXCEPT !.op = x]
  <2>1. d = [op |-> x, step |-> c.step, item |-> c.item, front |-> c.front, ticks |-> c.ticks, asked |-> c.asked,
             entered |-> c.entered, time |-> c.time, overflows |-> c.overflows]
    BY <1>1
  <2> HIDE DEF d
  <2>2. IsCall(d) /\ d.item \in Item \cup {None}
    BY <1>1, <2>1 DEF IsCall
  <2>3. QED
    BY <2>2 DEF Carried, d
<1>3. Carried([c EXCEPT !.step = x])
  <2> DEFINE d == [c EXCEPT !.step = x]
  <2>1. d = [op |-> c.op, step |-> x, item |-> c.item, front |-> c.front, ticks |-> c.ticks, asked |-> c.asked,
             entered |-> c.entered, time |-> c.time, overflows |-> c.overflows]
    BY <1>1
  <2> HIDE DEF d
  <2>2. IsCall(d) /\ d.item \in Item \cup {None}
    BY <1>1, <2>1 DEF IsCall
  <2>3. QED
    BY <2>2 DEF Carried, d
<1>4. Carried([c EXCEPT !.front = x])
  <2> DEFINE d == [c EXCEPT !.front = x]
  <2>1. d = [op |-> c.op, step |-> c.step, item |-> c.item, front |-> x, ticks |-> c.ticks, asked |-> c.asked,
             entered |-> c.entered, time |-> c.time, overflows |-> c.overflows]
    BY <1>1
  <2> HIDE DEF d
  <2>2. IsCall(d) /\ d.item \in Item \cup {None}
    BY <1>1, <2>1 DEF IsCall
  <2>3. QED
    BY <2>2 DEF Carried, d
<1>5. Carried([c EXCEPT !.ticks = x])
  <2> DEFINE d == [c EXCEPT !.ticks = x]
  <2>1. d = [op |-> c.op, step |-> c.step, item |-> c.item, front |-> c.front, ticks |-> x, asked |-> c.asked,
             entered |-> c.entered, time |-> c.time, overflows |-> c.overflows]
    BY <1>1
  <2> HIDE DEF d
  <2>2. IsCall(d) /\ d.item \in Item \cup {None}
    BY <1>1, <2>1 DEF IsCall
  <2>3. QED
    BY <2>2 DEF Carried, d
<1>6. Carried([c EXCEPT !.asked = x])
  <2> DEFINE d == [c EXCEPT !.asked = x]
  <2>1. d = [op |-> c.op, step |-> c.step, item |-> c.item, front |-> c.front, ticks |-> c.ticks, asked |-> x,
             entered |-> c.entered, time |-> c.time, overflows |-> c.overflows]
    BY <1>1
  <2> HIDE DEF d
  <2>2. IsCall(d) /\ d.item \in Item \cup {None}
    BY <1>1, <2>1 DEF IsCall
  <2>3. QED
    BY <2>2 DEF Carried, d
<1>7. Carried([c EXCEPT !.entered = x])
  <2> DEFINE d == [c EXCEPT !.entered = x]
  <2>1. d = [op |-> c.op, step |-> c.step, item |-> c.item, front |-> c.front, ticks |-> c.ticks, asked |-> c.asked,
             entered |-> x, time |-> c.time, overflows |-> c.overflows]
    BY <1>1
  <2> HIDE DEF d
  <2>2. IsCall(d) /\ d.item \in Item \cup {None}
    BY <1>1, <2>1 DEF IsCall
  <2>3. QED
    BY <2>2 DEF Carried, d
<1>8. Carried([c EXCEPT !.time = x])
  <2> DEFINE d == [c EXCEPT !.time = x]
  <2>1. d = [op |-> c.op, step |-> c.step, item |-> c.item, front |-> c.front, ticks |-> c.ticks, asked |-> c.asked,
             entered |-> c.entered, time |-> x, overflows |-> c.overflows]
    BY <1>1
  <2> HIDE DEF d
  <2>2. IsCall(d) /\ d.item \in Item \cup {None}
    BY <1>1, <2>1 DEF IsCall
  <2>3. QED
    BY <2>2 DEF Carried, d
<1>9. Carried([c EXCEPT !.overflows = x])
  <2> DEFINE d == [c EXCEPT !.overflows = x]
  <2>1. d = [op |-> c.op, step |-> c.step, item |-> c.item, front |-> c.front, ticks |-> c.ticks, asked |-> c.asked,
             entered |-> c.entered, time |-> c.time, overflows |-> x]
    BY <1>1
  <2> HIDE DEF d
  <2>2. IsCall(d) /\ d.item \in Item \cup {None}
    BY <1>1, <2>1 DEF IsCall
  <2>3. QED
    BY <2>2 DEF Carried, d
<1>10. x \in Item \cup {None} => Carried([c EXCEPT !.item = x])
  <2> DEFINE d == [c EXCEPT !.item = x]
  <2>1. HAVE x \in Item \cup {None}
  <2>2. d = [op |-> c.op, step |-> c.step, item |-> x, front |-> c.front, ticks |-> c.ticks, asked |-> c.asked,
             entered |-> c.entered, time |-> c.time, overflows |-> c.overflows]
    BY <1>1
  <2> HIDE DEF d
  <2>3. IsCall(d) /\ d.item \in Item \cup {None}
    BY <1>1, <2>1, <2>2 DEF IsCall
  <2>4. QED
    BY <2>3 DEF Carried, d
<1>11. QED
  BY <1>2, <1>3, <1>4, <1>5, <1>6, <1>7, <1>8, <1>9, <1>10

\* The calls that begin, go on and end.
LEMMA CallsCarried ==
  ASSUME NEW c, Carried(c)
  PROVE  /\ \A s : Carried([c EXCEPT !.step = s])
         /\ \A s, n : Carried([c EXCEPT !.step = s, !.ticks = n])
         /\ \A s, e, n, o : Carried([c EXCEPT !.step = s, !.entered = e, !.time = n,
                                               !.overflows = o])
         /\ \A n, m, o : Carried([c EXCEPT !.ticks = n, !.time = m, !.overflows = o])
         /\ \A op, s : Carried([c EXCEPT !.op = op, !.step = s])
         /\ \A op, s, x, f, n :
              x \in Item \cup {None} =>
                Carried([c EXCEPT !.op = op, !.step = s, !.item = x, !.front = f,
                                  !.ticks = n, !.asked = n])
<1>1. ASSUME NEW s, NEW n PROVE Carried([c EXCEPT !.step = s, !.ticks = n])
  <2> DEFINE c1 == [c EXCEPT !.step = s]
             c2 == [c1 EXCEPT !.ticks = n]
  <2>1. Carried(c1)
    BY FieldCarried
  <2>2. Carried(c2)
    BY <2>1, FieldCarried
  <2>3. [c EXCEPT !.step = s, !.ticks = n] = c2
    OBVIOUS
  <2>4. QED
    BY <2>2, <2>3
<1>2. ASSUME NEW s, NEW e, NEW n, NEW o
      PROVE Carried([c EXCEPT !.step = s, !.entered = e, !.time = n, !.overflows = o])
  <2> DEFINE c1 == [c EXCEPT !.step = s]
             c2 == [c1 EXCEPT !.entered = e]
             c3 == [c2 EXCEPT !.time = n]
             c4 == [c3 EXCEPT !.overflows = o]
  <2>1. Carried(c1)
    BY FieldCarried
  <2>2. Carried(c2)
    BY <2>1, FieldCarried
  <2>3. Carried(c3)
    BY <2>2, FieldCarried
  <2>4. Carried(c4)
    BY <2>3, FieldCarried
  <2>5. [c EXCEPT !.step = s, !.entered = e, !.time = n, !.overflows = o] = c4
    OBVIOUS
  <2>6. QED
    BY <2>4, <2>5
<1>3. ASSUME NEW n, NEW m, NEW o
      PROVE Carried([c EXCEPT !.ticks = n, !.time = m, !.overflows = o])
  <2> DEFINE c1 == [c EXCEPT !.ticks = n]
             c2 == [c1 EXCEPT !.time = m]
             c3 == [c2 EXCEPT !.overflows = o]
  <2>1. Carried(c1)
    BY FieldCarried
  <2>2. Carried(c2)
    BY <2>1, FieldCarried
  <2>3. Carried(c3)
    BY <2>2, FieldCarried
  <2>4. [c EXCEPT !.ticks = n, !.time = m, !.overflows = o] = c3
    OBVIOUS
  <2>5. QED
    BY <2>3, <2>4
<1>4. ASSUME NEW op, NEW s PROVE Carried([c EXCEPT !.op = op, !.step = s])
  <2> DEFINE c1 == [c EXCEPT !.op = op]
             c2 == [c1 EXCEPT !.step = s]
  <2>1. Carried(c1)
    BY FieldCarried
  <2>2. Carried(c2)
    BY <2>1, FieldCarried
  <2>3. [c EXCEPT !.op = op, !.step = s] = c2
    OBVIOUS
  <2>4. QED
    BY <2>2, <2>3
<1>5. ASSUME NEW op, NEW s, NEW x \in Item \cup {None}, NEW f, NEW n
      PROVE Carried([c EXCEPT !.op = op, !.step = s, !.item = x, !.front = f,
                              !.ticks = n, !.asked = n])
  <2> DEFINE c1 == [c EXCEPT !.op = op, !.step = s]
             c2 == [c1 EXCEPT !.item = x]
             c3 == [c2 EXCEPT !.front = f]
             c4 == [c3 EXCEPT !.ticks = n]
             c5 == [c4 EXCEPT !.asked = n]
  <2>1. Carried(c1)
    BY <1>4
  <2>2. Carried(c2)
    BY <2>1, FieldCarried
  <2>3. Carried(c3)
    BY <2>2, FieldCarried
  <2>4. Carried(c4)
    BY <2>3, FieldCarried
  <2>5. Carried(c5)
    BY <2>4, FieldCarried
  <2>6. [c EXCEPT !.op = op, !.step = s, !.item = x, !.front = f, !.ticks = n,
                  !.asked = n] = c5
    OBVIOUS
  <2>7. QED
    BY <2>5, <2>6
<1>6. ASSUME NEW s PROVE Carried([c EXCEPT !.step = s])
  BY FieldCarried
<1>7. QED
  BY <1>1, <1>2, <1>3, <1>4, <1>5, <1>6

\* No call carries anything.
LEMMA NoCallCarried == Carried(NoCall)
<1>1. /\ NoCall = [op |-> NoCall.op, step |-> NoCall.step, item |-> NoCall.item,
                   front |-> NoCall.front, ticks |-> NoCall.ticks, asked |-> NoCall.asked,
                   entered |-> NoCall.entered, time |-> NoCall.time,
                   overflows |-> NoCall.overflows]
      /\ NoCall.item = None
  BY DEF NoCall
<1>2. QED
  BY <1>1 DEF Carried, IsCall

-----------------------------------------------------------------------------
(* Steps                                                                     *)

\* A step that leaves the ring alone: the queue is as before, and a user learns at
\* most that its call has failed.
LEMMA NothingMoves ==
  ASSUME ChannelInvariant, q' = q, ToldNothingNew, CallTypes'
  PROVE  Follows
<1>1. q' \in Queues /\ Alike1(q, q') /\ \A t \in Task : call'[t].item \in Item \cup {None}
  BY DEF ChannelInvariant, QueueTypes, Alike1, CallTypes
<1>2. QED
  BY <1>1, RingStays DEF ChannelInvariant

\* A call that ends, goes on or begins follows the channel.
LEMMA ReturnsFollow ==
  ASSUME CallTypes, NEW t \in Task, NEW x, Returns(t, x)
  PROVE  CallTypes' /\ answer' = [to |-> t, says |-> x]
<1>1. call' = [call EXCEPT ![t] = NoCall] /\ answer' = [to |-> t, says |-> x]
  BY DEF Returns, Tells
<1>2. QED
  BY <1>1, CallChanges, NoCallCarried

LEMMA GoesFollows ==
  ASSUME CallTypes, NEW t \in Task, NEW s, Goes(t, s)
  PROVE  CallTypes' /\ answer' = None
<1>1. call' = [call EXCEPT ![t].step = s] /\ answer' = None
  BY DEF Goes, TellsNobody
<1>2. Carried(call[t])
  BY DEF CallTypes, Carried
<1>3. Carried([call[t] EXCEPT !.step = s])
  BY <1>2, CallsCarried
<1>4. call' = [call EXCEPT ![t] = [call[t] EXCEPT !.step = s]]
  BY <1>1 DEF CallTypes
<1>5. QED
  BY <1>1, <1>3, <1>4, CallChanges

LEMMA BeginsFollows ==
  ASSUME ChannelInvariant, NEW t \in Task, NEW op, NEW x \in Item \cup {None}, NEW front, NEW n,
         Begins(t, op, x, front, n)
  PROVE  Follows /\ CallTypes'
<1> DEFINE c == [NoCall EXCEPT !.op = op, !.step = "try", !.item = x,
                               !.front = front, !.ticks = n, !.asked = n]
<1>1. call' = [call EXCEPT ![t] = c] /\ answer' = None /\ q' = q
  BY DEF Begins, TellsNobody
<1>2. Carried(c)
  BY NoCallCarried, CallsCarried
<1> HIDE DEF c
<1>3. CallTypes'
  BY <1>1, <1>2, CallChanges DEF ChannelInvariant
<1>4. Follows
  BY <1>1, <1>3, NothingMoves DEF ToldNothingNew
<1>5. QED
  BY <1>3, <1>4

LEMMA TryFailsFollows ==
  ASSUME ChannelInvariant, NEW t \in Task, NEW why \in {"full", "empty"}, TryFails(t, why)
  PROVE  Follows /\ CallTypes'
<1>1. q' = q
  BY DEF TryFails
<1>2. CASE call[t].ticks = 0
  <2>1. Returns(t, why)
    BY <1>2 DEF TryFails
  <2>2. CallTypes' /\ answer' = [to |-> t, says |-> why]
    BY <2>1, ReturnsFollow DEF ChannelInvariant
  <2>3. QED
    BY <1>1, <2>2, NothingMoves DEF ToldNothingNew
<1>3. CASE call[t].ticks # 0
  <2> DEFINE s == IF program.alternative THEN "block" ELSE "suspend"
             n == IF call[t].entered THEN call[t].time ELSE k.tick
             o == IF call[t].entered THEN call[t].overflows ELSE k.overflows
             c == [call[t] EXCEPT !.step = s, !.entered = TRUE, !.time = n, !.overflows = o]
  <2>1. /\ call' = [call EXCEPT ![t].step = s,
                        ![t].entered   = TRUE,
                        ![t].time      = IF call[t].entered THEN @ ELSE k.tick,
                        ![t].overflows = IF call[t].entered THEN @ ELSE k.overflows]
        /\ answer' = None
    BY <1>3 DEF TryFails, TellsNobody
  <2>2. call' = [call EXCEPT ![t] = c]
    BY <2>1 DEF ChannelInvariant, CallTypes, IsCall
  <2>3. Carried(c)
    BY CallsCarried DEF ChannelInvariant, CallTypes, Carried
  <2> HIDE DEF c
  <2>4. CallTypes'
    BY <2>2, <2>3, CallChanges DEF ChannelInvariant
  <2>5. QED
    BY <1>1, <2>1, <2>4, NothingMoves DEF ToldNothingNew
<1>4. QED
  BY <1>2, <1>3

\* A step that tells the first item and leaves it where it is.
LEMMA RingSeen ==
  ASSUME QueueTypes, q.count > 0, q' = q, NEW u \in Task \cup {Interrupt},
         answer' = [to |-> u, says |-> FirstItem],
         \A v \in Task : call'[v].item \in Item \cup {None}
  PROVE  Follows
<1>1. Held(q) # <<>> /\ FirstItem = Head(Held(q))
  BY RemovedHeld
<1>2. C!Look(u)
  BY <1>1, ContentsHeld DEF C!Look, C!Tells
<1>3. C!Next
  BY <1>2 DEF C!Next
<1>4. QED
  BY <1>3 DEF Follows, QueueTypes

\* Every step does: those that begin calls,
LEMMA CallsFollow ==
  ASSUME ChannelInvariant, NEW t \in Task,
         CallsSend(t) \/ CallsGive(t) \/ CallsReceive(t) \/ CallsPeek(t)
  PROVE  Follows /\ CallTypes'
<1>1. \E op, front, n : \E x \in Item \cup {None} : Begins(t, op, x, front, n)
  <2>1. CASE CallsSend(t)
    <3>1. \E x \in Item, n \in program.waits, front \in BOOLEAN : Begins(t, "send", x, front, n)
      BY <2>1 DEF CallsSend
    <3>2. QED
      BY <3>1
  <2>2. CASE CallsGive(t)
    <3>1. Begins(t, "send", None, FALSE, 0)
      BY <2>2 DEF CallsGive
    <3>2. QED
      BY <3>1
  <2>3. CASE CallsReceive(t) \/ CallsPeek(t)
    <3>1. \E op, n : Begins(t, op, None, FALSE, n)
      BY <2>3 DEF CallsReceive, CallsPeek
    <3>2. QED
      BY <3>1
  <2>4. QED
    BY <2>1, <2>2, <2>3
<1>2. PICK op, front, n, x : x \in Item \cup {None} /\ Begins(t, op, x, front, n)
  BY <1>1
<1>3. QED
  BY <1>2, BeginsFollows

\* The depth of a recursive mutex is no part of the ring.
LEMMA DepthFollows ==
  ASSUME ChannelInvariant, NEW d \in Int, q' = [q EXCEPT !.depth = d], answer' = None, CallTypes'
  PROVE  Follows
<1>1. q \in Queues /\ 0 \in Int
  BY DEF ChannelInvariant, QueueTypes
<1>2. q' \in Queues /\ Alike1(q, q')
  BY <1>1, LocksAlike
<1>3. QED
  BY <1>2, RingStays DEF ChannelInvariant, ToldNothingNew, CallTypes

\* the recursive ones,
LEMMA RecursiveFollows ==
  ASSUME ChannelInvariant, NEW t \in Task, TakesRecursive(t) \/ GivesRecursive(t)
  PROVE  Follows /\ CallTypes'
<1>1. q.depth \in Int /\ q.depth + 1 \in Int /\ q.depth - 1 \in Int
  BY DEF ChannelInvariant, QueueTypes, Queues
<1>2. CASE TakesRecursive(t) /\ q.holder # t
  <2>1. \E n : Begins(t, "receive", None, FALSE, n)
    BY <1>2 DEF TakesRecursive
  <2>2. QED
    BY <2>1, BeginsFollows
<1>3. CASE TakesRecursive(t) /\ q.holder = t
  <2>1. q' = [q EXCEPT !.depth = @ + 1] /\ answer' = None /\ call' = call
    BY <1>3 DEF TakesRecursive, TellsNobody
  <2>2. CallTypes'
    BY <2>1 DEF ChannelInvariant, CallTypes
  <2>3. QED
    BY <1>1, <2>1, <2>2, DepthFollows
<1>4. CASE GivesRecursive(t)
  <2>1. q' = [q EXCEPT !.depth = @ - 1] /\ answer' = None
    BY <1>4 DEF GivesRecursive, TellsNobody
  <2>2. \/ call' = call
        \/ call' = [call EXCEPT ![t] = [NoCall EXCEPT !.op = "send", !.step = "try"]]
    BY <1>4 DEF GivesRecursive
  <2>3. Carried([NoCall EXCEPT !.op = "send", !.step = "try"])
    BY NoCallCarried, CallsCarried
  <2>4. CallTypes'
    <3>1. CASE call' = call
      BY <3>1 DEF ChannelInvariant, CallTypes
    <3>2. CASE call' = [call EXCEPT ![t] = [NoCall EXCEPT !.op = "send", !.step = "try"]]
      BY <2>3, <3>2, CallChanges DEF ChannelInvariant
    <3>3. QED
      BY <2>2, <3>1, <3>2
  <2>5. QED
    BY <1>1, <2>1, <2>4, DepthFollows
<1>5. QED
  BY <1>2, <1>3, <1>4

\* a send,
LEMMA TrySendFollows ==
  ASSUME ChannelInvariant, NEW t \in Task, TrySend(t)
  PROVE  Follows /\ CallTypes'
<1>1. CASE q.count < q.length
  <2>1. q' = prvCopyDataToQueue(call[t].item, call[t].front) /\ Returns(t, "sent")
    BY <1>1 DEF TrySend
  <2>2. CallTypes' /\ answer' = [to |-> t, says |-> "sent"]
    BY <2>1, ReturnsFollow DEF ChannelInvariant
  <2>3. call[t].item \in Item \cup {None} /\ \A u \in Task : call'[u].item \in Item \cup {None}
    BY <2>2 DEF ChannelInvariant, CallTypes
  <2>4. q' \in Queues
    BY <1>1, <2>1, <2>3, InsertedHeld DEF ChannelInvariant
  <2>5. Alike1(q', q')
    BY DEF Alike1
  <2>6. QED
    BY <1>1, <2>1, <2>2, <2>3, <2>4, <2>5, RingGrows DEF ChannelInvariant
<1>2. CASE ~(q.count < q.length)
  BY <1>2, TryFailsFollows DEF TrySend
<1>3. QED
  BY <1>1, <1>2

\* a receive,
LEMMA TryReceiveFollows ==
  ASSUME ChannelInvariant, NEW t \in Task, TryReceive(t)
  PROVE  Follows /\ CallTypes'
<1>1. CASE q.count > 0
  <2> DEFINE r == Remove1(t)
             d == IF q.kind = "recursive" THEN 1 ELSE r.depth
  <2>1. q' = [r EXCEPT !.depth = d] /\ Returns(t, FirstItem)
    BY <1>1 DEF TryReceive
  <2>2. CallTypes' /\ answer' = [to |-> t, says |-> FirstItem]
    BY <2>1, ReturnsFollow DEF ChannelInvariant
  <2>3. r \in Queues
    BY <1>1, RemovedHeld DEF ChannelInvariant
  <2>4. d \in Int /\ 0 \in Int
    <3> HIDE DEF r
    <3>1. r.depth \in Int
      BY <2>3 DEF Queues
    <3>2. QED
      BY <3>1
  <2> HIDE DEF r, d
  <2>5. q' \in Queues /\ Alike1(r, q')
    BY <2>1, <2>3, <2>4, LocksAlike
  <2>6. r = Remove1(t)
    BY DEF r
  <2>7. \A u \in Task : call'[u].item \in Item \cup {None}
    BY <2>2 DEF CallTypes
  <2>8. QED
    BY <1>1, <2>2, <2>5, <2>6, <2>7, RingShrinks DEF ChannelInvariant
<1>2. CASE ~(q.count > 0)
  BY <1>2, TryFailsFollows DEF TryReceive
<1>3. QED
  BY <1>1, <1>2

\* a peek,
LEMMA TryPeekFollows ==
  ASSUME ChannelInvariant, NEW t \in Task, TryPeek(t)
  PROVE  Follows /\ CallTypes'
<1>1. CASE q.count > 0
  <2>1. q' = q /\ Returns(t, FirstItem)
    BY <1>1 DEF TryPeek
  <2>2. CallTypes' /\ answer' = [to |-> t, says |-> FirstItem]
    BY <2>1, ReturnsFollow DEF ChannelInvariant
  <2>3. \A u \in Task : call'[u].item \in Item \cup {None}
    BY <2>2 DEF CallTypes
  <2>4. QED
    BY <1>1, <2>1, <2>2, <2>3, RingSeen DEF ChannelInvariant
<1>2. CASE ~(q.count > 0)
  BY <1>2, TryFailsFollows DEF TryPeek
<1>3. QED
  BY <1>1, <1>2

LEMMA DeductedCarried ==
  ASSUME CallTypes, NEW t \in Task
  PROVE  /\ Carried(Deducted(t))
         /\ \A s : Carried([Deducted(t) EXCEPT !.step = s])
<1>1. Carried(call[t])
  BY DEF CallTypes, Carried
<1>2. Carried(Deducted(t))
  BY <1>1, CallsCarried DEF Deducted
<1>3. QED
  BY <1>2, CallsCarried

\* The steps of a call that neither tell nor move anything.
LEMMA StepsFollow ==
  ASSUME ChannelInvariant, NEW t \in Task,
         Suspends(t) \/ Looks(t) \/ Places1(t) \/ YieldsInCall(t)
  PROVE  Follows /\ CallTypes'
<1>1. q' = q /\ \E s : Goes(t, s)
  BY DEF Suspends, Looks, Places1, YieldsInCall
<1>2. PICK s : Goes(t, s)
  BY <1>1
<1>3. CallTypes' /\ answer' = None
  BY <1>2, GoesFollows DEF ChannelInvariant
<1>4. QED
  BY <1>1, <1>3, NothingMoves DEF ToldNothingNew

\* the steps of a call that waits,
LEMMA LocksFollows ==
  ASSUME ChannelInvariant, NEW t \in Task, Locks(t)
  PROVE  Follows /\ CallTypes'
<1> DEFINE x == IF q.rxLock = Unlocked THEN 0 ELSE q.rxLock
           y == IF q.txLock = Unlocked THEN 0 ELSE q.txLock
           c == IF IsOver(t) THEN [call[t] EXCEPT !.step = "unlockTx", !.ticks = 0]
                ELSE [Deducted(t) EXCEPT !.step = "look"]
<1>1. q \in Queues /\ x \in Int /\ y \in Int
  BY DEF ChannelInvariant, QueueTypes, Queues
<1>2. /\ q' = [q EXCEPT !.rxLock = x, !.txLock = y]
      /\ call' = [call EXCEPT ![t] = c]
      /\ answer' = None
  BY DEF Locks, TellsNobody, ChannelInvariant, CallTypes
<1>3. Carried(c)
  <2>1. Carried([Deducted(t) EXCEPT !.step = "look"])
    BY DeductedCarried DEF ChannelInvariant
  <2>2. Carried([call[t] EXCEPT !.step = "unlockTx", !.ticks = 0])
    BY CallsCarried DEF ChannelInvariant, CallTypes, Carried
  <2>3. QED
    BY <2>1, <2>2
<1> HIDE DEF x, y, c
<1>4. CallTypes'
  BY <1>2, <1>3, CallChanges DEF ChannelInvariant
<1>5. q' \in Queues /\ Alike1(q, q')
  BY <1>1, <1>2, LocksAlike, <1>1
<1>6. QED
  BY <1>2, <1>4, <1>5, RingStays DEF ChannelInvariant, ToldNothingNew, CallTypes

LEMMA UnlocksFollow ==
  ASSUME ChannelInvariant, NEW t \in Task, UnlocksTx(t) \/ UnlocksRx(t)
  PROVE  Follows /\ CallTypes'
<1>1. q \in Queues /\ Unlocked \in Int
  BY DEF ChannelInvariant, QueueTypes, Unlocked
<1>2. /\ q' = [q EXCEPT !.rxLock = Unlocked] \/ q' = [q EXCEPT !.txLock = Unlocked]
      /\ \E s : Goes(t, s)
  BY DEF UnlocksTx, UnlocksRx
<1>3. PICK s : Goes(t, s)
  BY <1>2
<1>4. CallTypes' /\ answer' = None
  BY <1>3, GoesFollows DEF ChannelInvariant
<1>5. q' \in Queues /\ Alike1(q, q')
  <2>1. /\ [q EXCEPT !.rxLock = Unlocked] \in Queues
        /\ Alike1(q, [q EXCEPT !.rxLock = Unlocked])
        /\ [q EXCEPT !.txLock = Unlocked] \in Queues
        /\ Alike1(q, [q EXCEPT !.txLock = Unlocked])
    BY <1>1, LocksAlike
  <2>2. QED
    BY <1>2, <2>1
<1>6. QED
  BY <1>4, <1>5, RingStays DEF ChannelInvariant, ToldNothingNew, CallTypes

\* A call that ends because its time is over, or goes on.
LEMMA ResumesFollows ==
  ASSUME ChannelInvariant, NEW t \in Task, Resumes(t)
  PROVE  Follows /\ CallTypes'
<1>1. /\ q' = q
      /\ \/ Returns(t, "full") \/ Returns(t, "empty")
         \/ \E s : Goes(t, s)
  BY DEF Resumes
<1>2. CASE Returns(t, "full") \/ Returns(t, "empty")
  <2>1. /\ CallTypes'
        /\ answer' = [to |-> t, says |-> "full"] \/ answer' = [to |-> t, says |-> "empty"]
    BY <1>2, ReturnsFollow DEF ChannelInvariant
  <2>2. QED
    BY <1>1, <2>1, NothingMoves DEF ToldNothingNew
<1>3. CASE \E s : Goes(t, s)
  <2>1. PICK s : Goes(t, s)
    BY <1>3
  <2>2. CallTypes' /\ answer' = None
    BY <2>1, GoesFollows DEF ChannelInvariant
  <2>3. QED
    BY <1>1, <2>2, NothingMoves DEF ToldNothingNew
<1>4. QED
  BY <1>1, <1>2, <1>3

LEMMA BlocksFollows ==
  ASSUME ChannelInvariant, NEW t \in Task, BlocksAlternative(t)
  PROVE  Follows /\ CallTypes'
<1> DEFINE c == [Deducted(t) EXCEPT !.step = "try"]
<1>1. q' = q
  BY DEF BlocksAlternative
<1>2. CASE IsOver(t)
  <2>1. Returns(t, "full") \/ Returns(t, "empty")
    BY <1>2 DEF BlocksAlternative
  <2>2. /\ CallTypes'
        /\ answer' = [to |-> t, says |-> "full"] \/ answer' = [to |-> t, says |-> "empty"]
    BY <2>1, ReturnsFollow DEF ChannelInvariant
  <2>3. QED
    BY <1>1, <2>2, NothingMoves DEF ToldNothingNew
<1>3. CASE ~IsOver(t)
  <2>1. call' = [call EXCEPT ![t] = c] /\ answer' = None
    BY <1>3 DEF BlocksAlternative, TellsNobody
  <2>2. Carried(c)
    BY DeductedCarried DEF ChannelInvariant
  <2> HIDE DEF c
  <2>3. CallTypes'
    BY <2>1, <2>2, CallChanges DEF ChannelInvariant
  <2>4. QED
    BY <1>1, <2>1, <2>3, NothingMoves DEF ToldNothingNew
<1>4. QED
  BY <1>2, <1>3

\* those of interrupts,
LEMMA InterruptsFollow ==
  ASSUME ChannelInvariant,
         xQueueReceiveFromISR \/ \E x \in Item, front \in BOOLEAN : xQueueSendFromISR(x, front)
  PROVE  Follows /\ CallTypes'
<1>1. call' = call
  BY DEF xQueueReceiveFromISR, xQueueSendFromISR
<1>2. CallTypes' /\ \A u \in Task : call'[u].item \in Item \cup {None}
  BY <1>1 DEF ChannelInvariant, CallTypes
<1>3. CASE xQueueReceiveFromISR
  <2> DEFINE r == Remove1(None)
             x == IF r.rxLock = Unlocked THEN r.rxLock ELSE r.rxLock + 1
  <2>1. /\ q' = [r EXCEPT !.rxLock = x] /\ q.count > 0
        /\ answer' = [to |-> Interrupt, says |-> FirstItem]
    BY <1>3 DEF xQueueReceiveFromISR, Tells
  <2>2. r \in Queues
    BY <2>1, RemovedHeld DEF ChannelInvariant
  <2>3. x \in Int /\ 0 \in Int
    <3> HIDE DEF r
    <3>1. r.rxLock \in Int
      BY <2>2 DEF Queues
    <3>2. QED
      BY <3>1
  <2>4. r = Remove1(None)
    OBVIOUS
  <2> HIDE DEF r, x
  <2>5. q' \in Queues /\ Alike1(r, q')
    BY <2>1, <2>2, <2>3, LocksAlike
  <2>6. QED
    BY <1>2, <2>1, <2>4, <2>5, RingShrinks DEF ChannelInvariant
<1>4. CASE \E x \in Item, front \in BOOLEAN : xQueueSendFromISR(x, front)
  <2>1. PICK x \in Item, front \in BOOLEAN : xQueueSendFromISR(x, front)
    BY <1>4
  <2> DEFINE r == prvCopyDataToQueue(x, front)
             y == IF r.txLock = Unlocked THEN r.txLock ELSE r.txLock + 1
  <2>2. /\ q' = [r EXCEPT !.txLock = y] /\ q.count < q.length
        /\ answer' = [to |-> Interrupt, says |-> "sent"]
    BY <2>1 DEF xQueueSendFromISR, Tells
  <2>3. r \in Queues
    BY <2>2, InsertedHeld DEF ChannelInvariant
  <2>4. y \in Int /\ 0 \in Int
    <3> HIDE DEF r
    <3>1. r.txLock \in Int
      BY <2>3 DEF Queues
    <3>2. QED
      BY <3>1
  <2>5. r = prvCopyDataToQueue(x, front)
    OBVIOUS
  <2> HIDE DEF r, y
  <2>6. q' \in Queues /\ Alike1(r, q')
    BY <2>2, <2>3, <2>4, LocksAlike
  <2>7. QED
    BY <1>2, <2>2, <2>5, <2>6, RingGrows DEF ChannelInvariant
<1>5. QED
  BY <1>3, <1>4

\* and those of the kernel.
LEMMA TasksFollow ==
  ASSUME ChannelInvariant, q' = q, call' = call, answer' = None
  PROVE  Follows /\ CallTypes'
<1>1. CallTypes'
  BY DEF ChannelInvariant, CallTypes
<1>2. QED
  BY <1>1, NothingMoves DEF ToldNothingNew

\* Every step is one of the channel.
LEMMA EveryStepFollows ==
  ASSUME ChannelInvariant, QueuesNext
  PROVE  Follows /\ CallTypes'
<1>1. CASE TaskStep
  BY <1>1, TasksFollow DEF TaskStep, TellsNobody
<1>2. CASE InterruptStep
  BY <1>2, InterruptsFollow DEF InterruptStep
<1>3. ASSUME NEW t \in Task, QueueStep(t)
      PROVE  Follows /\ CallTypes'
  <2>1. CASE CallsSend(t) \/ CallsGive(t) \/ CallsReceive(t) \/ CallsPeek(t)
    BY <2>1, CallsFollow
  <2>2. CASE TakesRecursive(t) \/ GivesRecursive(t)
    BY <2>2, RecursiveFollows
  <2>3. CASE TrySend(t)
    BY <2>3, TrySendFollows
  <2>4. CASE TryReceive(t)
    BY <2>4, TryReceiveFollows
  <2>5. CASE TryPeek(t)
    BY <2>5, TryPeekFollows
  <2>6. CASE Suspends(t) \/ Looks(t) \/ Places1(t) \/ YieldsInCall(t)
    BY <2>6, StepsFollow
  <2>7. CASE Locks(t)
    BY <2>7, LocksFollows
  <2>8. CASE UnlocksTx(t) \/ UnlocksRx(t)
    BY <2>8, UnlocksFollow
  <2>9. CASE Resumes(t)
    BY <2>9, ResumesFollows
  <2>10. CASE BlocksAlternative(t)
    BY <2>10, BlocksFollows
  <2>11. QED
    BY <1>3, <2>1, <2>2, <2>3, <2>4, <2>5, <2>6, <2>7, <2>8, <2>9, <2>10
    DEF QueueStep, CallStep
<1>4. QED
  BY <1>1, <1>2, <1>3 DEF QueuesNext

\* What follows the channel keeps the invariant.
LEMMA FollowsKeeps ==
  ASSUME ChannelInvariant, Follows, CallTypes'
  PROVE  ChannelInvariant'
BY DEF ChannelInvariant, Follows, QueueTypes, CallTypes

\* The new queue is empty, but for a mutex, which can be taken.
LEMMA QueueBegins ==
  ASSUME QueuesInit
  PROVE  ChannelInvariant /\ C!Init
<1> DEFINE n == IF program.kind \in Mutexes THEN 1 ELSE 0
<1>1. /\ program.kind \in Kinds /\ n \in 0 .. 1 /\ Length \in Nat \ {0}
      /\ q = NewQueue(program.kind, n) /\ call = [t \in Task |-> NoCall] /\ answer = None
  BY QueuesAssumption DEF QueuesInit, Kinds
<1>2. /\ q \in Queues /\ q.count = n /\ q.kind = program.kind
      /\ q.length = IF q.kind \in Mutexes THEN 1 ELSE Length
      /\ q.read = Length - 1 /\ q.write = 0
  BY <1>1 DEF NewQueue, Queues, Index, Unlocked
<1>3. q.count <= q.length
  BY <1>1, <1>2
<1>4. Ring(q)
  <2>1. ASSUME q.kind = "queue"
        PROVE  IsRing(q.read, q.count, q.write)
    <3>1. q.count = 0
      BY <1>2, <2>1 DEF Mutexes
    <3>2. Wrapped(Length - 1 + 1, Length) = 0
      BY <1>1, SlotAfter DEF Index
    <3>3. Wrapped(Wrapped(Length - 1 + 1, Length) + 0, Length) = 0
      BY <1>1, <3>2, SlotAfter DEF Index
    <3>4. QED
      BY <1>2, <3>1, <3>3 DEF IsRing
  <2>2. QED
    BY <2>1 DEF Ring
<1>5. CallTypes
  BY <1>1, NoCallCarried DEF CallTypes, Carried
<1>6. ChannelInvariant
  BY <1>2, <1>3, <1>4, <1>5 DEF ChannelInvariant, QueueTypes, CallTypes
<1>7. C!Init
  <2>1. Contents \in Seq(Item \cup {None})
    BY <1>2, HeldFacts, ContentsHeld
  <2>2. q.length \in Nat
    BY <1>1, <1>2
  <2>3. QED
    BY <1>1, <2>1, <2>2 DEF C!Init
<1>8. QED
  BY <1>6, <1>7

\* However the tasks and interrupts interleave, the queue is a channel.
THEOREM QueueIsChannel == QueuesSpec => ImplementsChannel
<1>1. ASSUME ChannelInvariant, [QueuesNext]_qvars
      PROVE  ChannelInvariant' /\ [C!Next]_C!vars
  <2>1. CASE QueuesNext
    <3>1. Follows /\ CallTypes'
      BY <1>1, <2>1, EveryStepFollows
    <3>2. QED
      BY <1>1, <3>1, FollowsKeeps DEF Follows
  <2>2. CASE UNCHANGED qvars
    <3>1. q' = q /\ call' = call /\ answer' = answer
      BY <2>2 DEF qvars
    <3>2. ChannelInvariant'
      BY <1>1, <3>1 DEF ChannelInvariant, QueueTypes, CallTypes
    <3>3. Contents' = Contents
      BY <3>1, ContentsHeld
    <3>4. UNCHANGED C!vars
      BY <3>1, <3>3 DEF C!vars
    <3>5. QED
      BY <3>2, <3>4
  <2>3. QED
    BY <1>1, <2>1, <2>2
<1>2. QED
  BY <1>1, QueueBegins, PTL DEF QueuesSpec, ImplementsChannel, C!Spec

-----------------------------------------------------------------------------
(* The kernel while tasks are inside a call                                  *)

\* Where a task can be, and the steps of a call.
Spots   == {"nowhere", "task", "delay", "yield", "call"}
Inside  == {"lock", "look", "place", "unlockTx", "unlockRx", "resume"}
Resting1 == {"suspend", "lock", "look", "place", "block", "yield"}
After   == {"unlockTx", "unlockRx", "resume", "yield", "try"}
Steps   == Inside \cup {"none", "try", "suspend", "block", "yield"}

AllCalls ==
  [op : {"none", "send", "receive", "peek"}, step : Steps, item : Item \cup {None},
   front : BOOLEAN, ticks : 0 .. MaxDelay, asked : 0 .. MaxDelay, entered : BOOLEAN,
   time : 0 .. MaxDelay, overflows : 0 .. Overflows - 1]

\* t is in a call, at one of the steps.
InCall(a, c, t, steps) == a[t] = "call" /\ c[t].step \in steps

\* t has suspended the scheduler.
Holding(a, c, t) == a[t] = "delay" \/ InCall(a, c, t, Inside)

\* How the place of u, its call, and the lists it is in agree.
Standing(m, a, c, H, u) ==
  /\ a[u] = "nowhere" <=> H[u] = "none"
  /\ H[u] # "terminated"
  /\ H[u] = "suspended" => a[u] = "call"
  /\ Holding(a, c, u) <=> m.locks = 1 /\ m.current = u
  /\ a[u] = "call" <=> c[u].op # "none"
  /\ c[u].op = "none" => c[u] = NoCall
  /\ c[u].op # "none" => c[u].step # "none"
  /\ \A e \in EventList : Contains(m.waiting[e], u) => ListOf(c[u].op) = e
  /\ Waits(m, u) \/ Contains(m.pending, u) =>
       c[u].op # "none" /\ c[u].step \in After /\ c[u].ticks # 0
  /\ Waits(m, u) => ~Contains(m.pending, u)
  /\ a[u] = "call" => (H[u] = "ready" <=> ~Waits(m, u) /\ ~Contains(m.pending, u))
  /\ c[u].step \in Resting1 => c[u].ticks # 0

\* The current task is ready, unless it is about to yield.
AtWork(m, a, c, H) ==
  \/ a[m.current] \in {"delay", "yield"} \/ InCall(a, c, m.current, After \ {"try"})
  \/ H[m.current] = "ready"

\* The kernel between two steps, before and after the scheduler starts.
Working(m, a, c, H) ==
  /\ m.item = m.prio /\ m.missed <= MaxMissed
  /\ m.locks = 0 => m.pending = <<>> /\ m.missed = 0
  /\ m.locks = 1 => m.running
  /\ m.running => /\ m.current \in Task /\ H[Idle] = "ready" /\ a[Idle] = "task"
                  /\ AtWork(m, a, c, H)
  /\ ~m.running => /\ m.tick = 0 /\ m.locks = 0 /\ H[Idle] = "none"
                   /\ m.current = None \/ H[m.current] = "ready"
                   /\ \A t \in Task : H[t] \in {"none", "ready"} /\ a[t] \in {"nowhere", "task"}

\* Who owns a mutex.
Owned(c, r) ==
  r.kind \in Mutexes =>
    /\ r.length = 1 /\ (r.holder = None <=> r.count = 1)
    /\ r.rxLock <= 0 /\ r.txLock <= 0
    /\ \A t \in Task : /\ c[t].op = "send" => r.holder = t /\ c[t].step = "try"
                       /\ c[t].op = "receive" => r.holder # t
                       /\ c[t].op # "peek"
                       /\ c[t].step = "place" => r.count = 0

Latches == {"look", "place", "unlockTx"}

\* A queue is locked by the call that is between prvLockQueue and prvUnlockQueue.
Latched(a, c, r) ==
  /\ r.txLock >= -1 /\ r.rxLock >= -1
  /\ r.txLock # Unlocked <=> \E t \in Task : InCall(a, c, t, Latches)
  /\ r.rxLock # Unlocked <=> \E t \in Task : InCall(a, c, t, Latches \cup {"unlockRx"})

\* Kernel, tasks and queue agree, with every task in the list that H says.
Frame(m, a, c, r, H) ==
  /\ Good(m, H) /\ Times(m, H) /\ a \in [Task -> Spots] /\ c \in [Task -> AllCalls]
  /\ Working(m, a, c, H) /\ \A u \in Task : Standing(m, a, c, H, u)
  /\ Owned(c, r) /\ Latched(a, c, r)

-----------------------------------------------------------------------------
\* What a step that counts n ticks does to a task that it is not about.
Onward(K, H, k1, H1, u, n) ==
  /\ \A e \in EventList : Contains(k1.waiting[e], u) => Contains(K.waiting[e], u)
  /\ H1[u] = "none" <=> H[u] = "none"
  /\ H1[u] = "terminated" <=> H[u] = "terminated"
  /\ H1[u] = "suspended" => H[u] = "suspended"
  /\ H[u] = "ready" => H1[u] = "ready"
  /\ Contains(k1.pending, u) => (Waits(K, u) \/ Contains(K.pending, u)) /\ ~Waits(k1, u)
  /\ Waits(K, u) \/ Contains(K.pending, u) =>
       (H1[u] = "ready" <=> ~Waits(k1, u) /\ ~Contains(k1.pending, u))
  /\ H1[u] \in Asleep => H[u] \in Asleep /\ Rest(k1, H1, u) = Rest(K, H, u) - n

\* Who is freed or sleeps on goes onward.
LEMMA FreesOnward ==
  ASSUME NEW K, NEW H, NEW k1, NEW H1, NEW n, Frees(K, H, k1, H1), SleepsOn(K, H, k1, H1, n)
  PROVE  \A u \in Task : Onward(K, H, k1, H1, u, n)
BY DEF Frees, SleepsOn, Onward

\* Who is not moved at all.
LEMMA StaysOnward ==
  ASSUME NEW K, NEW H, Good(K, H), Times(K, H), Apart(K, H), NEW k1, NEW H1, NEW u \in Task,
         \A e \in EventList : Contains(k1.waiting[e], u) <=> Contains(K.waiting[e], u),
         Contains(k1.pending, u) <=> Contains(K.pending, u), H1[u] = H[u],
         H[u] \in Asleep => k1.wake[u] = K.wake[u], k1.tick = K.tick
  PROVE  Onward(K, H, k1, H1, u, 0)
<1>1. Waits(k1, u) <=> Waits(K, u)
  BY DEF Waits
<1>2. Waits(K, u) \/ Contains(K.pending, u) => H[u] # "ready"
  BY DEF Apart, Good, Stopped
<1>3. Waits(K, u) => ~Contains(K.pending, u)
  BY DEF Apart
<1>4. H[u] \in Asleep => Rest(k1, H1, u) = Rest(K, H, u) - 0
  <2>1. Rest(K, H, u) \in Int
    BY RestFacts, Numbers
  <2>2. H[u] \in Asleep => Rest(k1, H1, u) = Rest(K, H, u)
    BY RestAlike
  <2>3. QED
    BY <2>1, <2>2
<1>5. QED
  BY <1>1, <1>2, <1>3, <1>4 DEF Onward

\* Who waits stands apart.
LEMMA StandingApart ==
  ASSUME NEW m, NEW a, NEW c, NEW H, Good(m, H), \A u \in Task : Standing(m, a, c, H, u)
  PROVE  Apart(m, H)
<1>1. ASSUME NEW u \in Task, Waits(m, u)
      PROVE  H[u] \in Stopped /\ ~Contains(m.pending, u)
  <2>1. /\ H[u] \in Places /\ H[u] # "terminated" /\ ~Contains(m.pending, u)
        /\ a[u] = "call" /\ H[u] # "ready" /\ H[u] # "none"
    BY <1>1 DEF Standing, Good
  <2>2. QED
    BY <2>1 DEF Places, Stopped
<1>2. ASSUME NEW u \in Task, NEW e \in EventList, NEW f \in EventList,
             Contains(m.waiting[e], u), Contains(m.waiting[f], u)
      PROVE  e = f
  <2>1. ListOf(c[u].op) = e /\ ListOf(c[u].op) = f
    BY <1>2 DEF Standing
  <2>2. QED
    BY <2>1
<1>3. QED
  BY <1>1, <1>2 DEF Apart

\* c1 is a call that has gone on from c.
Proceeds(c, c1) ==
  \/ c1 = c
  \/ /\ c.op # "none" /\ c1.op = c.op /\ c1.ticks = c.ticks
     /\ c1.step # "none" /\ (c.step \in After => c1.step \in After)
     /\ c1.step \in Resting1 => c.ticks # 0

\* A task that goes onward, in its own code or its call, stands as before.
LEMMA StandingOn ==
  ASSUME NEW m, NEW a, NEW c, NEW H, NEW m1, NEW a1, NEW c1, NEW H1, NEW u \in Task, NEW n,
         Standing(m, a, c, H, u), Onward(m, H, m1, H1, u, n),
         a1[u] = a[u] \/ (a[u] # "call" /\ a1[u] \notin {"call", "nowhere"} /\ H[u] # "none"),
         Proceeds(c[u], c1[u]),
         Holding(a1, c1, u) <=> m1.locks = 1 /\ m1.current = u
  PROVE  Standing(m1, a1, c1, H1, u)
<1>1. Waits(m1, u) => Waits(m, u)
  BY DEF Onward, Waits
<1>2. c1[u].op = c[u].op /\ c1[u].ticks = c[u].ticks
  BY DEF Proceeds
<1>3. \A e \in EventList : Contains(m1.waiting[e], u) => ListOf(c1[u].op) = e
  BY <1>2 DEF Onward, Standing
<1>4. Waits(m1, u) \/ Contains(m1.pending, u) => Waits(m, u) \/ Contains(m.pending, u)
  BY <1>1 DEF Onward
<1>5. Waits(m1, u) \/ Contains(m1.pending, u) =>
        c1[u].op # "none" /\ c1[u].step \in After /\ c1[u].ticks # 0
  BY <1>2, <1>4 DEF Standing, Proceeds
<1>6. a1[u] = "call" => (H1[u] = "ready" <=> ~Waits(m1, u) /\ ~Contains(m1.pending, u))
  <2>1. CASE Waits(m, u) \/ Contains(m.pending, u)
    BY <2>1 DEF Onward
  <2>2. CASE ~(Waits(m, u) \/ Contains(m.pending, u))
    BY <1>4, <2>2 DEF Onward, Standing
  <2>3. QED
    BY <2>1, <2>2
<1>7. /\ a1[u] = "nowhere" <=> H1[u] = "none"
      /\ H1[u] # "terminated"
      /\ H1[u] = "suspended" => a1[u] = "call"
      /\ a1[u] = "call" <=> c1[u].op # "none"
  BY <1>2 DEF Standing, Onward
<1>8. /\ c1[u].op = "none" => c1[u] = NoCall
      /\ c1[u].op # "none" => c1[u].step # "none"
      /\ c1[u].step \in Resting1 => c1[u].ticks # 0
  BY <1>2 DEF Standing, Proceeds
<1>9. Waits(m1, u) => ~Contains(m1.pending, u)
  BY DEF Onward
<1>10. QED
  BY <1>3, <1>5, <1>6, <1>7, <1>8, <1>9 DEF Standing

\* A task that runs on.
LEMMA StandingFree ==
  ASSUME NEW m, NEW a, NEW c, NEW H, NEW u \in Task, H[u] = "ready",
         ~Waits(m, u), ~Contains(m.pending, u), a[u] # "nowhere",
         Holding(a, c, u) <=> m.locks = 1 /\ m.current = u,
         a[u] = "call" <=> c[u].op # "none", c[u].op = "none" => c[u] = NoCall,
         c[u].op # "none" => c[u].step # "none", c[u].step \in Resting1 => c[u].ticks # 0
  PROVE  Standing(m, a, c, H, u)
BY DEF Standing, Waits

-----------------------------------------------------------------------------
\* They agree now.
Frames(H) == Frame(k, at, call, q, H)

\* What the frame says once the scheduler runs.
LEMMA FrameFacts ==
  ASSUME NEW H, Frames(H), k.running
  PROVE  /\ Good(k, H) /\ Times(k, H) /\ Apart(k, H)
         /\ k.current \in Task /\ k.item = k.prio /\ k.missed <= MaxMissed
         /\ k.locks = 0 => k.pending = <<>> /\ k.missed = 0
         /\ H[Idle] = "ready" /\ at[Idle] = "task" /\ Idle \in Task
         /\ at \in [Task -> Spots] /\ call \in [Task -> AllCalls]
         /\ AtWork(k, at, call, H)
         /\ \A u \in Task : Standing(k, at, call, H, u)
         /\ k.locks \in {0, 1} /\ k.missed \in Nat /\ k \in Kernels /\ H \in [Task -> Places]
<1>1. Good(k, H) /\ \A u \in Task : Standing(k, at, call, H, u)
  BY DEF Frames, Frame
<1>2. Apart(k, H)
  BY <1>1, StandingApart
<1>3. k \in Kernels /\ H \in [Task -> Places]
  BY <1>1 DEF Good
<1>4. k.locks \in {0, 1} /\ k.missed \in Nat
  BY <1>3 DEF Kernels
<1>5. QED
  BY <1>1, <1>2, <1>3, <1>4, KernelAssumption DEF Frames, Frame, Working

\* The step of a task that is at work, n ticks being counted.
Turns(H, t, n, H1) ==
  /\ Frame(k', at', call', q', H1) /\ H1 \in [Task -> Places]
  /\ \A u \in Task \ {t} : Onward(k, H, k', H1, u, n) /\ at'[u] = at[u] /\ call'[u] = call[u]
  /\ n \in 0 .. MaxDelay /\ Counts(k, k', n)
  /\ k'.locks = 1 => n = 0

\* A step of the current task keeps the frame.
LEMMA FrameOn ==
  ASSUME NEW H, Frames(H), k.running, NEW t \in Task \ {Idle}, k.current = t,
         NEW n \in 0 .. MaxDelay, Counts(k, k', n), k'.locks = 1 => n = 0,
         NEW H1 \in [Task -> Places], Good(k', H1), Times(k', H1),
         \A u \in Task \ {t} : Onward(k, H, k', H1, u, n),
         at' \in [Task -> Spots], call' \in [Task -> AllCalls],
         \A u \in Task \ {t} : at'[u] = at[u] /\ call'[u] = call[u],
         k'.running, k'.item = k'.prio, k'.missed <= MaxMissed,
         k'.locks = 0 => k'.pending = <<>> /\ k'.missed = 0,
         k'.current \in Task, k'.locks = 0 \/ k'.current = t,
         IF k'.current = t THEN AtWork(k', at', call', H1) ELSE H1[k'.current] = "ready",
         Standing(k', at', call', H1, t), Owned(call', q'), Latched(at', call', q')
  PROVE  Turns(H, t, n, H1)
<1>1. k'.locks \in {0, 1} /\ k.locks \in {0, 1}
  <2>1. k' \in Kernels /\ k \in Kernels
    BY FrameFacts DEF Good
  <2>2. QED
    BY <2>1 DEF Kernels
<1>2. ASSUME NEW u \in Task \ {t}
      PROVE  Standing(k', at', call', H1, u)
  <2>1. Standing(k, at, call, H, u)
    BY DEF Frames, Frame
  <2>2. Holding(at', call', u) <=> k'.locks = 1 /\ k'.current = u
    BY <1>1, <2>1 DEF Holding, InCall, Standing
  <2>3. Proceeds(call[u], call'[u])
    BY DEF Proceeds
  <2>4. QED
    BY <2>1, <2>2, <2>3, StandingOn
<1>3. Working(k', at', call', H1)
  <2>1. Idle \in Task \ {t} /\ H[Idle] = "ready" /\ at[Idle] = "task"
    BY FrameFacts
  <2>2. H1[Idle] = "ready" /\ at'[Idle] = "task"
    BY <2>1 DEF Onward
  <2>3. AtWork(k', at', call', H1)
    BY DEF AtWork
  <2>4. QED
    BY <2>2, <2>3 DEF Working
<1>4. Frame(k', at', call', q', H1)
  BY <1>2, <1>3 DEF Frame
<1>5. QED
  BY <1>4 DEF Turns

\* An interrupt, which no task takes part in.
Interrupts(H, n, H1) ==
  /\ Frame(k', at', call', q', H1) /\ H1 \in [Task -> Places]
  /\ \A u \in Task : Onward(k, H, k', H1, u, n) /\ at'[u] = at[u] /\ call'[u] = call[u]
  /\ n \in 0 .. MaxDelay /\ Counts(k, k', n)
  /\ k'.locks = 1 => n = 0

\* An interrupt does.
LEMMA FrameInterrupted ==
  ASSUME NEW H, Frames(H), k.running,
         NEW n \in 0 .. MaxDelay, Counts(k, k', n), k'.locks = 1 => n = 0,
         NEW H1 \in [Task -> Places], Good(k', H1), Times(k', H1),
         \A u \in Task : Onward(k, H, k', H1, u, n),
         at' = at, call' = call,
         k'.running, k'.item = k'.prio, k'.missed <= MaxMissed,
         k'.locks = 0 => k'.pending = <<>> /\ k'.missed = 0,
         k'.current \in Task, k'.locks = k.locks, k.locks = 1 => k'.current = k.current,
         k'.current = k.current \/ H1[k'.current] = "ready",
         Owned(call', q'), Latched(at', call', q')
  PROVE  Interrupts(H, n, H1)
<1>1. ASSUME NEW u \in Task
      PROVE  Standing(k', at', call', H1, u)
  <2>1. Standing(k, at, call, H, u)
    BY DEF Frames, Frame
  <2>2. Holding(at', call', u) <=> k'.locks = 1 /\ k'.current = u
    BY <2>1 DEF Holding, InCall, Standing
  <2>3. Proceeds(call[u], call'[u])
    BY DEF Proceeds
  <2>4. QED
    BY <2>1, <2>2, <2>3, StandingOn
<1>2. Working(k', at', call', H1)
  <2>1. Idle \in Task /\ H[Idle] = "ready" /\ at[Idle] = "task" /\ AtWork(k, at, call, H)
    BY FrameFacts
  <2>2. H1[Idle] = "ready" /\ at'[Idle] = "task"
    BY <2>1 DEF Onward
  <2>3. AtWork(k', at', call', H1)
    <3>1. k.current \in Task
      BY FrameFacts
    <3>2. CASE k'.current = k.current
      BY <2>1, <3>1, <3>2 DEF AtWork, InCall, Onward
    <3>3. CASE H1[k'.current] = "ready"
      BY <3>3 DEF AtWork
    <3>4. QED
      BY <3>2, <3>3
  <2>4. QED
    BY <2>2, <2>3 DEF Working
<1>3. at \in [Task -> Spots] /\ call \in [Task -> AllCalls]
  BY FrameFacts
<1>4. Frame(k', at', call', q', H1)
  BY <1>1, <1>2, <1>3 DEF Frame
<1>5. QED
  BY <1>4 DEF Interrupts

-----------------------------------------------------------------------------
\* The lock of the queue follows the calls that are inside.
LEMMA LatchedOn ==
  ASSUME NEW a, NEW c, NEW r, NEW a1, NEW c1, NEW r1, Latched(a, c, r),
         \A u \in Task : InCall(a1, c1, u, Latches) <=> InCall(a, c, u, Latches),
         \A u \in Task : InCall(a1, c1, u, Latches \cup {"unlockRx"})
                           <=> InCall(a, c, u, Latches \cup {"unlockRx"}),
         r1.txLock >= -1, r1.rxLock >= -1,
         r1.txLock = Unlocked <=> r.txLock = Unlocked,
         r1.rxLock = Unlocked <=> r.rxLock = Unlocked
  PROVE  Latched(a1, c1, r1)
BY DEF Latched

\* The locks say where the only task inside is.
LEMMA LatchedBy ==
  ASSUME NEW a1, NEW c1, NEW r1, NEW t \in Task,
         \A u \in Task \ {t} : ~InCall(a1, c1, u, Inside),
         r1.txLock >= -1, r1.rxLock >= -1,
         r1.txLock # Unlocked <=> InCall(a1, c1, t, Latches),
         r1.rxLock # Unlocked <=> InCall(a1, c1, t, Latches \cup {"unlockRx"})
  PROVE  Latched(a1, c1, r1)
BY DEF Latched, InCall, Latches, Inside

\* The others do not hold the scheduler while t runs.
LEMMA OthersOutside ==
  ASSUME NEW H, Frames(H), k.running, NEW t \in Task, k.current = t
  PROVE  \A u \in Task \ {t} : ~Holding(at, call, u) /\ ~InCall(at, call, u, Inside)
BY FrameFacts DEF Standing, Holding

-----------------------------------------------------------------------------
(* Calls begin                                                               *)

\* A step of the current task that leaves the kernel alone.
LEMMA FrameStays ==
  ASSUME NEW H, Frames(H), k.running, NEW t \in Task \ {Idle}, k.current = t, k' = k,
         at' \in [Task -> Spots], call' \in [Task -> AllCalls],
         \A u \in Task \ {t} : at'[u] = at[u] /\ call'[u] = call[u],
         AtWork(k, at', call', H), Standing(k, at', call', H, t),
         Owned(call', q'), Latched(at', call', q')
  PROVE  Turns(H, t, 0, H)
<1>1. /\ Good(k, H) /\ Times(k, H) /\ Apart(k, H) /\ k \in Kernels /\ H \in [Task -> Places]
      /\ k.item = k.prio /\ k.missed <= MaxMissed
      /\ k.locks = 0 => k.pending = <<>> /\ k.missed = 0
  BY FrameFacts
<1>2. \A u \in Task \ {t} : Onward(k, H, k', H, u, 0)
  BY <1>1, StaysOnward
<1>3. Counts(k, k', 0) /\ 0 \in 0 .. MaxDelay
  BY <1>1, KernelNumbers, Numbers DEF Counts
<1>4. /\ Good(k', H) /\ Times(k', H) /\ AtWork(k', at', call', H) /\ Standing(k', at', call', H, t)
      /\ k'.current = t /\ k'.running /\ k'.item = k'.prio /\ k'.missed <= MaxMissed
      /\ k'.locks = 0 => k'.pending = <<>> /\ k'.missed = 0
  BY <1>1
<1>5. QED
  BY <1>1, <1>2, <1>3, <1>4, FrameOn

\* t runs its own code.
LEMMA InOwnCode ==
  ASSUME NEW H, Frames(H), NEW t \in Task, Runs(t, "task")
  PROVE  /\ k.running /\ k.current = t /\ k.locks = 0 /\ H[t] = "ready"
         /\ ~Waits(k, t) /\ ~Contains(k.pending, t)
         /\ call[t] = NoCall /\ call[t].op = "none" /\ at[t] = "task"
<1>1. k.running /\ k.current = t /\ at[t] = "task"
  BY DEF Runs
<1>2. Standing(k, at, call, H, t) /\ AtWork(k, at, call, H) /\ k.locks \in {0, 1}
  BY <1>1, FrameFacts
<1>3. H[t] = "ready"
  BY <1>1, <1>2 DEF AtWork, InCall
<1>4. k.locks = 0
  BY <1>1, <1>2 DEF Standing, Holding, InCall
<1>5. QED
  BY <1>1, <1>2, <1>3, <1>4 DEF Standing

\* t is in a call, before it has placed itself on an event list.
LEMMA InTheCall ==
  ASSUME NEW H, Frames(H), NEW t \in Task, NEW op, NEW step, Is(t, op, step)
  PROVE  /\ k.running /\ k.current = t /\ at[t] = "call" /\ t # Idle
         /\ call[t].op \in op /\ call[t].step = step /\ call[t].op # "none"
         /\ step \notin After \ {"try"} => H[t] = "ready" /\ ~Waits(k, t) /\ ~Contains(k.pending, t)
         /\ step \in Inside <=> k.locks = 1
         /\ step \in Resting1 => call[t].ticks # 0
<1>1. k.running /\ k.current = t /\ at[t] = "call" /\ call[t].op \in op /\ call[t].step = step
  BY DEF Is, Runs
<1>2. Standing(k, at, call, H, t) /\ AtWork(k, at, call, H) /\ at[Idle] = "task" /\ k.locks \in {0, 1}
  BY <1>1, FrameFacts
<1>3. step \notin After \ {"try"} => H[t] = "ready"
  BY <1>1, <1>2 DEF AtWork, InCall
<1>4. step \in Inside <=> k.locks = 1
  BY <1>1, <1>2 DEF Standing, Holding, InCall
<1>5. QED
  BY <1>1, <1>2, <1>3, <1>4 DEF Standing

\* A call that begins.
Fresh(op, x, f, n) ==
  [NoCall EXCEPT !.op = op, !.step = "try", !.item = x, !.front = f, !.ticks = n, !.asked = n]

\* The fields of no call, and of one that begins.
LEMMA NoCallTypes ==
  /\ NoCall \in AllCalls /\ NoCall.op = "none" /\ NoCall.step = "none" /\ NoCall.ticks = 0
  /\ NoCall.entered = FALSE /\ NoCall.asked = 0
  /\ \A op \in {"send", "receive", "peek"}, x \in Item \cup {None}, f \in BOOLEAN, n \in 0 .. MaxDelay :
       /\ Fresh(op, x, f, n) \in AllCalls /\ Fresh(op, x, f, n).op = op
       /\ Fresh(op, x, f, n).step = "try" /\ Fresh(op, x, f, n).ticks = n
       /\ Fresh(op, x, f, n).asked = n /\ Fresh(op, x, f, n).entered = FALSE
  /\ LET c == [NoCall EXCEPT !.op = "send", !.step = "try"] IN
       /\ c \in AllCalls /\ c.op = "send" /\ c.step = "try" /\ c.ticks = 0 /\ c.asked = 0
       /\ c.entered = FALSE
<1>1. /\ NoCall \in AllCalls /\ NoCall.op = "none" /\ NoCall.step = "none" /\ NoCall.ticks = 0
      /\ NoCall.entered = FALSE /\ NoCall.asked = 0
  BY Numbers DEF NoCall, AllCalls, Steps, Inside
<1>2. ASSUME NEW op \in {"send", "receive", "peek"}, NEW x \in Item \cup {None},
             NEW f \in BOOLEAN, NEW n \in 0 .. MaxDelay
      PROVE  /\ Fresh(op, x, f, n) \in AllCalls /\ Fresh(op, x, f, n).op = op
             /\ Fresh(op, x, f, n).step = "try" /\ Fresh(op, x, f, n).ticks = n
             /\ Fresh(op, x, f, n).asked = n /\ Fresh(op, x, f, n).entered = FALSE
  BY <1>1 DEF AllCalls, Steps, Inside, Fresh
<1>3. LET c == [NoCall EXCEPT !.op = "send", !.step = "try"] IN
       /\ c \in AllCalls /\ c.op = "send" /\ c.step = "try" /\ c.ticks = 0 /\ c.asked = 0
       /\ c.entered = FALSE
  BY <1>1 DEF AllCalls, Steps, Inside
<1>4. QED
  BY <1>1, <1>2, <1>3

-----------------------------------------------------------------------------
\* A call that begins.
Starts(t) ==
  /\ call'[t].step = "try" /\ call'[t].op \in {"send", "receive", "peek"} /\ ~call'[t].entered
  /\ call'[t].ticks = call'[t].asked

\* A call begins:
LEMMA StartsFrame ==
  ASSUME NEW H, Frames(H), NEW t \in Task \ {Idle}, Runs(t, "task"), NEW c \in AllCalls,
         k' = k, at' = [at EXCEPT ![t] = "call"], call' = [call EXCEPT ![t] = c],
         c.step = "try", c.op \in {"send", "receive", "peek"}, ~c.entered, c.ticks = c.asked,
         q'.kind = q.kind, q'.length = q.length, q'.holder = q.holder, q'.count = q.count,
         q'.txLock = q.txLock, q'.rxLock = q.rxLock,
         q.kind \in Mutexes =>
           c.op # "peek" /\ (c.op = "send" => q.holder = t) /\ (c.op = "receive" => q.holder # t)
  PROVE  Turns(H, t, 0, H) /\ Starts(t)
<1>1. /\ k.running /\ k.current = t /\ k.locks = 0 /\ H[t] = "ready"
      /\ ~Waits(k, t) /\ ~Contains(k.pending, t)
      /\ call[t] = NoCall /\ call[t].op = "none" /\ at[t] = "task"
  BY InOwnCode
<1>2. /\ at \in [Task -> Spots] /\ call \in [Task -> AllCalls]
  BY <1>1, FrameFacts
<1>3. /\ at' \in [Task -> Spots] /\ call' \in [Task -> AllCalls]
      /\ at'[t] = "call" /\ call'[t] = c
      /\ \A u \in Task \ {t} : at'[u] = at[u] /\ call'[u] = call[u]
  BY <1>2 DEF Spots
<1>4. Standing(k, at', call', H, t)
  <2>1. ~Holding(at', call', t)
    BY <1>3 DEF Holding, InCall, Inside
  <2>2. c.op # "none" /\ c.step \notin Resting1
    BY DEF Resting1
  <2>3. /\ ~(k.locks = 1 /\ k.current = t) /\ at'[t] # "nowhere" /\ call'[t].op # "none"
        /\ call'[t].step # "none" /\ call'[t].step \notin Resting1 /\ at'[t] = "call"
    BY <1>1, <1>3, <2>2
  <2>4. QED
    BY <1>1, <2>1, <2>3, StandingFree
<1>5. AtWork(k, at', call', H)
  BY <1>1 DEF AtWork
<1>6. \A u \in Task : InCall(at', call', u, Inside) <=> InCall(at, call, u, Inside)
  BY <1>1, <1>3 DEF InCall, Inside
<1>7. Latched(at, call, q) /\ Owned(call, q)
  BY DEF Frames, Frame
<1>8. Latched(at', call', q')
  <2>1. \A u \in Task : InCall(at', call', u, Latches) <=> InCall(at, call, u, Latches)
    BY <1>1, <1>3 DEF InCall, Latches
  <2>2. \A u \in Task : InCall(at', call', u, Latches \cup {"unlockRx"})
                          <=> InCall(at, call, u, Latches \cup {"unlockRx"})
    BY <1>1, <1>3 DEF InCall, Latches
  <2>3. q.txLock >= -1 /\ q.rxLock >= -1
    BY <1>7 DEF Latched
  <2>4. QED
    BY <1>7, <2>1, <2>2, <2>3, LatchedOn
<1>9. Owned(call', q')
  <2>1. SUFFICES ASSUME q.kind \in Mutexes
                 PROVE  Owned(call', q')
    BY DEF Owned
  <2>2. ASSUME NEW u \in Task
        PROVE  /\ call'[u].op = "send" => q.holder = u /\ call'[u].step = "try"
               /\ call'[u].op = "receive" => q.holder # u
               /\ call'[u].op # "peek"
               /\ call'[u].step = "place" => q.count = 0
    <3>1. CASE u = t
      BY <1>3, <2>1, <3>1
    <3>2. CASE u # t
      BY <1>3, <1>7, <2>1, <3>2 DEF Owned
    <3>3. QED
      BY <3>1, <3>2
  <2>3. QED
    BY <1>7, <2>1, <2>2 DEF Owned
<1>10. QED
  BY <1>1, <1>3, <1>4, <1>5, <1>8, <1>9, FrameStays DEF Starts

\* Which calls begin, and how.
LEMMA BeginsFrame ==
  ASSUME NEW H, Frames(H), NEW t \in Task, Calls(t), NEW op \in {"send", "receive", "peek"},
         NEW x \in Item \cup {None}, NEW f \in BOOLEAN, NEW n \in 0 .. MaxDelay,
         Begins(t, op, x, f, n),
         q.kind \in Mutexes =>
           op # "peek" /\ (op = "send" => q.holder = t) /\ (op = "receive" => q.holder # t)
  PROVE  Turns(H, t, 0, H) /\ Starts(t)
<1> DEFINE c == Fresh(op, x, f, n)
<1>1. /\ c \in AllCalls /\ c.op = op /\ c.step = "try" /\ c.ticks = n /\ c.asked = n
      /\ c.entered = FALSE
  BY ONLY NoCallTypes, op \in {"send", "receive", "peek"}, x \in Item \cup {None},
          f \in BOOLEAN, n \in 0 .. MaxDelay DEF c
<1>2. /\ k' = k /\ at' = [at EXCEPT ![t] = "call"] /\ call' = [call EXCEPT ![t] = c] /\ q' = q
  BY DEF Begins, GoesTo, Fresh
<1>3. t \in Task \ {Idle} /\ Runs(t, "task")
  BY DEF Calls
<1> HIDE DEF c
<1>4. QED
  BY <1>1, <1>2, <1>3, StartsFrame

\* to send, to give, to receive or to peek,
LEMMA CallsFrame ==
  ASSUME NEW H, Frames(H), NEW t \in Task, program \in Programs,
         CallsSend(t) \/ CallsGive(t) \/ CallsReceive(t) \/ CallsPeek(t)
  PROVE  Turns(H, t, 0, H) /\ Starts(t)
<1>1. program.waits \subseteq 0 .. MaxDelay /\ 0 \in 0 .. MaxDelay /\ MaxDelay \in Nat
  BY QueuesAssumption, Numbers
<1>2. "queue" \notin Mutexes /\ (q.kind \in Mutexes => q.kind \in {"mutex", "recursive"})
  BY DEF Mutexes
<1>3. CASE CallsSend(t)
  <2>1. PICK x \in Item, n \in program.waits :
          Begins(t, "send", x, FALSE, n) \/ Begins(t, "send", x, TRUE, n)
    BY <1>3 DEF CallsSend
  <2>2. n \in 0 .. MaxDelay /\ Calls(t) /\ q.kind \notin Mutexes
    BY <1>1, <1>2, <1>3 DEF CallsSend
  <2>3. QED
    BY <2>1, <2>2, BeginsFrame
<1>4. CASE CallsGive(t)
  <2>1. Begins(t, "send", None, FALSE, 0) /\ Calls(t) /\ (q.kind \in Mutexes => q.holder = t)
    BY <1>4 DEF CallsGive, IsMutex
  <2>2. QED
    BY <1>1, <2>1, BeginsFrame
<1>5. CASE CallsReceive(t)
  <2>1. PICK n \in program.waits : Begins(t, "receive", None, FALSE, n)
    BY <1>5 DEF CallsReceive
  <2>2. n \in 0 .. MaxDelay /\ Calls(t) /\ q.holder # t
    BY <1>1, <1>5 DEF CallsReceive
  <2>3. QED
    BY <2>1, <2>2, BeginsFrame
<1>6. CASE CallsPeek(t)
  <2>1. PICK n \in program.waits : Begins(t, "peek", None, FALSE, n)
    BY <1>6 DEF CallsPeek
  <2>2. n \in 0 .. MaxDelay /\ Calls(t) /\ q.kind \notin Mutexes
    BY <1>1, <1>2, <1>6 DEF CallsPeek
  <2>3. QED
    BY <2>1, <2>2, BeginsFrame
<1>7. QED
  BY <1>3, <1>4, <1>5, <1>6

\* A step that changes neither the kernel nor the calls nor who owns the queue.
LEMMA NothingFrame ==
  ASSUME NEW H, Frames(H), NEW t \in Task \ {Idle}, k.running, k.current = t,
         k' = k, at' = at, call' = call,
         q'.kind = q.kind, q'.length = q.length, q'.holder = q.holder, q'.count = q.count,
         q'.txLock = q.txLock, q'.rxLock = q.rxLock
  PROVE  Turns(H, t, 0, H)
<1>1. /\ Standing(k, at, call, H, t) /\ AtWork(k, at, call, H)
      /\ at \in [Task -> Spots] /\ call \in [Task -> AllCalls]
  BY FrameFacts
<1>2. Latched(at', call', q') /\ Owned(call', q')
  BY DEF Frames, Frame, Latched, Owned
<1>3. QED
  BY <1>1, <1>2, FrameStays

\* or to take or give a recursive mutex.
LEMMA RecursiveFrame ==
  ASSUME NEW H, Frames(H), NEW t \in Task, program \in Programs, ChannelInvariant,
         TakesRecursive(t) \/ GivesRecursive(t)
  PROVE  Turns(H, t, 0, H) /\ (Starts(t) \/ (call' = call /\ at' = at))
<1>1. /\ \A d : /\ [q EXCEPT !.depth = d].kind = q.kind /\ [q EXCEPT !.depth = d].length = q.length
                /\ [q EXCEPT !.depth = d].holder = q.holder /\ [q EXCEPT !.depth = d].count = q.count
                /\ [q EXCEPT !.depth = d].txLock = q.txLock /\ [q EXCEPT !.depth = d].rxLock = q.rxLock
  BY DEF ChannelInvariant, QueueTypes, Queues
<1>2. Calls(t) /\ t \in Task \ {Idle} /\ k.running /\ k.current = t /\ Runs(t, "task")
  BY DEF TakesRecursive, GivesRecursive, Calls, Runs
<1>3. CASE TakesRecursive(t)
  <2>1. CASE q.holder = t
    <3>1. q' = [q EXCEPT !.depth = @ + 1] /\ k' = k /\ at' = at /\ call' = call
      BY <1>3, <2>1 DEF TakesRecursive
    <3>2. /\ q'.kind = q.kind /\ q'.length = q.length /\ q'.holder = q.holder /\ q'.count = q.count
          /\ q'.txLock = q.txLock /\ q'.rxLock = q.rxLock
      BY <1>1, <3>1
    <3>3. QED
      BY <1>2, <3>1, <3>2, NothingFrame
  <2>2. CASE q.holder # t
    <3>1. PICK n \in program.waits : Begins(t, "receive", None, FALSE, n)
      BY <1>3, <2>2 DEF TakesRecursive
    <3>2. n \in 0 .. MaxDelay
      BY QueuesAssumption
    <3>3. QED
      BY <1>2, <2>2, <3>1, <3>2, BeginsFrame
  <2>3. QED
    BY <2>1, <2>2
<1>4. CASE GivesRecursive(t)
  <2>1. q' = [q EXCEPT !.depth = @ - 1] /\ q.holder = t
    BY <1>4 DEF GivesRecursive
  <2>2. /\ q'.kind = q.kind /\ q'.length = q.length /\ q'.holder = q.holder /\ q'.count = q.count
        /\ q'.txLock = q.txLock /\ q'.rxLock = q.rxLock
    BY <1>1, <2>1
  <2>3. CASE q.depth = 1
    <3> DEFINE c == [NoCall EXCEPT !.op = "send", !.step = "try"]
    <3>1. /\ c \in AllCalls /\ c.op = "send" /\ c.step = "try" /\ c.ticks = 0 /\ c.asked = 0
          /\ c.entered = FALSE
      BY NoCallTypes
    <3>2. k' = k /\ at' = [at EXCEPT ![t] = "call"] /\ call' = [call EXCEPT ![t] = c]
      BY <1>4, <2>3 DEF GivesRecursive, GoesTo
    <3> HIDE DEF c
    <3>3. QED
      BY <1>2, <2>1, <2>2, <3>1, <3>2, StartsFrame
  <2>4. CASE q.depth # 1
    <3>1. k' = k /\ at' = at /\ call' = call
      BY <1>4, <2>4 DEF GivesRecursive
    <3>2. QED
      BY <1>2, <2>2, <3>1, NothingFrame
  <2>5. QED
    BY <2>3, <2>4
<1>5. QED
  BY <1>3, <1>4

-----------------------------------------------------------------------------
(* Steps of a call that leave the kernel alone                               *)

\* The call of t goes on; nothing else changes in the tasks.
Continues(t, c) ==
  /\ at' = at /\ call' = [call EXCEPT ![t] = c] /\ c \in AllCalls
  /\ c.op = call[t].op /\ c.step # "none"

\* The call of t is over.
Ends(t) == at' = [at EXCEPT ![t] = "task"] /\ call' = [call EXCEPT ![t] = NoCall]

\* What a step in a call leaves,
LEMMA ContinuesFacts ==
  ASSUME NEW H, Frames(H), k.running, NEW t \in Task, NEW c, Continues(t, c)
  PROVE  /\ at' \in [Task -> Spots] /\ call' \in [Task -> AllCalls]
         /\ call'[t] = c /\ at'[t] = at[t]
         /\ \A u \in Task \ {t} : at'[u] = at[u] /\ call'[u] = call[u]
BY FrameFacts DEF Continues

\* and one that ends it.
LEMMA EndsFacts ==
  ASSUME NEW H, Frames(H), k.running, NEW t \in Task, Ends(t)
  PROVE  /\ at' \in [Task -> Spots] /\ call' \in [Task -> AllCalls]
         /\ call'[t] = NoCall /\ at'[t] = "task"
         /\ \A u \in Task \ {t} : at'[u] = at[u] /\ call'[u] = call[u]
<1>1. at \in [Task -> Spots] /\ call \in [Task -> AllCalls] /\ NoCall \in AllCalls
  BY FrameFacts, NoCallTypes
<1>2. "task" \in Spots
  BY DEF Spots
<1>3. QED
  BY <1>1, <1>2 DEF Ends

\* A task whose call is over runs its own code.
LEMMA StandingEnded ==
  ASSUME NEW m, NEW a, NEW c, NEW H, NEW t \in Task, H[t] = "ready",
         ~Waits(m, t), ~Contains(m.pending, t), a[t] = "task", c[t] = NoCall,
         ~(m.locks = 1 /\ m.current = t)
  PROVE  Standing(m, a, c, H, t)
<1>1. /\ c[t].op = "none" /\ c[t].step \notin Resting1 /\ ~Holding(a, c, t)
  BY NoCallTypes DEF Resting1, Holding, InCall
<1>2. QED
  BY <1>1, StandingFree

\* One whose call goes on and who is ready.
LEMMA StandingCalling ==
  ASSUME NEW m, NEW a, NEW c, NEW H, NEW t \in Task, H[t] = "ready",
         ~Waits(m, t), ~Contains(m.pending, t), a[t] = "call", c[t].op # "none",
         c[t].step # "none", c[t].step \in Inside <=> m.locks = 1 /\ m.current = t,
         c[t].step \in Resting1 => c[t].ticks # 0
  PROVE  Standing(m, a, c, H, t)
<1>1. Holding(a, c, t) <=> m.locks = 1 /\ m.current = t
  BY DEF Holding, InCall
<1>2. QED
  BY <1>1, StandingFree

\* The owner of the queue when the call of t goes on.
LEMMA OwnedContinues ==
  ASSUME NEW H, Frames(H), k.running, NEW t \in Task, NEW c, Continues(t, c),
         q'.kind = q.kind, q'.length = q.length, q'.holder = q.holder, q'.count = q.count,
         q.kind \in Mutexes =>
           /\ q'.txLock <= 0 /\ q'.rxLock <= 0
           /\ c.op = "send" => c.step = "try"
           /\ c.step = "place" => q.count = 0
  PROVE  Owned(call', q')
<1>1. call'[t] = c /\ \A u \in Task \ {t} : call'[u] = call[u]
  BY ContinuesFacts
<1>2. Owned(call, q) /\ c.op = call[t].op
  BY DEF Frames, Frame, Continues
<1>3. SUFFICES ASSUME q.kind \in Mutexes
               PROVE  Owned(call', q')
  BY DEF Owned
<1>4. ASSUME NEW u \in Task
      PROVE  /\ call'[u].op = "send" => q.holder = u /\ call'[u].step = "try"
             /\ call'[u].op = "receive" => q.holder # u
             /\ call'[u].op # "peek"
             /\ call'[u].step = "place" => q.count = 0
  <2>1. CASE u = t
    BY <1>1, <1>2, <1>3, <2>1 DEF Owned
  <2>2. CASE u # t
    BY <1>1, <1>2, <1>3, <2>2 DEF Owned
  <2>3. QED
    BY <2>1, <2>2
<1>5. QED
  BY <1>2, <1>3, <1>4 DEF Owned

\* The owner when the call of t is over and the queue is as it was.
LEMMA OwnedEnds ==
  ASSUME NEW H, Frames(H), k.running, NEW t \in Task, Ends(t), q' = q
  PROVE  Owned(call', q')
<1>1. call'[t] = NoCall /\ \A u \in Task \ {t} : call'[u] = call[u]
  BY EndsFacts
<1>2. Owned(call, q) /\ NoCall.op = "none" /\ NoCall.step = "none"
  BY NoCallTypes DEF Frames, Frame
<1>3. SUFFICES ASSUME q.kind \in Mutexes
               PROVE  Owned(call', q')
  BY DEF Owned
<1>4. ASSUME NEW u \in Task
      PROVE  /\ call'[u].op = "send" => q.holder = u /\ call'[u].step = "try"
             /\ call'[u].op = "receive" => q.holder # u
             /\ call'[u].op # "peek"
             /\ call'[u].step = "place" => q.count = 0
  <2>1. CASE u = t
    BY <1>1, <1>2, <1>3, <2>1 DEF Owned
  <2>2. CASE u # t
    BY <1>1, <1>2, <1>3, <2>2 DEF Owned
  <2>3. QED
    BY <2>1, <2>2
<1>5. QED
  BY <1>2, <1>3, <1>4 DEF Owned

\* The lock of the queue when t is neither before nor after inside, or ends its call.
LEMMA LatchedOutside ==
  ASSUME NEW H, Frames(H), k.running, NEW t \in Task, q'.txLock = q.txLock, q'.rxLock = q.rxLock,
         \A u \in Task \ {t} : at'[u] = at[u] /\ call'[u] = call[u],
         ~InCall(at, call, t, Latches \cup {"unlockRx"}),
         ~InCall(at', call', t, Latches \cup {"unlockRx"})
  PROVE  Latched(at', call', q')
<1>1. Latched(at, call, q)
  BY DEF Frames, Frame
<1>2. \A u \in Task : InCall(at', call', u, Latches) <=> InCall(at, call, u, Latches)
  BY DEF InCall
<1>3. \A u \in Task : InCall(at', call', u, Latches \cup {"unlockRx"})
                        <=> InCall(at, call, u, Latches \cup {"unlockRx"})
  BY DEF InCall
<1>4. q.txLock >= -1 /\ q.rxLock >= -1
  BY <1>1 DEF Latched
<1>5. QED
  BY <1>1, <1>2, <1>3, <1>4, LatchedOn

\* The lock of the queue when t is inside.
LEMMA LatchedInside ==
  ASSUME NEW H, Frames(H), k.running, NEW t \in Task, k.current = t,
         \A u \in Task \ {t} : at'[u] = at[u] /\ call'[u] = call[u],
         q'.txLock >= -1, q'.rxLock >= -1,
         q'.txLock # Unlocked <=> InCall(at', call', t, Latches),
         q'.rxLock # Unlocked <=> InCall(at', call', t, Latches \cup {"unlockRx"})
  PROVE  Latched(at', call', q')
<1>1. \A u \in Task \ {t} : ~InCall(at', call', u, Inside)
  BY OthersOutside DEF InCall
<1>2. QED
  BY <1>1, LatchedBy

\* What the lock is when t is inside.
LEMMA LatchOf ==
  ASSUME NEW H, Frames(H), k.running, NEW t \in Task, k.current = t
  PROVE  /\ q.txLock >= -1 /\ q.rxLock >= -1
         /\ q.txLock # Unlocked <=> InCall(at, call, t, Latches)
         /\ q.rxLock # Unlocked <=> InCall(at, call, t, Latches \cup {"unlockRx"})
<1>1. \A u \in Task \ {t} : ~InCall(at, call, u, Inside)
  BY OthersOutside
<1>2. Latched(at, call, q)
  BY DEF Frames, Frame
<1>3. QED
  BY <1>1, <1>2 DEF Latched, InCall, Latches, Inside

-----------------------------------------------------------------------------
\* The call of t, which is ready, goes on, and the kernel stays.
LEMMA GoesFrame ==
  ASSUME NEW H, Frames(H), NEW t \in Task, NEW op, NEW step, Is(t, op, step),
         step \notin After \ {"try"}, k' = k, NEW c, Continues(t, c),
         c.step \in Inside <=> step \in Inside, c.step \in Resting1 => c.ticks # 0,
         Owned(call', q'), Latched(at', call', q')
  PROVE  Turns(H, t, 0, H)
<1>1. /\ k.running /\ k.current = t /\ at[t] = "call" /\ t # Idle
      /\ call[t].op # "none" /\ H[t] = "ready" /\ ~Waits(k, t) /\ ~Contains(k.pending, t)
      /\ step \in Inside <=> k.locks = 1
  BY InTheCall
<1>2. /\ at' \in [Task -> Spots] /\ call' \in [Task -> AllCalls]
      /\ call'[t] = c /\ at'[t] = at[t]
      /\ \A u \in Task \ {t} : at'[u] = at[u] /\ call'[u] = call[u]
  BY <1>1, ContinuesFacts
<1>3. c.op = call[t].op /\ c.step # "none"
  BY DEF Continues
<1>4. AtWork(k, at', call', H)
  BY <1>1 DEF AtWork
<1>5. Standing(k, at', call', H, t)
  BY <1>1, <1>2, <1>3, StandingCalling
<1>6. QED
  BY <1>1, <1>2, <1>4, <1>5, FrameStays

\* The call of t, which is ready, ends, and the kernel stays.
LEMMA EndsFrame ==
  ASSUME NEW H, Frames(H), NEW t \in Task, NEW op, NEW step, Is(t, op, step),
         step \notin After \ {"try"}, step \notin Inside, k' = k, Ends(t), q' = q
  PROVE  Turns(H, t, 0, H)
<1>1. /\ k.running /\ k.current = t /\ at[t] = "call" /\ t # Idle /\ call[t].step = step
      /\ H[t] = "ready" /\ ~Waits(k, t) /\ ~Contains(k.pending, t) /\ k.locks # 1
  BY InTheCall
<1>2. /\ at' \in [Task -> Spots] /\ call' \in [Task -> AllCalls]
      /\ call'[t] = NoCall /\ at'[t] = "task"
      /\ \A u \in Task \ {t} : at'[u] = at[u] /\ call'[u] = call[u]
  BY <1>1, EndsFacts
<1>3. AtWork(k, at', call', H)
  BY <1>1 DEF AtWork
<1>4. Standing(k, at', call', H, t)
  BY <1>1, <1>2, StandingEnded
<1>5. Owned(call', q')
  BY <1>1, OwnedEnds
<1>6. Latched(at', call', q')
  <2>1. ~InCall(at', call', t, Latches \cup {"unlockRx"})
    BY <1>2 DEF InCall
  <2>2. ~InCall(at, call, t, Latches \cup {"unlockRx"})
    BY <1>1 DEF InCall, Inside, Latches
  <2>3. QED
    BY <1>1, <1>2, <2>1, <2>2, LatchedOutside
<1>7. QED
  BY <1>1, <1>2, <1>3, <1>4, <1>5, <1>6, FrameStays

-----------------------------------------------------------------------------
\* What a call becomes: at another step,
StepTo(c, s)      == [c EXCEPT !.step = s]
Noted(c, s, n, o) == [c EXCEPT !.step = s, !.entered = TRUE, !.time = n, !.overflows = o]
OverAt(c, s)      == [c EXCEPT !.step = s, !.ticks = 0]
Since(c, d, n, o) == [c EXCEPT !.ticks = d, !.time = n, !.overflows = o]

Moments == 0 .. MaxDelay
Laps    == 0 .. Overflows - 1

\* The fields of a call, and of what it becomes.
LEMMA CallFields ==
  ASSUME NEW c \in AllCalls
  PROVE  /\ c.op \in {"none", "send", "receive", "peek"} /\ c.step \in Steps
         /\ c.ticks \in 0 .. MaxDelay /\ c.asked \in 0 .. MaxDelay /\ c.entered \in BOOLEAN
         /\ c.time \in 0 .. MaxDelay /\ c.overflows \in 0 .. Overflows - 1
BY DEF AllCalls

LEMMA StepFields ==
  ASSUME NEW c \in AllCalls, NEW s \in Steps
  PROVE  /\ StepTo(c, s) \in AllCalls /\ StepTo(c, s).step = s /\ StepTo(c, s).op = c.op
         /\ StepTo(c, s).ticks = c.ticks /\ StepTo(c, s).asked = c.asked
         /\ StepTo(c, s).entered = c.entered /\ StepTo(c, s).time = c.time
         /\ StepTo(c, s).overflows = c.overflows
BY DEF AllCalls, StepTo

LEMMA OverFields ==
  ASSUME NEW c \in AllCalls, NEW s \in Steps
  PROVE  /\ OverAt(c, s) \in AllCalls /\ OverAt(c, s).step = s /\ OverAt(c, s).op = c.op
         /\ OverAt(c, s).ticks = 0 /\ OverAt(c, s).asked = c.asked
         /\ OverAt(c, s).entered = c.entered
BY Numbers DEF AllCalls, OverAt

LEMMA NotedFields ==
  ASSUME NEW c \in AllCalls, NEW s \in Steps, NEW n \in Moments, NEW o \in Laps
  PROVE  /\ Noted(c, s, n, o) \in AllCalls /\ Noted(c, s, n, o).step = s
         /\ Noted(c, s, n, o).op = c.op /\ Noted(c, s, n, o).ticks = c.ticks
         /\ Noted(c, s, n, o).asked = c.asked /\ Noted(c, s, n, o).entered
         /\ Noted(c, s, n, o).time = n /\ Noted(c, s, n, o).overflows = o
BY DEF AllCalls, Noted, Moments, Laps

LEMMA SinceFields ==
  ASSUME NEW c \in AllCalls, NEW d \in Moments, NEW n \in Moments, NEW o \in Laps
  PROVE  /\ Since(c, d, n, o) \in AllCalls /\ Since(c, d, n, o).step = c.step
         /\ Since(c, d, n, o).op = c.op /\ Since(c, d, n, o).ticks = d
         /\ Since(c, d, n, o).asked = c.asked /\ Since(c, d, n, o).entered = c.entered
         /\ Since(c, d, n, o).time = n /\ Since(c, d, n, o).overflows = o
BY DEF AllCalls, Since, Moments, Laps

\* The ticks since x, when the counter may have wrapped once.
LEMMA ElapsedFacts ==
  ASSUME NEW x \in 0 .. MaxDelay, NEW y \in 0 .. MaxDelay
  PROVE  /\ Elapsed(x, y, Ticks) = IF y >= x THEN y - x ELSE (y - x) + Ticks
         /\ Elapsed(x, y, Ticks) \in 0 .. MaxDelay
<1>1. Ticks \in Nat \ {0} /\ y - x \in Int /\ -Ticks <= y - x /\ y - x < 2 * Ticks
      /\ Ticks = MaxDelay + 1 /\ MaxDelay \in Nat
  BY Numbers
<1>2. Wrapped(y - x, Ticks) = IF y - x < 0 THEN (y - x) + Ticks
                              ELSE IF y - x < Ticks THEN y - x ELSE (y - x) - Ticks
  BY <1>1, OneTurn
<1>3. Elapsed(x, y, Ticks) = Wrapped(y - x, Ticks)
  BY DEF Elapsed, Wrapped
<1>4. QED
  BY <1>1, <1>2, <1>3

\* What the call of t becomes when its time is not over.
LEMMA DeductedFacts ==
  ASSUME NEW H, Frames(H), k.running, NEW t \in Task, ~IsOver(t), call[t].ticks # 0
  PROVE  LET e == Elapsed(call[t].time, k.tick, Ticks) IN
         /\ Deducted(t) \in AllCalls /\ Deducted(t).op = call[t].op
         /\ Deducted(t).step = call[t].step /\ Deducted(t).asked = call[t].asked
         /\ Deducted(t).entered = call[t].entered /\ Deducted(t).ticks \in 1 .. MaxDelay
         /\ Deducted(t).ticks = IF call[t].ticks = MaxDelay THEN MaxDelay ELSE call[t].ticks - e
         /\ call[t].ticks # MaxDelay =>
              Deducted(t).time = k.tick /\ Deducted(t).overflows = k.overflows
<1> DEFINE e == Elapsed(call[t].time, k.tick, Ticks)
<1>1. call[t] \in AllCalls /\ k \in Kernels
  BY FrameFacts
<1>2. /\ call[t].ticks \in 0 .. MaxDelay /\ call[t].time \in 0 .. MaxDelay
      /\ k.tick \in 0 .. MaxDelay /\ k.overflows \in 0 .. Overflows - 1
      /\ MaxDelay \in Nat \ {0}
  BY <1>1, CallFields, Numbers DEF Kernels
<1>3. e \in 0 .. MaxDelay
  BY <1>2, ElapsedFacts
<1>4. call[t].ticks # MaxDelay => e < call[t].ticks
  <2>1. call[t].ticks # MaxDelay => ~(e >= call[t].ticks)
    BY DEF IsOver, TimedOut
  <2> HIDE DEF e
  <2>2. QED
    BY <1>2, <1>3, <2>1
<1>5. CASE call[t].ticks = MaxDelay
  <2>1. Deducted(t) = call[t]
    BY <1>5 DEF Deducted
  <2>2. QED
    BY <1>1, <1>2, <1>5, <2>1, CallFields
<1>6. CASE call[t].ticks # MaxDelay
  <2> DEFINE d == call[t].ticks - e
  <2>1. d \in 1 .. MaxDelay /\ d \in 0 .. MaxDelay
    <3> HIDE DEF e
    <3>1. QED
      BY <1>2, <1>3, <1>4, <1>6
  <2>2. Deducted(t) = Since(call[t], d, k.tick, k.overflows)
    BY <1>1, <1>6 DEF Deducted, Since, AllCalls
  <2> HIDE DEF d
  <2>3. /\ Deducted(t) \in AllCalls /\ Deducted(t).op = call[t].op
        /\ Deducted(t).step = call[t].step /\ Deducted(t).asked = call[t].asked
        /\ Deducted(t).entered = call[t].entered /\ Deducted(t).ticks = d
        /\ Deducted(t).time = k.tick /\ Deducted(t).overflows = k.overflows
    <3>1. /\ Since(call[t], d, k.tick, k.overflows) \in AllCalls
          /\ Since(call[t], d, k.tick, k.overflows).op = call[t].op
          /\ Since(call[t], d, k.tick, k.overflows).step = call[t].step
          /\ Since(call[t], d, k.tick, k.overflows).asked = call[t].asked
          /\ Since(call[t], d, k.tick, k.overflows).entered = call[t].entered
          /\ Since(call[t], d, k.tick, k.overflows).ticks = d
          /\ Since(call[t], d, k.tick, k.overflows).time = k.tick
          /\ Since(call[t], d, k.tick, k.overflows).overflows = k.overflows
      <4>1. d \in Moments /\ k.tick \in Moments /\ k.overflows \in Laps
        BY <1>2, <2>1 DEF Moments, Laps
      <4>2. QED
        BY ONLY <1>1, <4>1, SinceFields
    <3>2. QED
      BY ONLY <2>2, <3>1
  <2>4. QED
    BY <1>6, <2>1, <2>3 DEF d
<1>7. QED
  BY <1>5, <1>6

-----------------------------------------------------------------------------
\* Goes continues a call,
LEMMA GoesContinues ==
  ASSUME NEW H, Frames(H), k.running, NEW t \in Task, call[t].op # "none",
         NEW s \in Steps \ {"none"}, Goes(t, s)
  PROVE  Continues(t, StepTo(call[t], s)) /\ answer' = None
<1>1. call \in [Task -> AllCalls] /\ call[t] \in AllCalls
  BY FrameFacts
<1>2. at' = at /\ answer' = None /\ call' = [call EXCEPT ![t].step = s]
  BY DEF Goes, TellsNobody
<1>3. call' = [call EXCEPT ![t] = StepTo(call[t], s)]
  BY <1>1, <1>2 DEF StepTo
<1>4. QED
  BY <1>1, <1>2, <1>3, StepFields DEF Continues

\* and Returns ends it.
LEMMA ReturnsEnds ==
  ASSUME NEW t, NEW x, Returns(t, x)
  PROVE  Ends(t) /\ answer' = [to |-> t, says |-> x]
BY DEF Returns, Ends, GoesTo, Tells

\* The attempt has failed.
LEMMA TryFailsFrame ==
  ASSUME NEW H, Frames(H), NEW t \in Task, NEW op, Is(t, op, "try"), NEW why, TryFails(t, why),
         q.kind \in Mutexes => call[t].op # "send"
  PROVE  /\ Turns(H, t, 0, H) /\ k' = k /\ q' = q
         /\ \/ call[t].ticks = 0 /\ Ends(t) /\ answer' = [to |-> t, says |-> why]
            \/ \E s \in {"block", "suspend"} :
                 /\ call[t].ticks # 0 /\ answer' = None
                 /\ Continues(t, Noted(call[t], s,
                                       IF call[t].entered THEN call[t].time ELSE k.tick,
                                       IF call[t].entered THEN call[t].overflows ELSE k.overflows))
<1>1. /\ k.running /\ k.current = t /\ at[t] = "call" /\ t # Idle
      /\ call[t].step = "try" /\ call[t].op # "none"
  BY InTheCall
<1>2. k' = k /\ q' = q
  BY DEF TryFails
<1>3. CASE call[t].ticks = 0
  <2>1. Ends(t) /\ answer' = [to |-> t, says |-> why]
    BY <1>3, ReturnsEnds DEF TryFails
  <2>2. Turns(H, t, 0, H)
    BY <1>2, <2>1, EndsFrame DEF Inside
  <2>3. QED
    BY <1>2, <1>3, <2>1, <2>2
<1>4. CASE call[t].ticks # 0
  <2> DEFINE s == IF program.alternative THEN "block" ELSE "suspend"
             n == IF call[t].entered THEN call[t].time ELSE k.tick
             o == IF call[t].entered THEN call[t].overflows ELSE k.overflows
             c == Noted(call[t], s, n, o)
  <2>1. call \in [Task -> AllCalls] /\ call[t] \in AllCalls /\ k \in Kernels
    BY <1>1, FrameFacts
  <2>2. n \in 0 .. MaxDelay /\ o \in 0 .. Overflows - 1 /\ s \in Steps /\ s \in {"block", "suspend"}
    BY <2>1, CallFields DEF Kernels, Steps, Inside
  <2>3. answer' = None /\ at' = at /\ call' = [call EXCEPT ![t] = c]
    <3>1. /\ answer' = None /\ at' = at
          /\ call' = [call EXCEPT ![t].step = s,
                        ![t].entered   = TRUE,
                        ![t].time      = IF call[t].entered THEN @ ELSE k.tick,
                        ![t].overflows = IF call[t].entered THEN @ ELSE k.overflows]
      BY <1>4 DEF TryFails, TellsNobody
    <3>2. QED
      BY <2>1, <3>1 DEF Noted, AllCalls
  <2>4. c \in AllCalls /\ c.op = call[t].op /\ c.step = s /\ c.ticks = call[t].ticks
    <3> HIDE DEF s, n, o
    <3>1. n \in Moments /\ o \in Laps /\ s \in Steps
      BY <2>2 DEF Moments, Laps
    <3>2. call[t] \in AllCalls
      BY <2>1
    <3>3. QED
      BY ONLY <3>1, <3>2, NotedFields DEF c
  <2> HIDE DEF c, n, o
  <2>5. Continues(t, c)
    BY <2>2, <2>3, <2>4 DEF Continues
  <2>6. Owned(call', q')
    <3>1. Owned(call, q)
      BY DEF Frames, Frame
    <3>2. q.kind \in Mutexes => q'.txLock <= 0 /\ q'.rxLock <= 0
      BY <1>2, <3>1 DEF Owned
    <3>3. c.step # "place"
      BY <2>2, <2>4
    <3>4. QED
      BY <1>1, <1>2, <2>4, <2>5, <3>2, <3>3, OwnedContinues
  <2>7. call'[t] = c /\ at'[t] = at[t] /\ \A u \in Task \ {t} : at'[u] = at[u] /\ call'[u] = call[u]
    BY <1>1, <2>5, ContinuesFacts
  <2>8. Latched(at', call', q')
    <3>1. ~InCall(at, call, t, Latches \cup {"unlockRx"})
      BY <1>1 DEF InCall, Latches
    <3>2. ~InCall(at', call', t, Latches \cup {"unlockRx"})
      BY <2>2, <2>4, <2>7 DEF InCall, Latches
    <3>3. QED
      BY <1>1, <1>2, <2>7, <3>1, <3>2, LatchedOutside
  <2>9. Turns(H, t, 0, H)
    <3>1. (c.step \in Inside <=> "try" \in Inside) /\ (c.step \in Resting1 => c.ticks # 0)
      BY <1>4, <2>2, <2>4 DEF Inside
    <3>2. QED
      BY <1>2, <2>5, <2>6, <2>8, <3>1, GoesFrame
  <2>10. QED
    BY <1>2, <1>4, <2>2, <2>3, <2>5, <2>9 DEF c, n, o
<1>5. QED
  BY <1>3, <1>4

-----------------------------------------------------------------------------
\* A mutex is given without waiting.
LEMMA NoSenderWaits ==
  ASSUME NEW H, Frames(H), NEW t \in Task, call[t].step # "try", call[t].op = "send"
  PROVE  q.kind \notin Mutexes
BY DEF Frames, Frame, Owned

\* The steps of a call that has to wait: it suspends the scheduler,
LEMMA SuspendsFrame ==
  ASSUME NEW H, Frames(H), NEW t \in Task, Suspends(t)
  PROVE  /\ Turns(H, t, 0, H) /\ q' = q /\ answer' = None
         /\ k'.waiting = k.waiting /\ k'.prio = k.prio /\ k'.base = k.base /\ k'.current = t
         /\ Continues(t, StepTo(call[t], "lock"))
<1>1. Is(t, Waiters, "suspend") /\ k' = vTaskSuspendAll(k) /\ Goes(t, "lock") /\ q' = q
  BY DEF Suspends, KernelBecomes
<1>2. /\ k.running /\ k.current = t /\ at[t] = "call" /\ t # Idle /\ call[t].step = "suspend"
      /\ call[t].op # "none" /\ H[t] = "ready" /\ ~Waits(k, t) /\ ~Contains(k.pending, t)
      /\ k.locks # 1
  BY <1>1, InTheCall DEF After, Inside
<1>3. /\ Good(k, H) /\ Times(k, H) /\ Apart(k, H) /\ k \in Kernels /\ H \in [Task -> Places]
      /\ k.item = k.prio /\ k.missed <= MaxMissed /\ k.locks \in {0, 1} /\ call[t] \in AllCalls
  BY <1>2, FrameFacts
<1>4. k' = [k EXCEPT !.locks = 1]
  BY <1>1, <1>2, <1>3 DEF vTaskSuspendAll, Kernels
<1>5. /\ Good(k', H) /\ Times(k', H)
      /\ k'.locks = 1 /\ k'.running = k.running /\ k'.current = k.current
      /\ k'.tick = k.tick /\ k'.item = k.item /\ k'.prio = k.prio /\ k'.base = k.base
      /\ k'.missed = k.missed /\ k'.missedYield = k.missedYield /\ k'.pending = k.pending
      /\ k'.wake = k.wake /\ k'.waiting = k.waiting /\ k'.overflows = k.overflows
  BY <1>3, <1>4, SetLocks, OtherFieldsKept
<1>6. \A u \in Task : Onward(k, H, k', H, u, 0)
  BY <1>3, <1>5, StaysOnward
<1>7. Counts(k, k', 0) /\ 0 \in 0 .. MaxDelay
  BY <1>3, <1>5, KernelNumbers, Numbers DEF Counts
<1> DEFINE c == StepTo(call[t], "lock")
<1>8. Continues(t, c) /\ answer' = None /\ c.op = call[t].op /\ c.step = "lock" /\ c.ticks = call[t].ticks
  BY <1>1, <1>2, <1>3, GoesContinues, StepFields DEF Steps, Inside
<1> HIDE DEF c
<1>9. /\ at' \in [Task -> Spots] /\ call' \in [Task -> AllCalls]
      /\ call'[t] = c /\ at'[t] = at[t]
      /\ \A u \in Task \ {t} : at'[u] = at[u] /\ call'[u] = call[u]
  BY <1>2, <1>8, ContinuesFacts
<1>10. Standing(k', at', call', H, t)
  <2>1. call[t].ticks # 0 /\ ~Waits(k', t)
    BY <1>1, <1>2, <1>5, InTheCall DEF Resting1, Waits
  <2>2. QED
    BY <1>2, <1>5, <1>8, <1>9, <2>1, StandingCalling DEF Inside
<1>11. AtWork(k', at', call', H)
  BY <1>2, <1>5 DEF AtWork
<1>12. Owned(call', q')
  <2>1. q.kind \in Mutexes => q'.txLock <= 0 /\ q'.rxLock <= 0
    BY <1>1 DEF Frames, Frame, Owned
  <2>2. q.kind \in Mutexes => c.op # "send"
    BY <1>2, <1>8, NoSenderWaits
  <2>3. QED
    BY <1>1, <1>2, <1>8, <2>1, <2>2, OwnedContinues
<1>13. Latched(at', call', q')
  <2>1. /\ ~InCall(at, call, t, Latches \cup {"unlockRx"})
        /\ ~InCall(at', call', t, Latches \cup {"unlockRx"})
    BY <1>2, <1>8, <1>9 DEF InCall, Latches
  <2>2. QED
    BY <1>1, <1>2, <1>9, <2>1, LatchedOutside
<1>14. Turns(H, t, 0, H)
  BY <1>2, <1>3, <1>5, <1>6, <1>7, <1>9, <1>10, <1>11, <1>12, <1>13, FrameOn
<1>15. QED
  BY <1>1, <1>2, <1>5, <1>8, <1>14 DEF c

\* prvLockQueue
Latch(x) == IF x = Unlocked THEN 0 ELSE x

\* locks the queue and looks at the time,
LEMMA LocksFrame ==
  ASSUME NEW H, Frames(H), NEW t \in Task, ChannelInvariant, Locks(t)
  PROVE  /\ Turns(H, t, 0, H) /\ k' = k /\ answer' = None
         /\ q'.kind = q.kind /\ q'.count = q.count /\ q'.length = q.length /\ q'.holder = q.holder
         /\ q'.txLock = Latch(q.txLock) /\ q'.rxLock = Latch(q.rxLock)
         /\ \/ IsOver(t) /\ Continues(t, OverAt(call[t], "unlockTx"))
            \/ ~IsOver(t) /\ Continues(t, StepTo(Deducted(t), "look"))
<1>1. Is(t, Waiters, "lock") /\ k' = k /\ at' = at /\ answer' = None
  BY DEF Locks, TellsNobody
<1>2. /\ k.running /\ k.current = t /\ at[t] = "call" /\ t # Idle /\ call[t].step = "lock"
      /\ call[t].op # "none" /\ call[t].ticks # 0
  BY <1>1, InTheCall DEF Resting1
<1>3. call \in [Task -> AllCalls] /\ call[t] \in AllCalls
  BY <1>2, FrameFacts
<1>4. /\ q'.kind = q.kind /\ q'.count = q.count /\ q'.length = q.length /\ q'.holder = q.holder
      /\ q'.txLock = Latch(q.txLock) /\ q'.rxLock = Latch(q.rxLock)
  <2>1. q' = [q EXCEPT !.rxLock = Latch(q.rxLock), !.txLock = Latch(q.txLock)]
    BY DEF Locks, Latch, ChannelInvariant, QueueTypes, Queues
  <2>2. q \in Queues
    BY DEF ChannelInvariant, QueueTypes
  <2>3. QED
    BY <2>1, <2>2 DEF Queues
<1>5. ASSUME NEW c, Continues(t, c), c.op = call[t].op, c.step \in {"unlockTx", "look"},
             c.step = "look" => c.ticks # 0
      PROVE  Turns(H, t, 0, H)
  <2>1. /\ call'[t] = c /\ at'[t] = at[t]
        /\ \A u \in Task \ {t} : at'[u] = at[u] /\ call'[u] = call[u]
    BY <1>2, <1>5, ContinuesFacts
  <2>2. q.txLock >= -1 /\ q.rxLock >= -1 /\ q.txLock \in Int /\ q.rxLock \in Int
    BY <1>2, LatchOf DEF ChannelInvariant, QueueTypes, Queues
  <2>3. /\ q'.txLock >= 0 /\ q'.rxLock >= 0
        /\ q.txLock <= 0 => q'.txLock <= 0
        /\ q.rxLock <= 0 => q'.rxLock <= 0
    BY <1>4, <2>2 DEF Latch, Unlocked
  <2>4. Latched(at', call', q')
    <3>1. InCall(at', call', t, Latches) /\ InCall(at', call', t, Latches \cup {"unlockRx"})
      BY <1>2, <1>5, <2>1 DEF InCall, Latches
    <3>2. q'.txLock >= -1 /\ q'.rxLock >= -1 /\ q'.txLock # Unlocked /\ q'.rxLock # Unlocked
      BY <1>4, <2>2 DEF Latch, Unlocked
    <3>3. QED
      BY <1>2, <2>1, <3>1, <3>2, LatchedInside
  <2>5. Owned(call', q')
    <3>1. q.kind \in Mutexes => q.txLock <= 0 /\ q.rxLock <= 0
      BY DEF Frames, Frame, Owned
    <3>2. q.kind \in Mutexes => c.op # "send"
      BY <1>2, <1>5, NoSenderWaits
    <3>3. c.step # "place"
      BY <1>5
    <3>4. QED
      BY <1>2, <1>4, <1>5, <2>3, <3>1, <3>2, <3>3, OwnedContinues
  <2>6. (c.step \in Inside <=> "lock" \in Inside) /\ (c.step \in Resting1 => c.ticks # 0)
        /\ "lock" \notin After \ {"try"}
    BY <1>5 DEF Inside, Resting1, After
  <2>7. QED
    BY <1>1, <1>5, <2>4, <2>5, <2>6, GoesFrame
<1>6. CASE IsOver(t)
  <2> DEFINE c == OverAt(call[t], "unlockTx")
  <2>1. c \in AllCalls /\ c.op = call[t].op /\ c.step = "unlockTx"
    BY <1>3, OverFields DEF Steps, Inside
  <2>2. call' = [call EXCEPT ![t] = c]
    BY <1>3, <1>6 DEF Locks, OverAt
  <2> HIDE DEF c
  <2>3. Continues(t, c)
    BY <1>1, <2>1, <2>2 DEF Continues
  <2>4. QED
    BY <1>1, <1>4, <1>5, <1>6, <2>1, <2>3 DEF c
<1>7. CASE ~IsOver(t)
  <2> DEFINE c == StepTo(Deducted(t), "look")
  <2>1. Deducted(t) \in AllCalls /\ Deducted(t).op = call[t].op /\ Deducted(t).ticks \in 1 .. MaxDelay
    BY <1>2, <1>7, DeductedFacts
  <2>2. c \in AllCalls /\ c.op = call[t].op /\ c.step = "look" /\ c.ticks = Deducted(t).ticks
    BY <2>1, StepFields DEF Steps, Inside
  <2>3. call' = [call EXCEPT ![t] = c]
    BY <1>3, <1>7 DEF Locks, StepTo
  <2>4. Deducted(t).ticks # 0
    BY <2>1
  <2> HIDE DEF c
  <2>5. Continues(t, c)
    BY <1>1, <2>2, <2>3 DEF Continues
  <2>6. QED
    BY <1>1, <1>4, <1>5, <1>7, <2>2, <2>4, <2>5 DEF c
<1>8. QED
  BY <1>6, <1>7

\* and looks at the queue.
LEMMA LooksFrame ==
  ASSUME NEW H, Frames(H), NEW t \in Task, Looks(t)
  PROVE  /\ Turns(H, t, 0, H) /\ k' = k /\ q' = q /\ answer' = None
         /\ \/ MustWait(t) /\ Continues(t, StepTo(call[t], "place"))
            \/ ~MustWait(t) /\ Continues(t, StepTo(call[t], "unlockTx"))
<1> DEFINE s == IF MustWait(t) THEN "place" ELSE "unlockTx"
           c == StepTo(call[t], s)
<1>1. Is(t, Waiters, "look") /\ k' = k /\ q' = q /\ Goes(t, s)
  BY DEF Looks
<1>2. /\ k.running /\ k.current = t /\ at[t] = "call" /\ t # Idle /\ call[t].step = "look"
      /\ call[t].op # "none" /\ call[t].ticks # 0
  BY <1>1, InTheCall DEF Resting1
<1>3. s \in Steps \ {"none"} /\ s \in {"place", "unlockTx"} /\ s \in Steps /\ (s = "place" => MustWait(t))
  BY DEF Steps, Inside
<1>4. call[t] \in AllCalls
  BY <1>2, FrameFacts
<1>5. c.op = call[t].op /\ c.step = s /\ c.ticks = call[t].ticks
  <2> HIDE DEF s
  <2>1. QED
    BY <1>3, <1>4, StepFields
<1>6. Continues(t, c) /\ answer' = None
  <2> HIDE DEF s
  <2>1. QED
    BY <1>1, <1>2, <1>3, GoesContinues
<1> HIDE DEF c, s
<1>7. /\ call'[t] = c /\ at'[t] = at[t]
      /\ \A u \in Task \ {t} : at'[u] = at[u] /\ call'[u] = call[u]
  BY <1>2, <1>6, ContinuesFacts
<1>8. Latched(at', call', q')
  <2>1. InCall(at', call', t, Latches) /\ InCall(at', call', t, Latches \cup {"unlockRx"})
    BY <1>2, <1>3, <1>5, <1>7 DEF InCall, Latches
  <2>2. InCall(at, call, t, Latches) /\ InCall(at, call, t, Latches \cup {"unlockRx"})
    BY <1>2 DEF InCall, Latches
  <2>3. QED
    BY <1>1, <1>2, <1>7, <2>1, <2>2, LatchOf, LatchedInside
<1>9. Owned(call', q')
  <2>1. q.kind \in Mutexes => q'.txLock <= 0 /\ q'.rxLock <= 0
    BY <1>1 DEF Frames, Frame, Owned
  <2>2. q.kind \in Mutexes => c.op # "send" /\ call[t].op # "send"
    BY <1>2, <1>5, NoSenderWaits
  <2>3. q.kind \in Mutexes /\ c.step = "place" => q.count = 0
    BY <1>3, <1>5, <2>2 DEF MustWait
  <2>4. QED
    BY <1>1, <1>2, <1>6, <2>1, <2>2, <2>3, OwnedContinues
<1>10. (c.step \in Inside <=> "look" \in Inside) /\ (c.step \in Resting1 => c.ticks # 0)
       /\ "look" \notin After \ {"try"}
  BY <1>2, <1>3, <1>5 DEF Inside, After
<1>11. Turns(H, t, 0, H)
  BY <1>1, <1>6, <1>8, <1>9, <1>10, GoesFrame
<1>12. QED
  BY <1>1, <1>6, <1>11 DEF c, s

-----------------------------------------------------------------------------
(* The tick and the delays                                                   *)

\* The ticks that may be missed are fewer than a lap of the counter.
LEMMA MissedNumbers ==
  /\ MaxMissed \in Nat /\ MaxMissed < MaxDelay /\ 1 \in 0 .. MaxDelay /\ 0 \in 0 .. MaxDelay
  /\ \A n \in Nat : n <= MaxMissed => n \in 0 .. MaxDelay
BY TasksAssumption, Numbers

\* A step that is no call's leaves the queue and its users as they were.
LEMMA QueueStays ==
  ASSUME NEW H, Frames(H), NEW a, q' = q, call' = call,
         \A u \in Task : a[u] = "call" <=> at[u] = "call"
  PROVE  Owned(call', q') /\ Latched(a, call', q')
BY DEF Frames, Frame, Latched, InCall

\* The tick, counted or missed.
LEMMA TickFrame ==
  ASSUME NEW H, Frames(H), vTick, call' = call, q' = q
  PROVE  \E H1 \in [Task -> Places], n \in Nat :
           /\ Interrupts(H, n, H1) /\ k'.prio = k.prio /\ k'.base = k.base /\ k'.locks = k.locks
           /\ Frees(k, H, k', H1) /\ (k'.current = k.current \/ Highest(k', H1))
<1>1. /\ k.running /\ (k.locks > 0 => k.missed < MaxMissed) /\ at' = at
      /\ k' = vTaskSwitchContext(vTaskIncrementTick(k))
  BY DEF vTick, KernelBecomes
<1>2. /\ Good(k, H) /\ Times(k, H) /\ Apart(k, H) /\ k \in Kernels /\ H \in [Task -> Places]
      /\ k.item = k.prio /\ k.missed <= MaxMissed /\ k.locks \in {0, 1} /\ k.missed \in Nat
      /\ k.locks = 0 => k.pending = <<>> /\ k.missed = 0
      /\ Idle \in Task /\ H[Idle] = "ready" /\ k.current \in Task
  BY <1>1, FrameFacts
<1>3. Owned(call', q') /\ Latched(at', call', q')
  BY <1>1, QueueStays
<1>4. CASE k.locks = 0
  <2>1. PICK H1 \in [Task -> Places] :
           /\ Good(k', H1) /\ Times(k', H1) /\ Highest(k', H1)
           /\ Frees(k, H, k', H1) /\ SleepsOn(k, H, k', H1, 1)
           /\ SameButTick(k, [k' EXCEPT !.current = k.current]) /\ k'.pending = <<>>
           /\ Counts(k, k', 1)
    BY <1>1, <1>2, <1>4, TickedOn
  <2>2. k' \in Kernels
    BY <2>1 DEF Good
  <2>3. /\ k'.running = k.running /\ k'.item = k.item /\ k'.prio = k.prio /\ k'.base = k.base
        /\ k'.locks = k.locks /\ k'.missed = k.missed
    BY <2>1, <2>2 DEF SameButTick, Kernels
  <2>4. \A u \in Task : Onward(k, H, k', H1, u, 1)
    BY <2>1, FreesOnward
  <2>5. k'.current \in Task /\ H1[k'.current] = "ready"
    BY <2>1 DEF Highest
  <2>6. Interrupts(H, 1, H1)
    BY <1>1, <1>2, <1>3, <1>4, <2>1, <2>3, <2>4, <2>5, FrameInterrupted, MissedNumbers
  <2>7. QED
    BY <2>1, <2>3, <2>6
<1>5. CASE k.locks = 1
  <2>1. k' = [k EXCEPT !.missed = k.missed + 1, !.missedYield = TRUE]
    <3>1. vTaskIncrementTick(k) = [k EXCEPT !.missed = k.missed + 1]
      BY <1>5 DEF vTaskIncrementTick
    <3>2. [k EXCEPT !.missed = k.missed + 1].locks = 1
      BY <1>2, <1>5 DEF Kernels
    <3>3. k' = [[k EXCEPT !.missed = k.missed + 1] EXCEPT !.missedYield = TRUE]
      BY <1>1, <3>1, <3>2 DEF vTaskSwitchContext
    <3>4. QED
      BY <1>2, <3>3 DEF Kernels
  <2>2. k.missed + 1 \in Nat /\ k.missed + 1 <= MaxMissed
    BY <1>1, <1>2, <1>5, MissedNumbers
  <2>3. Good(k', H) /\ Times(k', H) /\ HasMissed(k, k', k.missed + 1, TRUE)
    BY <1>2, <2>1, <2>2, SetMissed
  <2>4. k'.waiting = k.waiting /\ k'.overflows = k.overflows
    BY <1>2, <2>1, OtherFieldsKept
  <2>5. /\ k'.locks = k.locks /\ k'.running = k.running /\ k'.current = k.current
        /\ k'.tick = k.tick /\ k'.item = k.item /\ k'.prio = k.prio /\ k'.base = k.base
        /\ k'.missed = k.missed + 1 /\ k'.pending = k.pending /\ k'.wake = k.wake
    BY <2>3 DEF HasMissed
  <2>6. \A u \in Task : Onward(k, H, k', H, u, 0)
    BY <1>2, <2>4, <2>5, StaysOnward
  <2>7. Counts(k, k', 0)
    BY <1>2, <2>4, <2>5, KernelNumbers, Numbers DEF Counts
  <2>8. Interrupts(H, 0, H)
    BY <1>1, <1>2, <1>3, <1>5, <2>2, <2>3, <2>5, <2>6, <2>7, FrameInterrupted, MissedNumbers
  <2>9. Frees(k, H, k', H)
    BY <1>2, <2>4, <2>5, FreesNobody
  <2>10. QED
    BY <1>2, <1>5, <2>5, <2>8, <2>9
<1>6. QED
  BY <1>2, <1>4, <1>5

-----------------------------------------------------------------------------
\* What goes on in a step that stops the current task t, in the kernel K, is for
\* the others as if nothing had happened.
LEMMA StopsOnward ==
  ASSUME NEW K, NEW H, Good(K, H), Times(K, H), Apart(K, H), NEW t \in Task, K.current = t,
         NEW k1, NEW l \in Stopped, NEW n, Stops(K, H, k1, l, n),
         NEW u \in Task \ {t}, \A e \in EventList : Contains(k1.waiting[e], u) <=> Contains(K.waiting[e], u)
  PROVE  Onward(K, H, k1, Move(H, t, l), u, 0)
<1>1. H \in [Task -> Places] /\ l \in Places
  BY DEF Good, Stopped, Places
<1>2. Move(H, t, l)[u] = H[u]
  BY <1>1, MoveFacts
<1>3. k1.pending = K.pending /\ k1.wake[u] = K.wake[u] /\ k1.tick = K.tick
  BY DEF Stops, Fixed
<1>4. QED
  BY <1>2, <1>3, StaysOnward

\* A task delays itself, with the scheduler suspended,
LEMMA DelayFrame ==
  ASSUME NEW H, Frames(H), NEW t \in Task, vTaskDelay(t, 1), call' = call, q' = q
  PROVE  \E l \in Asleep :
           /\ Turns(H, t, 0, Move(H, t, l)) /\ at'[t] = "delay"
           /\ k'.waiting = k.waiting /\ k'.prio = k.prio /\ k'.base = k.base /\ k'.current = t
<1>1. /\ Calls(t) /\ k' = DelayCurrent(vTaskSuspendAll(k), (k.tick + 1) % Ticks)
      /\ at' = [at EXCEPT ![t] = "delay"]
  BY DEF vTaskDelay, KernelBecomes, GoesTo
<1>2. t # Idle /\ Runs(t, "task")
  BY <1>1 DEF Calls
<1>3. /\ k.running /\ k.current = t /\ k.locks = 0 /\ H[t] = "ready"
      /\ ~Waits(k, t) /\ ~Contains(k.pending, t)
      /\ call[t] = NoCall /\ call[t].op = "none" /\ at[t] = "task"
  BY <1>2, InOwnCode
<1>4. /\ Good(k, H) /\ Times(k, H) /\ Apart(k, H) /\ k \in Kernels /\ H \in [Task -> Places]
      /\ k.item = k.prio /\ k.missed <= MaxMissed /\ at \in [Task -> Spots] /\ call \in [Task -> AllCalls]
  BY <1>3, FrameFacts
<1> DEFINE K == vTaskSuspendAll(k)
<1>5. K = [k EXCEPT !.locks = 1]
  BY <1>3, <1>4 DEF vTaskSuspendAll, Kernels
<1> HIDE DEF K
<1>6. /\ Good(K, H) /\ Times(K, H)
      /\ K.locks = 1 /\ K.running = k.running /\ K.current = k.current
      /\ K.tick = k.tick /\ K.item = k.item /\ K.prio = k.prio /\ K.base = k.base
      /\ K.missed = k.missed /\ K.missedYield = k.missedYield /\ K.pending = k.pending
      /\ K.wake = k.wake /\ K.waiting = k.waiting /\ K.overflows = k.overflows
  BY <1>4, <1>5, SetLocks, OtherFieldsKept
<1>7. k' = DelayCurrent(K, (K.tick + 1) % Ticks)
  BY <1>1, <1>6 DEF K
<1>8. PICK l \in Asleep : Stops(K, H, k', l, 1) /\ k'.waiting = K.waiting
  <2>1. 1 \in 1 .. MaxDelay
    BY Numbers
  <2>2. QED
    BY <1>3, <1>6, <1>7, <2>1, FellAsleep
<1> DEFINE H1 == Move(H, t, l)
<1>9. /\ H1 \in [Task -> Places] /\ H1[t] = l /\ \A u \in Task \ {t} : H1[u] = H[u]
      /\ l \in Stopped /\ l \in Places
  BY <1>4, MoveFacts DEF Asleep, Places, Stopped
<1>10. /\ Good(k', H1) /\ Times(k', H1) /\ k'.running = k.running /\ k'.current = t
       /\ k'.tick = k.tick /\ k'.overflows = k.overflows /\ k'.item = k.item /\ k'.prio = k.prio
       /\ k'.base = k.base /\ k'.locks = 1 /\ k'.missed = k.missed /\ k'.pending = k.pending
       /\ k'.waiting = k.waiting /\ \A u \in Task \ {t} : k'.wake[u] = k.wake[u]
  BY <1>3, <1>6, <1>8 DEF Stops, Fixed
<1> HIDE DEF H1
<1>11. \A u \in Task \ {t} : Onward(k, H, k', H1, u, 0)
  BY <1>4, <1>9, <1>10, StaysOnward
<1>12. Counts(k, k', 0)
  BY <1>4, <1>10, KernelNumbers, Numbers DEF Counts
<1>13. /\ at' \in [Task -> Spots] /\ at'[t] = "delay" /\ \A u \in Task \ {t} : at'[u] = at[u]
  BY <1>1, <1>4 DEF Spots
<1>14. Standing(k', at', call', H1, t)
  <2>1. H1[t] # "none" /\ H1[t] # "terminated" /\ H1[t] # "suspended"
    BY <1>8, <1>9 DEF Asleep
  <2>2. Holding(at', call', t)
    BY <1>13 DEF Holding
  <2>3. ~Waits(k', t) /\ ~Contains(k'.pending, t) /\ \A e \in EventList : ~Contains(k'.waiting[e], t)
    BY <1>3, <1>10 DEF Waits
  <2>4. call'[t].op = "none" /\ call'[t] = NoCall /\ call'[t].step \notin Resting1
    BY <1>3, NoCallTypes DEF Resting1
  <2>5. QED
    BY <1>10, <1>13, <2>1, <2>2, <2>3, <2>4 DEF Standing
<1>15. AtWork(k', at', call', H1)
  BY <1>10, <1>13 DEF AtWork
<1>16. Owned(call', q') /\ Latched(at', call', q')
  BY <1>3, <1>13, QueueStays
<1>17. Turns(H, t, 0, H1)
  BY <1>2, <1>3, <1>4, <1>9, <1>10, <1>11, <1>12, <1>13, <1>14, <1>15, <1>16, FrameOn, MissedNumbers
<1>18. QED
  BY <1>10, <1>13, <1>17 DEF H1

-----------------------------------------------------------------------------
(* Steps of a call that change the kernel                                    *)

\* The scheduler goes on, for all tasks alike.
LEMMA ResumedFacts ==
  ASSUME NEW H, Frames(H), k.running, k.locks = 1, k' = xTaskResumeAll(k)
  PROVE  \E H1 \in [Task -> Places] :
           /\ Good(k', H1) /\ Times(k', H1) /\ Frees(k, H, k', H1)
           /\ \A u \in Task : Onward(k, H, k', H1, u, k.missed)
           /\ Counts(k, k', k.missed) /\ k.missed \in 0 .. MaxDelay
           /\ k'.running = k.running /\ k'.prio = k.prio /\ k'.base = k.base /\ k'.item = k'.prio
           /\ k'.locks = 0 /\ k'.missed = 0 /\ k'.pending = <<>> /\ k'.missed <= MaxMissed
           /\ k'.current \in Task
           /\ AlreadyYielded(k) => Highest(k', H1)
           /\ ~AlreadyYielded(k) => k'.current = k.current
           /\ Highest(k, H) => Highest(k', H1)
<1>1. /\ Good(k, H) /\ Times(k, H) /\ Apart(k, H) /\ k \in Kernels /\ H \in [Task -> Places]
      /\ k.item = k.prio /\ k.missed <= MaxMissed /\ k.missed \in Nat
      /\ Idle \in Task /\ H[Idle] = "ready" /\ k.current \in Task
  BY FrameFacts
<1>2. PICK H1 \in [Task -> Places] :
           /\ Good(k', H1) /\ Times(k', H1) /\ Frees(k, H, k', H1)
           /\ SleepsOn(k, H, k', H1, k.missed) /\ Counts(k, k', k.missed)
           /\ k'.running = k.running /\ k'.prio = k.prio /\ k'.base = k.base /\ k'.item = k.item
           /\ k'.locks = 0 /\ k'.missed = 0 /\ k'.missedYield = FALSE /\ k'.pending = <<>>
           /\ AlreadyYielded(k) => Highest(k', H1)
           /\ ~AlreadyYielded(k) => k'.current = k.current
           /\ Highest(k, H) => Highest(k', H1)
  BY <1>1, ResumedOn
<1>3. \A u \in Task : Onward(k, H, k', H1, u, k.missed)
  BY <1>2, FreesOnward
<1>4. k.missed \in 0 .. MaxDelay /\ k'.missed <= MaxMissed
  BY <1>1, <1>2, MissedNumbers
<1>5. k'.current \in Task
  BY <1>1, <1>2 DEF Highest
<1>6. QED
  BY <1>1, <1>2, <1>3, <1>4, <1>5

\* resumes it,
LEMMA EndsDelayFrame ==
  ASSUME NEW H, Frames(H), NEW t \in Task, EndsDelay(t), call' = call, q' = q
  PROVE  \E H1 \in [Task -> Places] :
           /\ Turns(H, t, k.missed, H1) /\ Onward(k, H, k', H1, t, k.missed)
           /\ Frees(k, H, k', H1) /\ k'.prio = k.prio /\ k'.base = k.base
           /\ AlreadyYielded(k) => Highest(k', H1)
           /\ ~AlreadyYielded(k) => k'.current = k.current
           /\ Highest(k, H) => Highest(k', H1)
           /\ at'[t] # "call" /\ at[t] # "call"
<1> DEFINE s == IF AlreadyYielded(k) THEN "task" ELSE "yield"
<1>1. Runs(t, "delay") /\ k' = xTaskResumeAll(k) /\ at' = [at EXCEPT ![t] = s]
  BY DEF EndsDelay, KernelBecomes, GoesTo
<1>2. k.running /\ k.current = t /\ at[t] = "delay" /\ s \in {"task", "yield"} /\ (s # "yield" => AlreadyYielded(k))
  BY <1>1 DEF Runs
<1> HIDE DEF s
<1>3. /\ at[Idle] = "task" /\ k.locks \in {0, 1} /\ at \in [Task -> Spots] /\ call \in [Task -> AllCalls]
      /\ Standing(k, at, call, H, t)
  BY <1>2, FrameFacts
<1>4. k.locks = 1 /\ t # Idle
  BY <1>2, <1>3 DEF Standing, Holding
<1>5. PICK H1 \in [Task -> Places] :
           /\ Good(k', H1) /\ Times(k', H1) /\ Frees(k, H, k', H1)
           /\ \A u \in Task : Onward(k, H, k', H1, u, k.missed)
           /\ Counts(k, k', k.missed) /\ k.missed \in 0 .. MaxDelay
           /\ k'.running = k.running /\ k'.prio = k.prio /\ k'.base = k.base /\ k'.item = k'.prio
           /\ k'.locks = 0 /\ k'.missed = 0 /\ k'.pending = <<>> /\ k'.missed <= MaxMissed
           /\ k'.current \in Task
           /\ AlreadyYielded(k) => Highest(k', H1)
           /\ ~AlreadyYielded(k) => k'.current = k.current
           /\ Highest(k, H) => Highest(k', H1)
  BY <1>1, <1>2, <1>4, ResumedFacts
<1>6. /\ at' \in [Task -> Spots] /\ at'[t] = s /\ \A u \in Task \ {t} : at'[u] = at[u]
  BY <1>1, <1>2, <1>3 DEF Spots
<1>7. Standing(k', at', call', H1, t)
  <2>1. ~Holding(at', call', t)
    BY <1>2, <1>6 DEF Holding, InCall
  <2>2. H[t] # "none" /\ at[t] # "call" /\ at'[t] \notin {"call", "nowhere"}
    BY <1>2, <1>3, <1>6 DEF Standing
  <2>3. Proceeds(call[t], call'[t])
    BY DEF Proceeds
  <2>4. ~(k'.locks = 1 /\ k'.current = t)
    BY <1>5
  <2>5. Onward(k, H, k', H1, t, k.missed)
    BY <1>5
  <2>6. QED
    BY <1>3, <2>1, <2>2, <2>3, <2>4, <2>5, StandingOn
<1>8. IF k'.current = t THEN AtWork(k', at', call', H1) ELSE H1[k'.current] = "ready"
  <2>1. CASE AlreadyYielded(k)
    BY <1>5, <2>1 DEF Highest, AtWork
  <2>2. CASE ~AlreadyYielded(k)
    BY <1>2, <1>5, <1>6, <2>2 DEF AtWork
  <2>3. QED
    BY <2>1, <2>2
<1>9. Owned(call', q') /\ Latched(at', call', q')
  BY <1>2, <1>6, QueueStays
<1>10. Turns(H, t, k.missed, H1)
  <2>1. k'.locks = 1 => k.missed = 0
    BY <1>5
  <2>2. \A u \in Task \ {t} : Onward(k, H, k', H1, u, k.missed)
    BY <1>5
  <2>3. k'.running /\ (k'.locks = 0 => k'.pending = <<>> /\ k'.missed = 0)
    BY <1>2, <1>5
  <2>4. QED
    BY <1>2, <1>3, <1>4, <1>5, <1>6, <1>7, <1>8, <1>9, <2>1, <2>2, <2>3, FrameOn
<1>11. QED
  BY <1>2, <1>5, <1>6, <1>10

-----------------------------------------------------------------------------
\* The context is switched.
LEMMA SwitchedFacts ==
  ASSUME NEW H, Frames(H), k.running, k.locks = 0, k' = vTaskSwitchContext(k)
  PROVE  /\ Good(k', H) /\ Times(k', H) /\ Frees(k, H, k', H) /\ Highest(k', H)
         /\ \A u \in Task : Onward(k, H, k', H, u, 0)
         /\ Counts(k, k', 0) /\ k'.running /\ k'.prio = k.prio /\ k'.base = k.base
         /\ k'.item = k'.prio /\ k'.locks = 0 /\ k'.missed = 0 /\ k'.missed <= MaxMissed
         /\ k'.pending = <<>> /\ k'.current \in Task /\ H[k'.current] = "ready"
         /\ k'.waiting = k.waiting
<1>1. /\ Good(k, H) /\ Times(k, H) /\ Apart(k, H) /\ k \in Kernels /\ H \in [Task -> Places]
      /\ k.item = k.prio /\ k.missed <= MaxMissed /\ k.pending = <<>> /\ k.missed = 0
      /\ Idle \in Task /\ H[Idle] = "ready" /\ k.current \in Task
  BY FrameFacts
<1>2. /\ Good(k', H) /\ Times(k', H) /\ Highest(k', H) /\ Fixed(k, k')
      /\ k'.pending = k.pending /\ k'.waiting = k.waiting /\ k'.wake = k.wake
  BY <1>1, SwitchedOn
<1>3. /\ k'.running = k.running /\ k'.tick = k.tick /\ k'.overflows = k.overflows
      /\ k'.item = k.item /\ k'.prio = k.prio /\ k'.base = k.base /\ k'.locks = k.locks
      /\ k'.missed = k.missed
  BY <1>2 DEF Fixed
<1>4. \A u \in Task : Onward(k, H, k', H, u, 0)
  BY <1>1, <1>2, <1>3, StaysOnward
<1>5. Counts(k, k', 0)
  BY <1>1, <1>3, KernelNumbers, Numbers DEF Counts
<1>6. k'.current \in Task /\ H[k'.current] = "ready"
  BY <1>2 DEF Highest
<1>7. Frees(k, H, k', H)
  BY <1>1, <1>2, FreesNobody
<1>8. QED
  BY <1>1, <1>2, <1>3, <1>4, <1>5, <1>6, <1>7

\* and yields.
LEMMA YieldsFrame ==
  ASSUME NEW H, Frames(H), NEW t \in Task, Yields(t), call' = call, q' = q
  PROVE  /\ Turns(H, t, 0, H) /\ Onward(k, H, k', H, t, 0) /\ Highest(k', H)
         /\ k'.prio = k.prio /\ k'.base = k.base /\ k'.waiting = k.waiting
         /\ at'[t] # "call" /\ at[t] # "call"
<1>1. Runs(t, "yield") /\ k' = vTaskSwitchContext(k) /\ at' = [at EXCEPT ![t] = "task"]
  BY DEF Yields, KernelBecomes, GoesTo
<1>2. k.running /\ k.current = t /\ at[t] = "yield"
  BY <1>1 DEF Runs
<1>3. /\ at[Idle] = "task" /\ k.locks \in {0, 1} /\ at \in [Task -> Spots] /\ call \in [Task -> AllCalls]
      /\ Standing(k, at, call, H, t) /\ H \in [Task -> Places]
  BY <1>2, FrameFacts
<1>4. k.locks = 0 /\ t # Idle
  BY <1>2, <1>3 DEF Standing, Holding, InCall
<1>5. /\ Good(k', H) /\ Times(k', H) /\ Frees(k, H, k', H) /\ Highest(k', H)
      /\ \A u \in Task : Onward(k, H, k', H, u, 0)
      /\ Counts(k, k', 0) /\ k'.running /\ k'.prio = k.prio /\ k'.base = k.base
      /\ k'.item = k'.prio /\ k'.locks = 0 /\ k'.missed = 0 /\ k'.missed <= MaxMissed
      /\ k'.pending = <<>> /\ k'.current \in Task /\ H[k'.current] = "ready"
      /\ k'.waiting = k.waiting
  BY <1>1, <1>2, <1>4, SwitchedFacts
<1>6. /\ at' \in [Task -> Spots] /\ at'[t] = "task" /\ \A u \in Task \ {t} : at'[u] = at[u]
  BY <1>1, <1>3 DEF Spots
<1>7. Standing(k', at', call', H, t)
  <2>1. ~Holding(at', call', t)
    BY <1>6 DEF Holding, InCall
  <2>2. H[t] # "none" /\ at[t] # "call" /\ at'[t] \notin {"call", "nowhere"}
    BY <1>2, <1>3, <1>6 DEF Standing
  <2>3. Proceeds(call[t], call'[t]) /\ ~(k'.locks = 1 /\ k'.current = t)
    BY <1>5 DEF Proceeds
  <2>4. Onward(k, H, k', H, t, 0)
    BY <1>5
  <2>5. QED
    BY <1>3, <2>1, <2>2, <2>3, <2>4, StandingOn
<1>8. AtWork(k', at', call', H)
  BY <1>5 DEF AtWork
<1>9. Owned(call', q') /\ Latched(at', call', q')
  BY <1>2, <1>6, QueueStays
<1>10. Turns(H, t, 0, H)
  <2>1. \A u \in Task \ {t} : Onward(k, H, k', H, u, 0)
    BY <1>5
  <2>2. QED
    BY <1>2, <1>3, <1>4, <1>5, <1>6, <1>7, <1>8, <1>9, <2>1, FrameOn, MissedNumbers
<1>11. QED
  BY <1>2, <1>5, <1>6, <1>10

-----------------------------------------------------------------------------
\* The lists of the queue are the two event lists.
LEMMA TwoLists ==
  /\ EventList = {"send", "receive"} /\ \A op : ListOf(op) \in EventList
  /\ IsFiniteSet(Task) /\ Interrupt \notin Task
BY QueuesAssumption DEF ListOf

\* The owner does not change when a call goes on outside the queue.
LEMMA OwnedGoes ==
  ASSUME NEW H, Frames(H), k.running, NEW t \in Task, NEW c, Continues(t, c), q' = q,
         c.step # "place", q.kind \in Mutexes /\ c.op = "send" => c.step = "try"
  PROVE  Owned(call', q')
<1>1. q.kind \in Mutexes => q'.txLock <= 0 /\ q'.rxLock <= 0
  BY DEF Frames, Frame, Owned
<1>2. QED
  BY <1>1, OwnedContinues

\* A call yields after it has blocked,
LEMMA YieldsInCallFrame ==
  ASSUME NEW H, Frames(H), NEW t \in Task, YieldsInCall(t)
  PROVE  /\ Turns(H, t, 0, H) /\ Onward(k, H, k', H, t, 0) /\ Highest(k', H)
         /\ k'.prio = k.prio /\ k'.base = k.base /\ k'.waiting = k.waiting
         /\ q' = q /\ answer' = None /\ Continues(t, StepTo(call[t], "try"))
<1>1. Is(t, Waiters, "yield") /\ k' = vTaskSwitchContext(k) /\ Goes(t, "try") /\ q' = q
  BY DEF YieldsInCall, KernelBecomes
<1>2. /\ k.running /\ k.current = t /\ at[t] = "call" /\ t # Idle /\ call[t].step = "yield"
      /\ call[t].op # "none" /\ k.locks # 1
  BY <1>1, InTheCall DEF Inside
<1>3. /\ k.locks \in {0, 1} /\ call[t] \in AllCalls /\ Standing(k, at, call, H, t)
      /\ H \in [Task -> Places]
  BY <1>2, FrameFacts
<1>4. /\ Good(k', H) /\ Times(k', H) /\ Frees(k, H, k', H) /\ Highest(k', H)
      /\ \A u \in Task : Onward(k, H, k', H, u, 0)
      /\ Counts(k, k', 0) /\ k'.running /\ k'.prio = k.prio /\ k'.base = k.base
      /\ k'.item = k'.prio /\ k'.locks = 0 /\ k'.missed = 0 /\ k'.missed <= MaxMissed
      /\ k'.pending = <<>> /\ k'.current \in Task /\ H[k'.current] = "ready"
      /\ k'.waiting = k.waiting
  BY <1>1, <1>2, <1>3, SwitchedFacts
<1> DEFINE c == StepTo(call[t], "try")
<1>5. Continues(t, c) /\ answer' = None /\ c.op = call[t].op /\ c.step = "try" /\ c.ticks = call[t].ticks
  BY <1>1, <1>2, <1>3, GoesContinues, StepFields DEF Steps, Inside
<1> HIDE DEF c
<1>6. /\ at' \in [Task -> Spots] /\ call' \in [Task -> AllCalls]
      /\ call'[t] = c /\ at'[t] = at[t]
      /\ \A u \in Task \ {t} : at'[u] = at[u] /\ call'[u] = call[u]
  BY <1>2, <1>5, ContinuesFacts
<1>7. Standing(k', at', call', H, t)
  <2>1. ~Holding(at', call', t)
    BY <1>2, <1>5, <1>6 DEF Holding, InCall, Inside
  <2>2. Proceeds(call[t], call'[t]) /\ ~(k'.locks = 1 /\ k'.current = t)
    BY <1>2, <1>4, <1>5, <1>6 DEF Proceeds, After, Resting1
  <2>3. Onward(k, H, k', H, t, 0)
    BY <1>4
  <2>4. QED
    BY <1>3, <1>6, <2>1, <2>2, <2>3, StandingOn
<1>8. AtWork(k', at', call', H)
  BY <1>4 DEF AtWork
<1>9. Owned(call', q')
  BY <1>1, <1>2, <1>5, OwnedGoes
<1>10. Latched(at', call', q')
  <2>1. /\ ~InCall(at, call, t, Latches \cup {"unlockRx"})
        /\ ~InCall(at', call', t, Latches \cup {"unlockRx"})
    BY <1>2, <1>5, <1>6 DEF InCall, Latches
  <2>2. QED
    BY <1>1, <1>2, <1>6, <2>1, LatchedOutside
<1>11. Turns(H, t, 0, H)
  <2>1. \A u \in Task \ {t} : Onward(k, H, k', H, u, 0)
    BY <1>4
  <2>2. QED
    BY <1>2, <1>3, <1>4, <1>6, <1>7, <1>8, <1>9, <1>10, <2>1, FrameOn, MissedNumbers
<1>12. QED
  BY <1>1, <1>4, <1>5, <1>11 DEF c

-----------------------------------------------------------------------------
\* xTaskResumeAll, in a call.
LEMMA ResumesFrame ==
  ASSUME NEW H, Frames(H), NEW t \in Task, Resumes(t)
  PROVE  \E H1 \in [Task -> Places] :
           /\ Turns(H, t, k.missed, H1) /\ Onward(k, H, k', H1, t, k.missed)
           /\ Frees(k, H, k', H1) /\ k'.prio = k.prio /\ k'.base = k.base /\ k'.locks = 0
           /\ AlreadyYielded(k) => Highest(k', H1)
           /\ ~AlreadyYielded(k) => k'.current = k.current
           /\ Highest(k, H) => Highest(k', H1)
           /\ q' = q
           /\ IF call[t].ticks = 0
              THEN /\ Ends(t) /\ ~Waits(k, t)
                   /\ answer' = [to |-> t, says |-> IF call[t].op = "send" THEN "full" ELSE "empty"]
              ELSE /\ answer' = None
                   /\ \E s \in {"yield", "try"} :
                        /\ Continues(t, StepTo(call[t], s))
                        /\ s = "yield" <=> H[t] # "ready" /\ ~AlreadyYielded(k)
<1>1. Is(t, Waiters, "resume") /\ k' = xTaskResumeAll(k) /\ q' = q
  BY DEF Resumes, KernelBecomes
<1>2. /\ k.running /\ k.current = t /\ at[t] = "call" /\ t # Idle /\ call[t].step = "resume"
      /\ call[t].op # "none" /\ k.locks = 1
  BY <1>1, InTheCall DEF Inside
<1>3. /\ call[t] \in AllCalls /\ Standing(k, at, call, H, t) /\ Good(k, H) /\ k \in Kernels
  BY <1>2, FrameFacts
<1>4. PICK H1 \in [Task -> Places] :
           /\ Good(k', H1) /\ Times(k', H1) /\ Frees(k, H, k', H1)
           /\ \A u \in Task : Onward(k, H, k', H1, u, k.missed)
           /\ Counts(k, k', k.missed) /\ k.missed \in 0 .. MaxDelay
           /\ k'.running = k.running /\ k'.prio = k.prio /\ k'.base = k.base /\ k'.item = k'.prio
           /\ k'.locks = 0 /\ k'.missed = 0 /\ k'.pending = <<>> /\ k'.missed <= MaxMissed
           /\ k'.current \in Task
           /\ AlreadyYielded(k) => Highest(k', H1)
           /\ ~AlreadyYielded(k) => k'.current = k.current
           /\ Highest(k, H) => Highest(k', H1)
  BY <1>1, <1>2, ResumedFacts
<1>5. Onward(k, H, k', H1, t, k.missed) /\ \A u \in Task \ {t} : Onward(k, H, k', H1, u, k.missed)
  BY <1>4
<1>6. ASSUME at' \in [Task -> Spots], call' \in [Task -> AllCalls],
             \A u \in Task \ {t} : at'[u] = at[u] /\ call'[u] = call[u],
             Standing(k', at', call', H1, t), ~AlreadyYielded(k) => AtWork(k', at', call', H1),
             ~InCall(at', call', t, Latches \cup {"unlockRx"}), Owned(call', q')
      PROVE  Turns(H, t, k.missed, H1)
  <2>1. Latched(at', call', q')
    <3>1. ~InCall(at, call, t, Latches \cup {"unlockRx"})
      BY <1>2 DEF InCall, Latches
    <3>2. QED
      BY <1>1, <1>2, <1>6, <3>1, LatchedOutside
  <2>2. IF k'.current = t THEN AtWork(k', at', call', H1) ELSE H1[k'.current] = "ready"
    BY <1>2, <1>4, <1>6 DEF Highest, AtWork
  <2>3. k'.locks = 1 => k.missed = 0
    BY <1>4
  <2>4. k'.running /\ (k'.locks = 0 => k'.pending = <<>> /\ k'.missed = 0)
    BY <1>2, <1>4
  <2>5. QED
    BY <1>2, <1>4, <1>5, <1>6, <2>1, <2>2, <2>3, <2>4, FrameOn
<1>7. CASE call[t].ticks = 0
  <2>1. Ends(t) /\ answer' = [to |-> t, says |-> IF call[t].op = "send" THEN "full" ELSE "empty"]
    BY <1>7, ReturnsEnds DEF Resumes
  <2>2. /\ at' \in [Task -> Spots] /\ call' \in [Task -> AllCalls]
        /\ call'[t] = NoCall /\ at'[t] = "task"
        /\ \A u \in Task \ {t} : at'[u] = at[u] /\ call'[u] = call[u]
    BY <1>2, <2>1, EndsFacts
  <2>3. H[t] = "ready" /\ ~Waits(k, t)
    BY <1>2, <1>3, <1>7 DEF Standing
  <2>4. H1[t] = "ready" /\ ~Waits(k', t) /\ ~Contains(k'.pending, t)
    <3>1. H1[t] = "ready"
      BY <1>5, <2>3 DEF Onward
    <3>2. ~Waits(k', t)
      BY <1>5, <2>3 DEF Onward, Waits
    <3>3. ~Contains(k'.pending, t)
      BY <1>4, EmptyList
    <3>4. QED
      BY <3>1, <3>2, <3>3
  <2>5. Standing(k', at', call', H1, t)
    BY <1>4, <2>2, <2>4, StandingEnded
  <2>6. ~AlreadyYielded(k) => AtWork(k', at', call', H1)
    BY <1>2, <1>4, <2>4 DEF AtWork
  <2>7. Owned(call', q')
    BY <1>1, <1>2, <2>1, OwnedEnds
  <2>8. ~InCall(at', call', t, Latches \cup {"unlockRx"})
    BY <2>2 DEF InCall
  <2>9. Turns(H, t, k.missed, H1)
    BY <1>6, <2>2, <2>5, <2>6, <2>7, <2>8
  <2>10. QED
    BY <1>1, <1>4, <1>5, <1>7, <2>1, <2>3, <2>9
<1>8. CASE call[t].ticks # 0
  <2> DEFINE s == IF HasBlocked(t) /\ ~AlreadyYielded(k) THEN "yield" ELSE "try"
             c == StepTo(call[t], s)
  <2>1. Goes(t, s)
    BY <1>8 DEF Resumes
  <2>2. s \in Steps \ {"none"} /\ s \in Steps /\ s \in {"yield", "try"}
        /\ (s = "yield" <=> HasBlocked(t) /\ ~AlreadyYielded(k))
    BY DEF Steps, Inside
  <2> HIDE DEF s
  <2>3. Continues(t, c) /\ answer' = None
    BY <1>2, <2>1, <2>2, GoesContinues
  <2>4. c.op = call[t].op /\ c.step = s /\ c.ticks = call[t].ticks
    BY <1>3, <2>2, StepFields
  <2> HIDE DEF c
  <2>5. /\ at' \in [Task -> Spots] /\ call' \in [Task -> AllCalls]
        /\ call'[t] = c /\ at'[t] = at[t]
        /\ \A u \in Task \ {t} : at'[u] = at[u] /\ call'[u] = call[u]
    BY <1>2, <2>3, ContinuesFacts
  <2>6. HasBlocked(t) <=> H[t] # "ready"
    BY <1>3 DEF HasBlocked, IsReady, Good, HasPlace, Kernels
  <2>7. Standing(k', at', call', H1, t)
    <3>1. ~Holding(at', call', t)
      BY <1>2, <2>2, <2>4, <2>5 DEF Holding, InCall, Inside
    <3>2. Proceeds(call[t], call'[t]) /\ ~(k'.locks = 1 /\ k'.current = t)
      BY <1>2, <1>4, <1>8, <2>2, <2>4, <2>5 DEF Proceeds, After
    <3>3. QED
      BY <1>3, <1>5, <2>5, <3>1, <3>2, StandingOn
  <2>8. ~AlreadyYielded(k) => AtWork(k', at', call', H1)
    <3>1. SUFFICES ASSUME ~AlreadyYielded(k)
                   PROVE  AtWork(k', at', call', H1)
      OBVIOUS
    <3>2. CASE HasBlocked(t)
      BY <1>2, <1>4, <2>2, <2>4, <2>5, <3>1, <3>2 DEF AtWork, InCall, After
    <3>3. CASE ~HasBlocked(t)
      BY <1>2, <1>4, <1>5, <2>6, <3>1, <3>3 DEF AtWork, Onward
    <3>4. QED
      BY <3>2, <3>3
  <2>9. Owned(call', q')
    <3>1. q.kind \in Mutexes => c.op # "send"
      BY <1>2, <2>4, NoSenderWaits
    <3>2. c.step # "place"
      BY <2>2, <2>4
    <3>3. QED
      BY <1>1, <1>2, <2>3, <3>1, <3>2, OwnedGoes
  <2>10. ~InCall(at', call', t, Latches \cup {"unlockRx"})
    BY <2>2, <2>4, <2>5 DEF InCall, Latches
  <2>11. Turns(H, t, k.missed, H1)
    BY <1>6, <2>5, <2>7, <2>8, <2>9, <2>10
  <2>12. QED
    BY <1>1, <1>4, <1>5, <1>8, <2>2, <2>3, <2>6, <2>11 DEF c
<1>9. QED
  BY <1>7, <1>8

-----------------------------------------------------------------------------
\* A part of prvUnlockQueue: the first n that wait on e are woken.
LEMMA WakesFrame ==
  ASSUME NEW H, Frames(H), NEW t \in Task, NEW s0 \in {"unlockTx", "unlockRx"},
         Is(t, Waiters, s0), NEW s1 \in {"unlockRx", "resume"}, Goes(t, s1),
         NEW e \in EventList, NEW n \in Nat, k' = WakeUpTo(n, e),
         q'.kind = q.kind, q'.length = q.length, q'.holder = q.holder, q'.count = q.count,
         q'.txLock = Unlocked, q'.rxLock >= -1, q'.rxLock # Unlocked <=> s1 = "unlockRx",
         q.kind \in Mutexes => q'.rxLock <= 0
  PROVE  /\ Turns(H, t, 0, H) /\ Onward(k, H, k', H, t, 0) /\ Frees(k, H, k', H)
         /\ answer' = None /\ Continues(t, StepTo(call[t], s1))
         /\ k'.prio = k.prio /\ k'.base = k.base /\ k'.current = t /\ k'.locks = 1
         /\ \A f \in EventList \ {e}, u \in Task :
              Contains(k'.waiting[f], u) <=> Contains(k.waiting[f], u)
         /\ IsFiniteSet(Gone(k, k', e)) /\ Cardinality(Gone(k, k', e)) \in Nat
         /\ n <= Cardinality(Gone(k, k', e)) \/ k'.waiting[e] = <<>>
<1>1. /\ k.running /\ k.current = t /\ at[t] = "call" /\ t # Idle /\ call[t].step = s0
      /\ call[t].op # "none" /\ k.locks = 1
  <2>1. s0 \in Inside
    BY DEF Inside
  <2>2. QED
    BY <2>1, InTheCall
<1>2. /\ Good(k, H) /\ Times(k, H) /\ Apart(k, H) /\ k \in Kernels /\ H \in [Task -> Places]
      /\ k.item = k.prio /\ k.missed <= MaxMissed /\ call[t] \in AllCalls
      /\ Standing(k, at, call, H, t)
  BY <1>1, FrameFacts
<1>3. /\ Good(k', H) /\ Times(k', H) /\ Frees(k, H, k', H)
      /\ Fixed(k, k') /\ k'.wake = k.wake /\ k'.current = k.current
      /\ \A f \in EventList \ {e}, u \in Task :
           Contains(k'.waiting[f], u) <=> Contains(k.waiting[f], u)
      /\ IsFiniteSet(Gone(k, k', e)) /\ Cardinality(Gone(k, k', e)) \in Nat
      /\ n <= Cardinality(Gone(k, k', e)) \/ k'.waiting[e] = <<>>
  BY <1>1, <1>2, WokeUpTo
<1>4. /\ k'.running = k.running /\ k'.tick = k.tick /\ k'.overflows = k.overflows
      /\ k'.item = k.item /\ k'.prio = k.prio /\ k'.base = k.base
      /\ k'.locks = k.locks /\ k'.missed = k.missed
  BY <1>3 DEF Fixed
<1>5. \A u \in Task : Onward(k, H, k', H, u, 0)
  <2>1. \A u \in Task : Rest(k, H, u) \in Int
    BY <1>2, KernelNumbers, Numbers DEF Rest
  <2>2. SleepsOn(k, H, k', H, 0)
    BY <1>3, <1>4, <2>1, SleepsAlike
  <2>3. QED
    BY <1>3, <2>2, FreesOnward
<1>6. Counts(k, k', 0) /\ 0 \in 0 .. MaxDelay
  BY <1>2, <1>4, KernelNumbers, Numbers DEF Counts
<1> DEFINE c == StepTo(call[t], s1)
<1>7. s1 \in Steps \ {"none"} /\ s1 \in Steps
  BY DEF Steps, Inside
<1>8. Continues(t, c) /\ answer' = None /\ c.op = call[t].op /\ c.step = s1 /\ c.ticks = call[t].ticks
  BY <1>1, <1>2, <1>7, GoesContinues, StepFields
<1> HIDE DEF c
<1>9. /\ at' \in [Task -> Spots] /\ call' \in [Task -> AllCalls]
      /\ call'[t] = c /\ at'[t] = at[t]
      /\ \A u \in Task \ {t} : at'[u] = at[u] /\ call'[u] = call[u]
  BY <1>1, <1>8, ContinuesFacts
<1>10. Standing(k', at', call', H, t)
  <2>1. Proceeds(call[t], call'[t])
    BY <1>1, <1>8, <1>9 DEF Proceeds, After, Resting1
  <2>2. Holding(at', call', t) /\ k'.locks = 1 /\ k'.current = t
    BY <1>1, <1>3, <1>4, <1>8, <1>9 DEF Holding, InCall, Inside
  <2>3. Onward(k, H, k', H, t, 0)
    BY <1>5
  <2>4. QED
    BY <1>2, <1>9, <2>1, <2>2, <2>3, StandingOn
<1>11. AtWork(k', at', call', H)
  BY <1>1, <1>3, <1>8, <1>9 DEF AtWork, InCall, After
<1>12. Owned(call', q')
  <2>1. q.kind \in Mutexes => c.op # "send"
    BY <1>1, <1>8, NoSenderWaits
  <2>2. c.step # "place" /\ q'.txLock <= 0
    BY <1>8 DEF Unlocked
  <2>3. QED
    BY <1>1, <1>8, <2>1, <2>2, OwnedContinues
<1>13. Latched(at', call', q')
  <2>1. ~InCall(at', call', t, Latches) /\ (InCall(at', call', t, Latches \cup {"unlockRx"}) <=> s1 = "unlockRx")
    BY <1>1, <1>8, <1>9 DEF InCall, Latches
  <2>2. q'.txLock >= -1
    BY DEF Unlocked
  <2>3. QED
    BY <1>1, <1>9, <2>1, <2>2, LatchedInside
<1>14. Turns(H, t, 0, H)
  <2>1. k'.locks = 0 => k'.pending = <<>> /\ k'.missed = 0
    BY <1>1, <1>4
  <2>2. \A u \in Task \ {t} : Onward(k, H, k', H, u, 0)
    BY <1>5
  <2>3. /\ k'.running /\ k'.item = k'.prio /\ k'.missed <= MaxMissed
        /\ k'.current \in Task /\ k'.current = t /\ t \in Task \ {Idle}
    BY <1>1, <1>2, <1>3, <1>4
  <2>4. QED
    BY <1>1, <1>2, <1>3, <1>6, <1>9, <1>10, <1>11, <1>12, <1>13, <2>1, <2>2, <2>3, FrameOn
<1>15. QED
  BY <1>1, <1>3, <1>4, <1>5, <1>8, <1>14 DEF c

\* prvUnlockQueue, for what was sent,
LEMMA UnlocksTxFrame ==
  ASSUME NEW H, Frames(H), NEW t \in Task, ChannelInvariant, UnlocksTx(t)
  PROVE  /\ Turns(H, t, 0, H) /\ Onward(k, H, k', H, t, 0) /\ Frees(k, H, k', H)
         /\ answer' = None /\ Continues(t, StepTo(call[t], "unlockRx"))
         /\ q'.kind = q.kind /\ q'.count = q.count /\ q'.length = q.length /\ q'.holder = q.holder
         /\ q'.txLock = Unlocked /\ q'.rxLock = q.rxLock /\ q.txLock \in Nat
         /\ k'.prio = k.prio /\ k'.base = k.base /\ k'.current = t /\ k'.locks = 1
         /\ \A u \in Task : Contains(k'.waiting["send"], u) <=> Contains(k.waiting["send"], u)
         /\ IsFiniteSet(Gone(k, k', "receive")) /\ Cardinality(Gone(k, k', "receive")) \in Nat
         /\ q.txLock <= Cardinality(Gone(k, k', "receive")) \/ k'.waiting["receive"] = <<>>
<1>1. /\ Is(t, Waiters, "unlockTx") /\ Goes(t, "unlockRx") /\ k' = WakeUpTo(q.txLock, "receive")
      /\ q' = [q EXCEPT !.txLock = Unlocked]
  BY DEF UnlocksTx, KernelBecomes
<1>2. q \in Queues /\ q.txLock \in Int /\ q.rxLock \in Int
  BY DEF ChannelInvariant, QueueTypes, Queues
<1>3. /\ q'.kind = q.kind /\ q'.count = q.count /\ q'.length = q.length /\ q'.holder = q.holder
      /\ q'.txLock = Unlocked /\ q'.rxLock = q.rxLock
  BY <1>1, <1>2 DEF Queues
<1>4. /\ k.running /\ k.current = t /\ at[t] = "call" /\ call[t].step = "unlockTx"
  BY <1>1, InTheCall
<1>5. /\ q.txLock >= -1 /\ q.rxLock >= -1 /\ q.txLock # Unlocked /\ q.rxLock # Unlocked
  BY <1>4, LatchOf DEF InCall, Latches
<1>6. q.txLock \in Nat
  BY <1>2, <1>5 DEF Unlocked
<1>7. q.kind \in Mutexes => q'.rxLock <= 0
  BY <1>3 DEF Frames, Frame, Owned
<1>8. "receive" \in EventList /\ "send" \in EventList \ {"receive"}
  BY TwoLists
<1>9. QED
  BY <1>1, <1>3, <1>5, <1>6, <1>7, <1>8, WakesFrame

\* and for what was received.
LEMMA UnlocksRxFrame ==
  ASSUME NEW H, Frames(H), NEW t \in Task, ChannelInvariant, UnlocksRx(t)
  PROVE  /\ Turns(H, t, 0, H) /\ Onward(k, H, k', H, t, 0) /\ Frees(k, H, k', H)
         /\ answer' = None /\ Continues(t, StepTo(call[t], "resume"))
         /\ q'.kind = q.kind /\ q'.count = q.count /\ q'.length = q.length /\ q'.holder = q.holder
         /\ q.txLock = Unlocked /\ q'.txLock = Unlocked /\ q'.rxLock = Unlocked /\ q.rxLock \in Nat
         /\ k'.prio = k.prio /\ k'.base = k.base /\ k'.current = t /\ k'.locks = 1
         /\ \A u \in Task : Contains(k'.waiting["receive"], u) <=> Contains(k.waiting["receive"], u)
         /\ IsFiniteSet(Gone(k, k', "send")) /\ Cardinality(Gone(k, k', "send")) \in Nat
         /\ q.rxLock <= Cardinality(Gone(k, k', "send")) \/ k'.waiting["send"] = <<>>
<1>1. /\ Is(t, Waiters, "unlockRx") /\ Goes(t, "resume") /\ k' = WakeUpTo(q.rxLock, "send")
      /\ q' = [q EXCEPT !.rxLock = Unlocked]
  BY DEF UnlocksRx, KernelBecomes
<1>2. q \in Queues /\ q.txLock \in Int /\ q.rxLock \in Int
  BY DEF ChannelInvariant, QueueTypes, Queues
<1>3. /\ q'.kind = q.kind /\ q'.count = q.count /\ q'.length = q.length /\ q'.holder = q.holder
      /\ q'.txLock = q.txLock /\ q'.rxLock = Unlocked
  BY <1>1, <1>2 DEF Queues
<1>4. /\ k.running /\ k.current = t /\ at[t] = "call" /\ call[t].step = "unlockRx"
  BY <1>1, InTheCall
<1>5. /\ q.txLock >= -1 /\ q.rxLock >= -1 /\ q.txLock = Unlocked /\ q.rxLock # Unlocked
  BY <1>4, LatchOf DEF InCall, Latches
<1>6. q.rxLock \in Nat
  BY <1>2, <1>5 DEF Unlocked
<1>7. q'.rxLock <= 0 /\ q'.rxLock >= -1
  BY <1>3 DEF Unlocked
<1>8. "send" \in EventList /\ "receive" \in EventList \ {"send"}
  BY TwoLists
<1>9. QED
  BY <1>1, <1>3, <1>5, <1>6, <1>7, <1>8, WakesFrame

-----------------------------------------------------------------------------
\* The current task t has stopped in k1, on the list of its call, for n ticks.
Placed(H, t, k1, l, n) ==
  LET H1 == Move(H, t, l)
      e  == ListOf(call[t].op) IN
  /\ Good(k1, H1) /\ Times(k1, H1) /\ H1 \in [Task -> Places]
  /\ \A u \in Task \ {t} : Onward(k, H, k1, H1, u, 0)
  /\ k1.running = k.running /\ k1.tick = k.tick /\ k1.overflows = k.overflows
  /\ k1.base = k.base /\ k1.locks = k.locks /\ k1.missed = k.missed
  /\ k1.missedYield = k.missedYield /\ k1.pending = k.pending
  /\ k1.item = k1.prio
  /\ k1.prio = IF IsMutex THEN [k.prio EXCEPT ![q.holder] = MaxOf(k.prio[q.holder], k.prio[t])]
                          ELSE k.prio
  /\ l = "suspended" <=> n = MaxDelay
  /\ l \in Asleep => Rest(k1, H1, t) = n
  /\ \A u : Contains(k1.waiting[e], u) <=> Contains(k.waiting[e], u) \/ u = t
  /\ \A f \in EventList \ {e} : k1.waiting[f] = k.waiting[f]
  /\ InOrder(k.waiting[e], EventValue(k1)) => InOrder(k1.waiting[e], EventValue(k1))

\* The current task blocks,
LEMMA BlockedOn ==
  ASSUME NEW H, Frames(H), NEW t \in Task, k.running, k.current = t, H[t] = "ready",
         ~Waits(k, t), ~Contains(k.pending, t), NEW n \in 1 .. MaxDelay,
         IsMutex => q.holder \in Task, NEW k1, k1 = Blocked(t, k, n)
  PROVE  \E l \in Stopped : Placed(H, t, k1, l, n) /\ k1.current = k.current
<1> DEFINE e  == ListOf(call[t].op)
           km == IF IsMutex THEN vTaskPriorityInherit(k, q.holder) ELSE k
<1>1. /\ Good(k, H) /\ Times(k, H) /\ Apart(k, H) /\ k \in Kernels /\ H \in [Task -> Places]
      /\ k.item = k.prio
  BY FrameFacts
<1>2. e \in EventList
  BY TwoLists
<1>3. k1 = vTaskPlaceOnEventList(km, e, n)
  BY DEF Blocked
<1>4. /\ Good(km, H) /\ Times(km, H)
      /\ km.running = k.running /\ km.current = k.current /\ km.tick = k.tick
      /\ km.overflows = k.overflows /\ km.base = k.base /\ km.locks = k.locks
      /\ km.missed = k.missed /\ km.missedYield = k.missedYield /\ km.pending = k.pending
      /\ km.waiting = k.waiting /\ km.item = km.prio
      /\ km.prio = IF IsMutex THEN [k.prio EXCEPT ![q.holder] = MaxOf(k.prio[q.holder], k.prio[t])]
                              ELSE k.prio
      /\ \A u \in Task : H[u] \in Asleep => km.wake[u] = k.wake[u]
  <2>1. CASE ~IsMutex
    BY <1>1, <2>1
  <2>2. CASE IsMutex
    <3>1. km = vTaskPriorityInherit(k, q.holder) /\ q.holder \in Task
      BY <2>2
    <3> HIDE DEF km
    <3>2. /\ Good(km, H) /\ Times(km, H)
          /\ Lends(k, km, q.holder, MaxOf(k.prio[q.holder], k.prio[k.current]))
          /\ \A u \in Task : H[u] \in Asleep => km.wake[u] = k.wake[u]
      BY <1>1, <3>1, Inherited
    <3>3. QED
      BY <1>1, <2>2, <3>2 DEF Lends
  <2>3. QED
    BY <2>1, <2>2
<1>5. ~Contains(k.waiting[e], t)
  BY <1>2 DEF Waits
<1> HIDE DEF km, e
<1>6. PICK l \in Stopped :
           /\ Stops(km, H, k1, l, n) /\ (l = "suspended" <=> n = MaxDelay)
           /\ \A u : Contains(k1.waiting[e], u) <=> Contains(km.waiting[e], u) \/ u = km.current
           /\ \A f \in EventList \ {e} : k1.waiting[f] = km.waiting[f]
           /\ InOrder(km.waiting[e], EventValue(km)) => InOrder(k1.waiting[e], EventValue(km))
  <2>1. km.current \in Task /\ H[km.current] = "ready" /\ ~Contains(km.waiting[e], km.current)
    BY <1>4, <1>5
  <2>2. QED
    BY <1>2, <1>3, <1>4, <2>1, PlacedOn
<1>7. /\ Good(k1, Move(H, t, l)) /\ Times(k1, Move(H, t, l))
      /\ Fixed(km, k1) /\ k1.current = km.current /\ k1.missedYield = km.missedYield
      /\ k1.pending = km.pending
      /\ l \in Asleep => Rest(k1, Move(H, t, l), t) = n
      /\ \A u \in Task \ {t} : k1.wake[u] = km.wake[u]
  BY <1>4, <1>6 DEF Stops
<1>8. /\ k1.running = km.running /\ k1.tick = km.tick /\ k1.overflows = km.overflows
      /\ k1.item = km.item /\ k1.prio = km.prio /\ k1.base = km.base
      /\ k1.locks = km.locks /\ k1.missed = km.missed
  BY <1>7 DEF Fixed
<1>9. EventValue(km) = EventValue(k1)
  BY <1>8 DEF EventValue
<1>10. l \in Places
  BY DEF Stopped, Places
<1>11. /\ Move(H, t, l) \in [Task -> Places] /\ \A u \in Task \ {t} : Move(H, t, l)[u] = H[u]
  BY <1>1, <1>10, MoveFacts
<1>12. \A f \in EventList, u \in Task \ {t} : Contains(k1.waiting[f], u) <=> Contains(k.waiting[f], u)
  BY <1>2, <1>4, <1>6
<1>13. ASSUME NEW u \in Task \ {t}
       PROVE  Onward(k, H, k1, Move(H, t, l), u, 0)
  <2> DEFINE H1 == Move(H, t, l)
  <2>1. H1[u] = H[u]
    BY <1>11
  <2>2. H[u] \in Asleep => k1.wake[u] = k.wake[u]
    BY <1>4, <1>7
  <2>3. k1.tick = k.tick /\ (Contains(k1.pending, u) <=> Contains(k.pending, u))
    BY <1>4, <1>7, <1>8
  <2> HIDE DEF H1
  <2>4. Onward(k, H, k1, H1, u, 0)
    BY <1>1, <1>12, <2>1, <2>2, <2>3, StaysOnward
  <2>5. QED
    BY <2>4 DEF H1
<1>14. Placed(H, t, k1, l, n)
  BY <1>4, <1>6, <1>7, <1>8, <1>9, <1>11, <1>13 DEF Placed, e
<1>15. QED
  BY <1>4, <1>7, <1>14

-----------------------------------------------------------------------------
\* for a mutex that somebody holds,
LEMMA HolderWhenTaken ==
  ASSUME NEW H, Frames(H), ChannelInvariant, IsMutex, q.count = 0
  PROVE  q.holder \in Task
<1>1. q.holder # None /\ q.holder \in Task \cup {None}
  BY DEF Frames, Frame, Owned, ChannelInvariant, QueueTypes, Queues, IsMutex
<1>2. QED
  BY <1>1

\* while the scheduler is suspended,
LEMMA PlacesFrame ==
  ASSUME NEW H, Frames(H), NEW t \in Task, ChannelInvariant, Places1(t)
  PROVE  \E l \in Stopped :
           /\ Turns(H, t, 0, Move(H, t, l)) /\ Placed(H, t, k', l, call[t].ticks)
           /\ IsMutex => q.holder \in Task /\ q.count = 0
           /\ H[t] = "ready" /\ ~Waits(k, t) /\ k.locks = 1
           /\ q' = q /\ answer' = None /\ Continues(t, StepTo(call[t], "unlockTx"))
           /\ k'.current = t
<1>1. /\ Is(t, Waiters, "place") /\ k' = Blocked(t, k, call[t].ticks) /\ Goes(t, "unlockTx") /\ q' = q
  BY DEF Places1, KernelBecomes
<1>2. /\ k.running /\ k.current = t /\ at[t] = "call" /\ t # Idle /\ call[t].step = "place"
      /\ call[t].op # "none" /\ k.locks = 1 /\ call[t].ticks # 0
      /\ H[t] = "ready" /\ ~Waits(k, t) /\ ~Contains(k.pending, t)
  BY <1>1, InTheCall DEF Inside, Resting1, After
<1>3. /\ k.missed <= MaxMissed /\ call[t] \in AllCalls /\ Standing(k, at, call, H, t) /\ k \in Kernels
  BY <1>2, FrameFacts
<1>4. call[t].ticks \in 1 .. MaxDelay
  BY <1>2, <1>3, CallFields, Numbers
<1>5. IsMutex => q.count = 0 /\ q.holder \in Task
  <2>1. IsMutex => q.count = 0
    BY <1>2 DEF Frames, Frame, Owned, IsMutex
  <2>2. QED
    BY <2>1, HolderWhenTaken
<1>6. PICK l \in Stopped : Placed(H, t, k', l, call[t].ticks) /\ k'.current = k.current
  BY <1>1, <1>2, <1>4, <1>5, BlockedOn
<1> DEFINE H1 == Move(H, t, l)
           c == StepTo(call[t], "unlockTx")
<1>7. /\ Good(k', H1) /\ Times(k', H1) /\ H1 \in [Task -> Places]
      /\ \A u \in Task \ {t} : Onward(k, H, k', H1, u, 0)
      /\ k'.running = k.running /\ k'.tick = k.tick /\ k'.overflows = k.overflows
      /\ k'.base = k.base /\ k'.locks = k.locks /\ k'.missed = k.missed
      /\ k'.current = k.current /\ k'.pending = k.pending
      /\ k'.item = k'.prio
      /\ \A u : Contains(k'.waiting[ListOf(call[t].op)], u) <=> Contains(k.waiting[ListOf(call[t].op)], u) \/ u = t
      /\ \A f \in EventList \ {ListOf(call[t].op)} : k'.waiting[f] = k.waiting[f]
  BY <1>6 DEF Placed
<1>8. H1[t] = l
  <2>1. l \in Places /\ H \in [Task -> Places]
    BY <1>2, FrameFacts DEF Stopped, Places
  <2>2. QED
    BY <2>1, MoveFacts
<1>9. Counts(k, k', 0) /\ 0 \in 0 .. MaxDelay
  BY <1>3, <1>7, KernelNumbers, Numbers DEF Counts
<1>10. /\ Continues(t, c) /\ answer' = None /\ c.op = call[t].op /\ c.step = "unlockTx"
       /\ c.ticks = call[t].ticks
  BY <1>1, <1>2, <1>3, GoesContinues, StepFields DEF Steps, Inside
<1> HIDE DEF c
<1>11. /\ at' \in [Task -> Spots] /\ call' \in [Task -> AllCalls]
       /\ call'[t] = c /\ at'[t] = at[t]
       /\ \A u \in Task \ {t} : at'[u] = at[u] /\ call'[u] = call[u]
  BY <1>2, <1>10, ContinuesFacts
<1> HIDE DEF H1
<1>12. Standing(k', at', call', H1, t)
  <2>1. ListOf(call[t].op) \in EventList
    BY TwoLists
  <2>2. Waits(k', t)
    BY <1>7, <2>1 DEF Waits
  <2>3. \A e \in EventList : Contains(k'.waiting[e], t) => ListOf(c.op) = e
    BY <1>2, <1>7, <1>10, <2>1 DEF Waits
  <2>4. ~Contains(k'.pending, t)
    BY <1>2, <1>7
  <2>5. Holding(at', call', t)
    BY <1>2, <1>10, <1>11 DEF Holding, InCall, Inside
  <2>6. H1[t] # "none" /\ H1[t] # "terminated" /\ H1[t] # "ready"
    BY <1>8 DEF Stopped
  <2>7. QED
    BY <1>2, <1>7, <1>10, <1>11, <2>2, <2>3, <2>4, <2>5, <2>6 DEF Standing, After, Resting1
<1>13. AtWork(k', at', call', H1)
  BY <1>2, <1>7, <1>10, <1>11 DEF AtWork, InCall, After
<1>14. Owned(call', q')
  <2>1. q.kind \in Mutexes => c.op # "send"
    BY <1>2, <1>10, NoSenderWaits
  <2>2. c.step # "place"
    BY <1>10
  <2>3. QED
    BY <1>1, <1>2, <1>10, <2>1, <2>2, OwnedGoes
<1>15. Latched(at', call', q')
  <2>1. InCall(at', call', t, Latches) /\ InCall(at', call', t, Latches \cup {"unlockRx"})
    BY <1>2, <1>10, <1>11 DEF InCall, Latches
  <2>2. InCall(at, call, t, Latches) /\ InCall(at, call, t, Latches \cup {"unlockRx"})
    BY <1>2 DEF InCall, Latches
  <2>3. QED
    BY <1>1, <1>2, <1>11, <2>1, <2>2, LatchOf, LatchedInside
<1>16. Turns(H, t, 0, H1)
  <2>1. k'.locks = 0 => k'.pending = <<>> /\ k'.missed = 0
    BY <1>2, <1>7
  <2>2. QED
    BY <1>2, <1>3, <1>7, <1>9, <1>11, <1>12, <1>13, <1>14, <1>15, <2>1, FrameOn
<1>17. QED
  BY <1>1, <1>2, <1>5, <1>6, <1>10, <1>16 DEF H1, c

-----------------------------------------------------------------------------
\* or, in the alternative API, in a critical section
LEMMA PlacedThenSwitched ==
  ASSUME NEW H, Frames(H), NEW t \in Task \ {Idle}, k.running, k.locks = 0, NEW n, NEW k1,
         NEW l \in Stopped, Placed(H, t, k1, l, n), k' = vTaskSwitchContext(k1)
  PROVE  Placed(H, t, k', l, n) /\ Highest(k', Move(H, t, l))
<1> DEFINE H1 == Move(H, t, l)
           e  == ListOf(call[t].op)
<1>1. /\ Good(k1, H1) /\ Times(k1, H1) /\ H1 \in [Task -> Places]
      /\ \A u \in Task \ {t} : Onward(k, H, k1, H1, u, 0)
      /\ k1.running = k.running /\ k1.tick = k.tick /\ k1.overflows = k.overflows
      /\ k1.base = k.base /\ k1.locks = k.locks /\ k1.missed = k.missed
      /\ k1.missedYield = k.missedYield /\ k1.pending = k.pending
      /\ k1.item = k1.prio
      /\ k1.prio = IF IsMutex THEN [k.prio EXCEPT ![q.holder] = MaxOf(k.prio[q.holder], k.prio[t])]
                              ELSE k.prio
      /\ l = "suspended" <=> n = MaxDelay
      /\ l \in Asleep => Rest(k1, H1, t) = n
      /\ \A u : Contains(k1.waiting[e], u) <=> Contains(k.waiting[e], u) \/ u = t
      /\ \A f \in EventList \ {e} : k1.waiting[f] = k.waiting[f]
      /\ InOrder(k.waiting[e], EventValue(k1)) => InOrder(k1.waiting[e], EventValue(k1))
  BY DEF Placed
<1>2. H[Idle] = "ready" /\ Idle \in Task /\ H \in [Task -> Places] /\ l \in Places
  BY FrameFacts DEF Stopped, Places
<1>3. H1[Idle] = "ready"
  BY <1>2, MoveFacts
<1> HIDE DEF H1, e
<1>4. /\ Good(k', H1) /\ Times(k', H1) /\ Highest(k', H1) /\ Fixed(k1, k')
      /\ k'.missedYield = k1.missedYield /\ k'.pending = k1.pending
      /\ k'.waiting = k1.waiting /\ k'.wake = k1.wake
  BY <1>1, <1>2, <1>3, SwitchedOn
<1>5. /\ k'.running = k1.running /\ k'.tick = k1.tick /\ k'.overflows = k1.overflows
      /\ k'.item = k1.item /\ k'.prio = k1.prio /\ k'.base = k1.base
      /\ k'.locks = k1.locks /\ k'.missed = k1.missed
  BY <1>4 DEF Fixed
<1>6. EventValue(k') = EventValue(k1)
  BY <1>5 DEF EventValue
<1>7. \A u \in Task : Rest(k', H1, u) = Rest(k1, H1, u)
  BY <1>4, <1>5 DEF Rest
<1>8. ASSUME NEW u \in Task \ {t}
      PROVE  Onward(k, H, k', H1, u, 0)
  <2>1. Onward(k, H, k1, H1, u, 0)
    BY <1>1
  <2>2. Waits(k', u) <=> Waits(k1, u)
    BY <1>4 DEF Waits
  <2>3. QED
    BY <1>4, <1>7, <2>1, <2>2 DEF Onward
<1>9. l \in Asleep => Rest(k', H1, t) = n
  BY <1>1, <1>7
<1>10. Placed(H, t, k', l, n)
  BY <1>1, <1>4, <1>5, <1>6, <1>8, <1>9 DEF Placed, H1, e
<1>11. QED
  BY <1>4, <1>10 DEF H1

\* that ends with a switch of context.
LEMMA BlocksFrame ==
  ASSUME NEW H, Frames(H), NEW t \in Task, ChannelInvariant, BlocksAlternative(t)
  PROVE  /\ q' = q /\ k.locks = 0 /\ H[t] = "ready" /\ ~Waits(k, t)
         /\ \/ /\ IsOver(t) /\ k' = k /\ Turns(H, t, 0, H) /\ Ends(t)
               /\ answer' = [to |-> t, says |-> IF call[t].op = "send" THEN "full" ELSE "empty"]
            \/ /\ ~IsOver(t) /\ ~MustWait(t) /\ k' = k /\ Turns(H, t, 0, H) /\ answer' = None
               /\ Continues(t, StepTo(Deducted(t), "try"))
            \/ /\ ~IsOver(t) /\ MustWait(t) /\ answer' = None
               /\ Continues(t, StepTo(Deducted(t), "try"))
               /\ IsMutex => q.holder \in Task /\ q.count = 0
               /\ \E l \in Stopped :
                    /\ Turns(H, t, 0, Move(H, t, l)) /\ Highest(k', Move(H, t, l))
                    /\ Placed(H, t, k', l, Deducted(t).ticks)
<1>1. Is(t, Waiters, "block") /\ q' = q
  BY DEF BlocksAlternative
<1>2. /\ k.running /\ k.current = t /\ at[t] = "call" /\ t # Idle /\ call[t].step = "block"
      /\ call[t].op # "none" /\ call[t].ticks # 0 /\ k.locks # 1
      /\ H[t] = "ready" /\ ~Waits(k, t) /\ ~Contains(k.pending, t)
  BY <1>1, InTheCall DEF Inside, Resting1, After
<1>3. /\ k.missed <= MaxMissed /\ call[t] \in AllCalls /\ Standing(k, at, call, H, t) /\ k \in Kernels
      /\ call \in [Task -> AllCalls] /\ k.locks = 0 /\ k.pending = <<>> /\ k.missed = 0
  BY <1>2, FrameFacts
<1>4. CASE IsOver(t)
  <2>1. /\ Returns(t, IF call[t].op = "send" THEN "full" ELSE "empty") /\ k' = k
    BY <1>4 DEF BlocksAlternative
  <2>2. Ends(t) /\ answer' = [to |-> t, says |-> IF call[t].op = "send" THEN "full" ELSE "empty"]
    BY <2>1, ReturnsEnds
  <2>3. "block" \notin After \ {"try"} /\ "block" \notin Inside
    BY DEF After, Inside
  <2>4. Turns(H, t, 0, H)
    BY <1>1, <2>1, <2>2, <2>3, EndsFrame
  <2>5. QED
    BY <1>1, <1>2, <1>3, <1>4, <2>1, <2>2, <2>4
<1>5. CASE ~IsOver(t)
  <2> DEFINE c == StepTo(Deducted(t), "try")
  <2>1. /\ call' = [call EXCEPT ![t] = c] /\ answer' = None /\ at' = at
        /\ IF MustWait(t) THEN k' = vTaskSwitchContext(Blocked(t, k, Deducted(t).ticks)) ELSE k' = k
    BY <1>3, <1>5 DEF BlocksAlternative, StepTo, KernelBecomes, TellsNobody
  <2>2. Deducted(t) \in AllCalls /\ Deducted(t).op = call[t].op /\ Deducted(t).ticks \in 1 .. MaxDelay
    BY <1>2, <1>5, DeductedFacts
  <2>3. c \in AllCalls /\ c.op = call[t].op /\ c.step = "try" /\ c.ticks = Deducted(t).ticks
    BY <2>2, StepFields DEF Steps
  <2> HIDE DEF c
  <2>4. Continues(t, c)
    BY <1>1, <2>1, <2>3 DEF Continues
  <2>5. q.kind \in Mutexes => c.op # "send"
    BY <1>2, <2>3, NoSenderWaits
  <2>6. Owned(call', q')
    BY <1>1, <1>2, <2>3, <2>4, <2>5, OwnedGoes
  <2>7. /\ at' \in [Task -> Spots] /\ call' \in [Task -> AllCalls]
        /\ call'[t] = c /\ at'[t] = at[t]
        /\ \A u \in Task \ {t} : at'[u] = at[u] /\ call'[u] = call[u]
    BY <1>2, <2>4, ContinuesFacts
  <2>8. Latched(at', call', q')
    <3>1. /\ ~InCall(at, call, t, Latches \cup {"unlockRx"})
          /\ ~InCall(at', call', t, Latches \cup {"unlockRx"})
      BY <1>2, <2>3, <2>7 DEF InCall, Latches
    <3>2. QED
      BY <1>1, <1>2, <2>7, <3>1, LatchedOutside
  <2>9. CASE ~MustWait(t)
    <3>1. (c.step \in Inside <=> "block" \in Inside) /\ (c.step \in Resting1 => c.ticks # 0)
          /\ "block" \notin After \ {"try"}
      BY <2>3 DEF Inside, Resting1, After
    <3>2. k' = k
      BY <2>1, <2>9
    <3>3. Turns(H, t, 0, H)
      BY <1>1, <2>4, <2>6, <2>8, <3>1, <3>2, GoesFrame
    <3>4. QED
      BY <1>1, <1>2, <1>3, <1>5, <2>1, <2>4, <2>9, <3>2, <3>3 DEF c
  <2>10. CASE MustWait(t)
    <3>1. IsMutex => q.holder \in Task /\ q.count = 0
      <4>1. IsMutex => call[t].op # "send"
        BY <2>3, <2>5 DEF IsMutex
      <4>2. IsMutex => q.count = 0
        BY <2>10, <4>1 DEF MustWait
      <4>3. QED
        BY <4>2, HolderWhenTaken
    <3> DEFINE k1 == Blocked(t, k, Deducted(t).ticks)
    <3>2. k' = vTaskSwitchContext(k1)
      BY <2>1, <2>10
    <3>3. \E l \in Stopped : Placed(H, t, k1, l, Deducted(t).ticks) /\ k1.current = k.current
      BY <1>2, <2>2, <3>1, BlockedOn
    <3> HIDE DEF k1
    <3>4. PICK l \in Stopped : Placed(H, t, k1, l, Deducted(t).ticks)
      BY <3>3
    <3> DEFINE H1 == Move(H, t, l)
    <3>5. Placed(H, t, k', l, Deducted(t).ticks) /\ Highest(k', H1)
      BY <1>2, <1>3, <3>2, <3>4, PlacedThenSwitched
    <3>6. /\ Good(k', H1) /\ Times(k', H1) /\ H1 \in [Task -> Places]
          /\ \A u \in Task \ {t} : Onward(k, H, k', H1, u, 0)
          /\ k'.running = k.running /\ k'.tick = k.tick /\ k'.overflows = k.overflows
          /\ k'.locks = k.locks /\ k'.missed = k.missed /\ k'.pending = k.pending
          /\ k'.item = k'.prio
          /\ \A u : Contains(k'.waiting[ListOf(call[t].op)], u) <=> Contains(k.waiting[ListOf(call[t].op)], u) \/ u = t
          /\ \A f \in EventList \ {ListOf(call[t].op)} : k'.waiting[f] = k.waiting[f]
      BY <3>5 DEF Placed
    <3>7. H1[t] = l
      <4>1. l \in Places /\ H \in [Task -> Places]
        BY <1>2, FrameFacts DEF Stopped, Places
      <4>2. QED
        BY <4>1, MoveFacts
    <3> HIDE DEF H1
    <3>8. Counts(k, k', 0) /\ 0 \in 0 .. MaxDelay
      BY <1>3, <3>6, KernelNumbers, Numbers DEF Counts
    <3>9. k'.current \in Task /\ H1[k'.current] = "ready"
      BY <3>5 DEF Highest, H1
    <3>10. Standing(k', at', call', H1, t)
      <4>1. ListOf(call[t].op) \in EventList
        BY TwoLists
      <4>2. Waits(k', t)
        BY <3>6, <4>1 DEF Waits
      <4>3. \A e \in EventList : Contains(k'.waiting[e], t) => ListOf(c.op) = e
        BY <1>2, <2>3, <3>6, <4>1 DEF Waits
      <4>4. ~Contains(k'.pending, t)
        BY <1>2, <3>6
      <4>5. ~Holding(at', call', t) /\ k'.locks # 1
        BY <1>2, <1>3, <2>3, <2>7, <3>6 DEF Holding, InCall, Inside
      <4>6. H1[t] # "none" /\ H1[t] # "terminated" /\ H1[t] # "ready"
        BY <3>7 DEF Stopped
      <4>7. c.ticks # 0
        BY <2>2, <2>3
      <4>8. QED
        BY <1>2, <2>3, <2>7, <4>2, <4>3, <4>4, <4>5, <4>6, <4>7 DEF Standing, After, Resting1
    <3>11. IF k'.current = t THEN AtWork(k', at', call', H1) ELSE H1[k'.current] = "ready"
      BY <3>9 DEF AtWork
    <3>12. /\ k'.locks = 0 => k'.pending = <<>> /\ k'.missed = 0
           /\ k'.locks = 1 => 0 = 0
           /\ k'.missed <= MaxMissed /\ k'.running /\ k'.locks = 0 /\ t \in Task \ {Idle}
      BY <1>2, <1>3, <3>6
    <3>13. Turns(H, t, 0, H1)
      BY <1>2, <2>6, <2>7, <2>8, <3>6, <3>8, <3>9, <3>10, <3>11, <3>12, FrameOn
    <3>14. QED
      BY <1>1, <1>2, <1>3, <1>5, <2>1, <2>4, <2>10, <3>1, <3>5, <3>13 DEF c, H1
  <2>11. QED
    BY <2>9, <2>10
<1>6. QED
  BY <1>4, <1>5

-----------------------------------------------------------------------------
(* Critical sections and interrupts                                          *)

\* What is sent, given or taken, field by field.
LEMMA InsertFields ==
  ASSUME ChannelInvariant, NEW x, NEW front
  PROVE  LET r == prvCopyDataToQueue(x, front) IN
         /\ r.kind = q.kind /\ r.length = q.length /\ r.count = q.count + 1
         /\ r.txLock = q.txLock /\ r.rxLock = q.rxLock
         /\ r.holder = IF q.kind = "queue" THEN q.holder ELSE None
         /\ \A n : LET s == [r EXCEPT !.txLock = n] IN
              /\ s.kind = q.kind /\ s.length = q.length /\ s.count = q.count + 1
              /\ s.txLock = n /\ s.rxLock = q.rxLock /\ s.holder = r.holder
<1>1. q \in Queues
  BY DEF ChannelInvariant, QueueTypes
<1>2. CASE q.kind = "queue" /\ front
  BY <1>1, <1>2 DEF prvCopyDataToQueue, Insert, Queues
<1>3. CASE q.kind = "queue" /\ ~front
  BY <1>1, <1>3 DEF prvCopyDataToQueue, Insert, Queues
<1>4. CASE q.kind # "queue"
  BY <1>1, <1>4 DEF prvCopyDataToQueue, Queues
<1>5. QED
  BY <1>2, <1>3, <1>4

LEMMA RemoveFields ==
  ASSUME ChannelInvariant, NEW t
  PROVE  LET r == Remove1(t) IN
         /\ r.kind = q.kind /\ r.length = q.length /\ r.count = q.count - 1
         /\ r.txLock = q.txLock /\ r.rxLock = q.rxLock
         /\ r.holder = IF IsMutex THEN t ELSE q.holder
         /\ \A n : LET s == [r EXCEPT !.rxLock = n] IN
              /\ s.kind = q.kind /\ s.length = q.length /\ s.count = q.count - 1
              /\ s.txLock = q.txLock /\ s.rxLock = n /\ s.holder = r.holder
         /\ \A n : LET s == [r EXCEPT !.depth = n] IN
              /\ s.kind = q.kind /\ s.length = q.length /\ s.count = q.count - 1
              /\ s.txLock = q.txLock /\ s.rxLock = q.rxLock /\ s.holder = r.holder
<1>1. q \in Queues
  BY DEF ChannelInvariant, QueueTypes
<1>2. CASE IsMutex
  <2>1. q.kind # "queue"
    BY <1>2 DEF IsMutex, Mutexes
  <2>2. QED
    BY <1>1, <1>2, <2>1 DEF Remove1, Queues
<1>3. CASE ~IsMutex
  BY <1>1, <1>3 DEF Remove1, Queues
<1>4. QED
  BY <1>2, <1>3

-----------------------------------------------------------------------------
\* The kernel km is k, with other priorities.
Relent(H, km) ==
  /\ Good(km, H) /\ Times(km, H) /\ km.item = km.prio
  /\ km.running = k.running /\ km.current = k.current /\ km.tick = k.tick
  /\ km.overflows = k.overflows /\ km.base = k.base /\ km.locks = k.locks
  /\ km.missed = k.missed /\ km.missedYield = k.missedYield
  /\ km.pending = k.pending /\ km.waiting = k.waiting
  /\ \A u \in Task : H[u] \in Asleep => km.wake[u] = k.wake[u]

\* Priorities that are given back change nobody's place.
LEMMA RelentApart ==
  ASSUME NEW H, Frames(H), k.running, NEW km, Relent(H, km)
  PROVE  /\ Apart(km, H)
         /\ \A k1, H1, n : \A u \in Task :
              Onward(km, H, k1, H1, u, n) <=> Onward(k, H, k1, H1, u, n)
<1>1. Apart(k, H)
  BY FrameFacts
<1>2. km.waiting = k.waiting /\ km.pending = k.pending /\ km.tick = k.tick
  BY DEF Relent
<1>3. \A u : Waits(km, u) <=> Waits(k, u)
  BY <1>2 DEF Waits
<1>4. \A u \in Task : H[u] \in Asleep => Rest(km, H, u) = Rest(k, H, u)
  BY <1>2 DEF Relent, Rest
<1>5. Apart(km, H)
  BY <1>1, <1>2, <1>3 DEF Apart
<1>6. QED
  BY <1>2, <1>3, <1>4, <1>5 DEF Onward

\* A critical section that ends a call and wakes a task, or none.
LEMMA TriesFrame ==
  ASSUME NEW H, Frames(H), NEW t \in Task, NEW op, Is(t, op, "try"), Ends(t),
         NEW km, Relent(H, km), NEW e \in EventList, k' = WakeOne(km, e),
         q'.txLock = q.txLock, q'.rxLock = q.rxLock, Owned(call', q')
  PROVE  \E H1 \in [Task -> Places] :
           /\ Turns(H, t, 0, H1) /\ Onward(k, H, k', H1, t, 0)
           /\ Wakened(km, H, k', H1, e) /\ H1[t] = "ready"
<1>1. /\ k.running /\ k.current = t /\ at[t] = "call" /\ t # Idle /\ call[t].step = "try"
      /\ H[t] = "ready" /\ ~Waits(k, t) /\ ~Contains(k.pending, t) /\ k.locks # 1
  BY InTheCall DEF After, Inside
<1>2. /\ k.missed <= MaxMissed /\ k \in Kernels /\ k.locks = 0 /\ k.pending = <<>> /\ k.missed = 0
      /\ k.current \in Task
  BY <1>1, FrameFacts
<1>3. /\ Good(km, H) /\ Times(km, H) /\ km.item = km.prio
      /\ km.running = k.running /\ km.current = k.current /\ km.tick = k.tick
      /\ km.overflows = k.overflows /\ km.base = k.base /\ km.locks = k.locks
      /\ km.missed = k.missed /\ km.missedYield = k.missedYield
      /\ km.pending = k.pending /\ km.waiting = k.waiting
  BY DEF Relent
<1>4. Apart(km, H) /\ \A k1, H1, n : \A u \in Task :
        Onward(km, H, k1, H1, u, n) <=> Onward(k, H, k1, H1, u, n)
  BY <1>1, RelentApart
<1>5. PICK H1 \in [Task -> Places] : Wakened(km, H, k', H1, e)
  BY <1>2, <1>3, <1>4, WokeAny
<1>6. /\ Good(k', H1) /\ Times(k', H1) /\ Frees(km, H, k', H1) /\ SleepsOn(km, H, k', H1, 0)
      /\ Fixed(km, k') /\ k'.current \in Task
      /\ (k'.current = km.current \/ H1[k'.current] = "ready")
      /\ k'.pending = <<>>
  BY <1>2, <1>3, <1>5 DEF Wakened
<1>7. /\ k'.running = km.running /\ k'.tick = km.tick /\ k'.overflows = km.overflows
      /\ k'.item = km.item /\ k'.prio = km.prio /\ k'.base = km.base
      /\ k'.locks = km.locks /\ k'.missed = km.missed
  BY <1>6 DEF Fixed
<1>8. \A u \in Task : Onward(k, H, k', H1, u, 0)
  BY <1>4, <1>6, FreesOnward
<1>9. Counts(k, k', 0) /\ 0 \in 0 .. MaxDelay
  BY <1>2, <1>3, <1>7, KernelNumbers, Numbers DEF Counts
<1>10. /\ at' \in [Task -> Spots] /\ call' \in [Task -> AllCalls]
       /\ call'[t] = NoCall /\ at'[t] = "task"
       /\ \A u \in Task \ {t} : at'[u] = at[u] /\ call'[u] = call[u]
  BY <1>1, EndsFacts
<1>11. H1[t] = "ready" /\ ~Waits(k', t) /\ ~Contains(k'.pending, t)
  <2>1. Onward(k, H, k', H1, t, 0)
    BY <1>8
  <2>2. H1[t] = "ready"
    BY <1>1, <2>1 DEF Onward
  <2>3. ~Waits(k', t)
    BY <1>1, <2>1 DEF Onward, Waits
  <2>4. ~Contains(k'.pending, t)
    BY <1>6, EmptyList
  <2>5. QED
    BY <2>2, <2>3, <2>4
<1>12. k'.locks = 0 /\ k'.missed = 0 /\ k'.running /\ k'.item = k'.prio
  BY <1>1, <1>2, <1>3, <1>7
<1>13. Standing(k', at', call', H1, t)
  BY <1>10, <1>11, <1>12, StandingEnded
<1>14. IF k'.current = t THEN AtWork(k', at', call', H1) ELSE H1[k'.current] = "ready"
  BY <1>1, <1>3, <1>6, <1>11 DEF AtWork
<1>15. Latched(at', call', q')
  <2>1. /\ ~InCall(at, call, t, Latches \cup {"unlockRx"})
        /\ ~InCall(at', call', t, Latches \cup {"unlockRx"})
    BY <1>1, <1>10 DEF InCall, Latches
  <2>2. QED
    BY <1>1, <1>10, <2>1, LatchedOutside
<1>16. Turns(H, t, 0, H1)
  <2>1. \A u \in Task \ {t} : Onward(k, H, k', H1, u, 0)
    BY <1>8
  <2>2. /\ k'.missed <= MaxMissed /\ t \in Task \ {Idle} /\ (k'.locks = 1 => 0 = 0)
        /\ k'.locks = 0 => k'.pending = <<>> /\ k'.missed = 0
        /\ k'.locks = 0 \/ k'.current = t
    BY <1>1, <1>2, <1>3, <1>6, <1>7, <1>12
  <2>3. QED
    BY <1>1, <1>6, <1>9, <1>10, <1>12, <1>13, <1>14, <1>15, <2>1, <2>2, FrameOn
<1>17. QED
  BY <1>5, <1>8, <1>11, <1>16

-----------------------------------------------------------------------------
\* While the scheduler runs nobody is about to place itself.
LEMMA NobodyPlaces ==
  ASSUME NEW H, Frames(H), k.running, k.locks = 0
  PROVE  \A u \in Task : call[u].step # "place"
<1>1. SUFFICES ASSUME NEW u \in Task, call[u].step = "place"
               PROVE  FALSE
  OBVIOUS
<1>2. Standing(k, at, call, H, u)
  BY FrameFacts
<1>3. call[u].op # "none"
  BY <1>1, <1>2 DEF Standing, NoCall
<1>4. InCall(at, call, u, Inside)
  BY <1>1, <1>2, <1>3 DEF Standing, InCall, Inside
<1>5. QED
  BY <1>2, <1>4 DEF Standing, Holding

\* Nothing is given back:
LEMMA SameKernel ==
  ASSUME NEW H, Frames(H), k.running
  PROVE  Relent(H, k)
BY FrameFacts DEF Relent

\* A send that goes on,
LEMMA TrySendFrame ==
  ASSUME NEW H, Frames(H), NEW t \in Task, ChannelInvariant, TrySend(t), q.count < q.length
  PROVE  /\ q'.kind = q.kind /\ q'.length = q.length /\ q'.count = q.count + 1
         /\ q'.txLock = q.txLock /\ q'.rxLock = q.rxLock
         /\ q'.holder = IF q.kind = "queue" THEN q.holder ELSE None
         /\ IsMutex => q.holder = t
         /\ Ends(t) /\ answer' = [to |-> t, says |-> "sent"] /\ k.locks = 0
         /\ \E km : /\ Relent(H, km)
                    /\ km.prio = IF IsMutex THEN [k.prio EXCEPT ![t] = k.base[t]] ELSE k.prio
                    /\ \E H1 \in [Task -> Places] :
                         /\ Turns(H, t, 0, H1) /\ Onward(k, H, k', H1, t, 0)
                         /\ Wakened(km, H, k', H1, "receive") /\ H1[t] = "ready"
<1> DEFINE km == IF IsMutex THEN vTaskPriorityDisinherit(k, q.holder) ELSE k
<1>1. /\ Is(t, {"send"}, "try") /\ q' = prvCopyDataToQueue(call[t].item, call[t].front)
      /\ k' = WakeOne(km, "receive") /\ Returns(t, "sent")
  BY DEF TrySend, KernelBecomes
<1>2. /\ k.running /\ k.current = t /\ at[t] = "call" /\ t # Idle /\ call[t].step = "try"
      /\ call[t].op = "send" /\ H[t] = "ready" /\ k.locks # 1
  BY <1>1, InTheCall DEF After, Inside
<1>3. Ends(t) /\ answer' = [to |-> t, says |-> "sent"]
  BY <1>1, ReturnsEnds
<1>4. /\ q'.kind = q.kind /\ q'.length = q.length /\ q'.count = q.count + 1
      /\ q'.txLock = q.txLock /\ q'.rxLock = q.rxLock
      /\ q'.holder = IF q.kind = "queue" THEN q.holder ELSE None
  BY <1>1, InsertFields
<1>5. k.locks = 0 /\ k.item = k.prio /\ Good(k, H) /\ Times(k, H)
  BY <1>2, FrameFacts
<1>6. q.kind \in Mutexes =>
        /\ q.length = 1 /\ q.holder = t /\ q.count = 0
        /\ q.txLock <= 0 /\ q.rxLock <= 0
  <2>1. q.count \in Nat
    BY DEF ChannelInvariant, QueueTypes, Queues
  <2>2. QED
    BY <1>2, <2>1 DEF Frames, Frame, Owned
<1>7. /\ call' \in [Task -> AllCalls] /\ call'[t] = NoCall
      /\ \A u \in Task \ {t} : call'[u] = call[u]
  BY <1>2, <1>3, EndsFacts
<1>8. Owned(call', q')
  <2>1. SUFFICES ASSUME q.kind \in Mutexes
                 PROVE  Owned(call', q')
    BY <1>4 DEF Owned
  <2>2. q.kind # "queue"
    BY <2>1 DEF Mutexes
  <2>3. q'.holder = None /\ q'.count = 1 /\ q'.length = 1 /\ q'.rxLock <= 0 /\ q'.txLock <= 0
    BY <1>4, <1>6, <2>1, <2>2
  <2>4. ASSUME NEW u \in Task
        PROVE  /\ call'[u].op # "send" /\ call'[u].op # "peek" /\ call'[u].step # "place"
               /\ q'.holder # u
    <3>1. q'.holder # u
      BY <2>3, KernelAssumption
    <3>2. CASE u = t
      BY <1>7, <3>1, <3>2, NoCallTypes
    <3>3. CASE u # t
      <4>1. call'[u] = call[u] /\ call[u].step # "place"
        BY <1>2, <1>5, <1>7, <3>3, NobodyPlaces
      <4>2. call[u].op # "peek" /\ (call[u].op = "send" => q.holder = u)
        BY <2>1 DEF Frames, Frame, Owned
      <4>3. QED
        BY <1>6, <2>1, <3>1, <3>3, <4>1, <4>2
    <3>4. QED
      BY <3>2, <3>3
  <2>5. QED
    BY <2>3, <2>4 DEF Owned
<1>9. Relent(H, km) /\ km.prio = IF IsMutex THEN [k.prio EXCEPT ![t] = k.base[t]] ELSE k.prio
  <2>1. CASE ~IsMutex
    BY <1>2, <2>1, SameKernel
  <2>2. CASE IsMutex
    <3>1. km = vTaskPriorityDisinherit(k, t)
      BY <1>6, <2>2 DEF IsMutex
    <3> HIDE DEF km
    <3>2. /\ Good(km, H) /\ Times(km, H) /\ Lends(k, km, t, k.base[t])
          /\ \A u \in Task : H[u] \in Asleep => km.wake[u] = k.wake[u]
      BY <1>2, <1>5, <3>1, Disinherited
    <3>3. QED
      BY <1>5, <2>2, <3>2 DEF Lends, Relent
  <2>3. QED
    BY <2>1, <2>2
<1> HIDE DEF km
<1>10. "receive" \in EventList
  BY TwoLists
<1>11. \E H1 \in [Task -> Places] :
           /\ Turns(H, t, 0, H1) /\ Onward(k, H, k', H1, t, 0)
           /\ Wakened(km, H, k', H1, "receive") /\ H1[t] = "ready"
  BY <1>1, <1>3, <1>4, <1>8, <1>9, <1>10, TriesFrame
<1>12. QED
  BY <1>3, <1>4, <1>5, <1>6, <1>9, <1>11 DEF IsMutex

\* or does not;
LEMMA TrySendFails ==
  ASSUME NEW H, Frames(H), NEW t \in Task, ChannelInvariant, TrySend(t), ~(q.count < q.length)
  PROVE  TryFails(t, "full") /\ Is(t, {"send"}, "try") /\ (q.kind \in Mutexes => call[t].op # "send")
<1>1. TryFails(t, "full") /\ Is(t, {"send"}, "try")
  BY DEF TrySend
<1>2. q.kind \in Mutexes => call[t].op # "send"
  <2>1. q.count \in Nat /\ q.count <= q.length
    BY DEF ChannelInvariant, QueueTypes, Queues
  <2>2. QED
    BY <2>1, KernelAssumption DEF Frames, Frame, Owned
<1>3. QED
  BY <1>1, <1>2

\* a receive,
LEMMA TryReceiveFrame ==
  ASSUME NEW H, Frames(H), NEW t \in Task, ChannelInvariant, TryReceive(t), q.count > 0
  PROVE  /\ q'.kind = q.kind /\ q'.length = q.length /\ q'.count = q.count - 1
         /\ q'.txLock = q.txLock /\ q'.rxLock = q.rxLock
         /\ q'.holder = IF IsMutex THEN t ELSE q.holder
         /\ IsMutex => q.holder = None /\ q.count = 1
         /\ Ends(t) /\ answer' = [to |-> t, says |-> FirstItem] /\ k.locks = 0
         /\ \E H1 \in [Task -> Places] :
              /\ Turns(H, t, 0, H1) /\ Onward(k, H, k', H1, t, 0)
              /\ Wakened(k, H, k', H1, "send") /\ H1[t] = "ready"
<1>1. /\ Is(t, {"receive"}, "try") /\ k' = WakeOne(k, "send") /\ Returns(t, FirstItem)
      /\ \E d : q' = [Remove1(t) EXCEPT !.depth = d]
  BY DEF TryReceive, KernelBecomes
<1>2. /\ k.running /\ k.current = t /\ at[t] = "call" /\ t # Idle /\ call[t].step = "try"
      /\ call[t].op = "receive" /\ H[t] = "ready" /\ k.locks # 1
  BY <1>1, InTheCall DEF After, Inside
<1>3. Ends(t) /\ answer' = [to |-> t, says |-> FirstItem]
  BY <1>1, ReturnsEnds
<1>4. /\ q'.kind = q.kind /\ q'.length = q.length /\ q'.count = q.count - 1
      /\ q'.txLock = q.txLock /\ q'.rxLock = q.rxLock
      /\ q'.holder = IF IsMutex THEN t ELSE q.holder
  BY <1>1, RemoveFields
<1>5. k.locks = 0
  BY <1>2, FrameFacts
<1>6. q.kind \in Mutexes =>
        /\ q.length = 1 /\ q.holder = None /\ q.count = 1
        /\ q.txLock <= 0 /\ q.rxLock <= 0
  <2>1. q.count \in Nat /\ q.count <= q.length /\ q.length \in {1, Length}
    BY DEF ChannelInvariant, QueueTypes, Queues
  <2>2. QED
    BY <1>2, <2>1 DEF Frames, Frame, Owned
<1>7. /\ call' \in [Task -> AllCalls] /\ call'[t] = NoCall
      /\ \A u \in Task \ {t} : call'[u] = call[u]
  BY <1>2, <1>3, EndsFacts
<1>8. Owned(call', q')
  <2>1. SUFFICES ASSUME q.kind \in Mutexes
                 PROVE  Owned(call', q')
    BY <1>4 DEF Owned
  <2>2. q'.holder = t /\ q'.count = 0 /\ q'.length = 1 /\ q'.rxLock <= 0 /\ q'.txLock <= 0
    BY <1>4, <1>6, <2>1 DEF IsMutex
  <2>3. ASSUME NEW u \in Task
        PROVE  /\ call'[u].op # "send" /\ call'[u].op # "peek"
               /\ call'[u].op = "receive" => q'.holder # u
    <3>1. CASE u = t
      BY <1>7, <3>1, NoCallTypes
    <3>2. CASE u # t
      <4>1. call'[u] = call[u]
        BY <1>7, <3>2
      <4>2. call[u].op # "peek" /\ (call[u].op = "send" => q.holder = u)
        BY <2>1 DEF Frames, Frame, Owned
      <4>3. QED
        BY <1>6, <2>1, <2>2, <3>2, <4>1, <4>2, KernelAssumption
    <3>3. QED
      BY <3>1, <3>2
  <2>4. q'.holder # None
    BY <2>2, KernelAssumption
  <2>5. QED
    BY <2>2, <2>3, <2>4 DEF Owned
<1>9. Relent(H, k) /\ "send" \in EventList
  BY <1>2, SameKernel, TwoLists
<1>10. \E H1 \in [Task -> Places] :
           /\ Turns(H, t, 0, H1) /\ Onward(k, H, k', H1, t, 0)
           /\ Wakened(k, H, k', H1, "send") /\ H1[t] = "ready"
  BY <1>1, <1>3, <1>4, <1>8, <1>9, TriesFrame
<1>11. QED
  BY <1>3, <1>4, <1>5, <1>6, <1>10 DEF IsMutex

\* and a peek.
LEMMA TryPeekFrame ==
  ASSUME NEW H, Frames(H), NEW t \in Task, TryPeek(t), q.count > 0
  PROVE  /\ q' = q /\ ~IsMutex /\ Ends(t) /\ answer' = [to |-> t, says |-> FirstItem]
         /\ k.locks = 0
         /\ \E H1 \in [Task -> Places] :
              /\ Turns(H, t, 0, H1) /\ Onward(k, H, k', H1, t, 0)
              /\ Wakened(k, H, k', H1, "receive") /\ H1[t] = "ready"
<1>1. /\ Is(t, {"peek"}, "try") /\ k' = WakeOne(k, "receive") /\ Returns(t, FirstItem) /\ q' = q
  BY DEF TryPeek, KernelBecomes
<1>2. /\ k.running /\ k.current = t /\ k.locks # 1 /\ call[t].op = "peek"
  BY <1>1, InTheCall DEF After, Inside
<1>3. Ends(t) /\ answer' = [to |-> t, says |-> FirstItem]
  BY <1>1, ReturnsEnds
<1>4. k.locks = 0
  BY <1>2, FrameFacts
<1>5. ~IsMutex
  BY <1>2 DEF Frames, Frame, Owned, IsMutex
<1>6. Owned(call', q')
  BY <1>1, <1>2, <1>3, OwnedEnds
<1>7. Relent(H, k) /\ "receive" \in EventList
  BY <1>2, SameKernel, TwoLists
<1>8. \E H1 \in [Task -> Places] :
           /\ Turns(H, t, 0, H1) /\ Onward(k, H, k', H1, t, 0)
           /\ Wakened(k, H, k', H1, "receive") /\ H1[t] = "ready"
  BY <1>1, <1>3, <1>6, <1>7, TriesFrame
<1>9. QED
  BY <1>1, <1>3, <1>4, <1>5, <1>8

-----------------------------------------------------------------------------
\* One more on a locked queue.
Bumped(n) == IF n = Unlocked THEN n ELSE n + 1

\* It stays locked.
LEMMA BumpedLatch ==
  ASSUME NEW n \in Int, n >= -1
  PROVE  Bumped(n) >= -1 /\ (Bumped(n) = Unlocked <=> n = Unlocked) /\ Bumped(n) \in Int
BY DEF Bumped, Unlocked

\* What an interrupt changes of a queue that is no mutex.
LEMMA InterruptFrame ==
  ASSUME NEW H, Frames(H), k.running, ChannelInvariant, ~IsMutex, NEW e \in EventList, NEW lock,
         k' = IF lock = Unlocked THEN WakeOne(k, e) ELSE k, at' = at, call' = call,
         q'.kind = q.kind,
         \/ q'.txLock = Bumped(q.txLock) /\ q'.rxLock = q.rxLock
         \/ q'.txLock = q.txLock /\ q'.rxLock = Bumped(q.rxLock)
  PROVE  \E H1 \in [Task -> Places] :
           /\ Interrupts(H, 0, H1)
           /\ IF lock = Unlocked THEN Wakened(k, H, k', H1, e) ELSE k' = k /\ H1 = H
<1>1. /\ Good(k, H) /\ Times(k, H) /\ Apart(k, H)
      /\ k.current \in Task /\ k.item = k.prio /\ k.missed <= MaxMissed
      /\ k.locks = 0 => k.pending = <<>> /\ k.missed = 0
      /\ k.locks \in {0, 1} /\ k \in Kernels /\ H \in [Task -> Places]
  BY FrameFacts
<1>2. /\ q.txLock \in Int /\ q.rxLock \in Int /\ q.txLock >= -1 /\ q.rxLock >= -1
  BY DEF ChannelInvariant, QueueTypes, Queues, Frames, Frame, Latched
<1>3. /\ q'.txLock >= -1 /\ q'.rxLock >= -1
      /\ q'.txLock = Unlocked <=> q.txLock = Unlocked
      /\ q'.rxLock = Unlocked <=> q.rxLock = Unlocked
  BY <1>2, BumpedLatch
<1>4. Latched(at', call', q')
  <2>1. Latched(at, call, q)
    BY DEF Frames, Frame
  <2>2. /\ \A u \in Task : InCall(at', call', u, Latches) <=> InCall(at, call, u, Latches)
        /\ \A u \in Task : InCall(at', call', u, Latches \cup {"unlockRx"})
                             <=> InCall(at, call, u, Latches \cup {"unlockRx"})
    BY DEF InCall
  <2>3. QED
    BY <1>3, <2>1, <2>2, LatchedOn
<1>5. Owned(call', q')
  BY DEF Owned, IsMutex
<1>6. /\ \A u \in Task : Onward(k, H, k, H, u, 0)
      /\ Counts(k, k, 0) /\ 0 \in 0 .. MaxDelay
  <2>1. \A u \in Task : Onward(k, H, k, H, u, 0)
    BY <1>1, StaysOnward
  <2>2. Counts(k, k, 0) /\ 0 \in 0 .. MaxDelay
    BY <1>1, KernelNumbers, Numbers DEF Counts
  <2>3. QED
    BY <2>1, <2>2
<1>7. CASE lock = Unlocked
  <2>1. PICK H1 \in [Task -> Places] : Wakened(k, H, k', H1, e)
    BY <1>1, <1>7, WokeAny
  <2>2. /\ Good(k', H1) /\ Times(k', H1) /\ Frees(k, H, k', H1) /\ SleepsOn(k, H, k', H1, 0)
        /\ Fixed(k, k') /\ k'.current \in Task
        /\ (k'.current = k.current \/ H1[k'.current] = "ready")
        /\ k.locks = 0 => k'.pending = <<>>
        /\ k.locks = 1 => k'.current = k.current
    BY <2>1 DEF Wakened
  <2>3. /\ k'.running = k.running /\ k'.tick = k.tick /\ k'.overflows = k.overflows
        /\ k'.item = k.item /\ k'.prio = k.prio /\ k'.base = k.base
        /\ k'.locks = k.locks /\ k'.missed = k.missed
    BY <2>2 DEF Fixed
  <2>4. \A u \in Task : Onward(k, H, k', H1, u, 0)
    BY <2>2, FreesOnward
  <2>5. Counts(k, k', 0)
    BY <1>6, <2>3 DEF Counts
  <2>6. Interrupts(H, 0, H1)
    BY <1>1, <1>4, <1>5, <1>6, <2>2, <2>3, <2>4, <2>5, FrameInterrupted
  <2>7. QED
    BY <1>7, <2>1, <2>6
<1>8. CASE lock # Unlocked
  <2>1. k' = k
    BY <1>8
  <2>2. Interrupts(H, 0, H)
    BY <1>1, <1>4, <1>5, <1>6, <2>1, FrameInterrupted
  <2>3. QED
    BY <1>1, <1>8, <2>1, <2>2
<1>9. QED
  BY <1>7, <1>8

\* An interrupt sends,
LEMMA SendFromISRFrame ==
  ASSUME NEW H, Frames(H), ChannelInvariant, NEW x, NEW front, xQueueSendFromISR(x, front)
  PROVE  /\ k.running /\ ~IsMutex /\ q.count < q.length /\ at' = at /\ call' = call
         /\ answer' = [to |-> Interrupt, says |-> "sent"]
         /\ q'.kind = q.kind /\ q'.length = q.length /\ q'.count = q.count + 1
         /\ q'.txLock = Bumped(q.txLock) /\ q'.rxLock = q.rxLock
         /\ \E H1 \in [Task -> Places] :
              /\ Interrupts(H, 0, H1)
              /\ IF q.txLock = Unlocked THEN Wakened(k, H, k', H1, "receive")
                                        ELSE k' = k /\ H1 = H
<1>1. /\ k.running /\ ~IsMutex /\ q.count < q.length /\ at' = at /\ call' = call
      /\ answer' = [to |-> Interrupt, says |-> "sent"]
      /\ k' = IF q.txLock = Unlocked THEN WakeOne(k, "receive") ELSE k
  BY DEF xQueueSendFromISR, InterruptWakes, KernelBecomes, Tells
<1>2. q' = [prvCopyDataToQueue(x, front) EXCEPT !.txLock = Bumped(q.txLock)]
  <2> DEFINE r == prvCopyDataToQueue(x, front)
  <2>1. q' = [r EXCEPT !.txLock = IF @ = Unlocked THEN @ ELSE @ + 1]
    BY DEF xQueueSendFromISR
  <2>2. r.txLock = q.txLock
    BY InsertFields
  <2> HIDE DEF r
  <2>3. q' = [r EXCEPT !.txLock = Bumped(q.txLock)]
    BY <2>1, <2>2 DEF Bumped
  <2>4. QED
    BY <2>3 DEF r
<1>3. /\ q'.kind = q.kind /\ q'.length = q.length /\ q'.count = q.count + 1
      /\ q'.txLock = Bumped(q.txLock) /\ q'.rxLock = q.rxLock
  BY <1>2, InsertFields
<1>4. "receive" \in EventList
  BY TwoLists
<1>5. \E H1 \in [Task -> Places] :
              /\ Interrupts(H, 0, H1)
              /\ IF q.txLock = Unlocked THEN Wakened(k, H, k', H1, "receive")
                                        ELSE k' = k /\ H1 = H
  BY <1>1, <1>3, <1>4, InterruptFrame
<1>6. QED
  BY <1>1, <1>3, <1>5

\* or receives.
LEMMA ReceiveFromISRFrame ==
  ASSUME NEW H, Frames(H), ChannelInvariant, xQueueReceiveFromISR
  PROVE  /\ k.running /\ ~IsMutex /\ q.count > 0 /\ at' = at /\ call' = call
         /\ answer' = [to |-> Interrupt, says |-> FirstItem]
         /\ q'.kind = q.kind /\ q'.length = q.length /\ q'.count = q.count - 1
         /\ q'.txLock = q.txLock /\ q'.rxLock = Bumped(q.rxLock)
         /\ \E H1 \in [Task -> Places] :
              /\ Interrupts(H, 0, H1)
              /\ IF q.rxLock = Unlocked THEN Wakened(k, H, k', H1, "send")
                                        ELSE k' = k /\ H1 = H
<1>1. /\ k.running /\ ~IsMutex /\ q.count > 0 /\ at' = at /\ call' = call
      /\ answer' = [to |-> Interrupt, says |-> FirstItem]
      /\ k' = IF q.rxLock = Unlocked THEN WakeOne(k, "send") ELSE k
  BY DEF xQueueReceiveFromISR, InterruptWakes, KernelBecomes, Tells
<1>2. q' = [Remove1(None) EXCEPT !.rxLock = Bumped(q.rxLock)]
  <2> DEFINE r == Remove1(None)
  <2>1. q' = [r EXCEPT !.rxLock = IF @ = Unlocked THEN @ ELSE @ + 1]
    BY DEF xQueueReceiveFromISR
  <2>2. r.rxLock = q.rxLock
    BY RemoveFields
  <2> HIDE DEF r
  <2>3. q' = [r EXCEPT !.rxLock = Bumped(q.rxLock)]
    BY <2>1, <2>2 DEF Bumped
  <2>4. QED
    BY <2>3 DEF r
<1>3. /\ q'.kind = q.kind /\ q'.length = q.length /\ q'.count = q.count - 1
      /\ q'.txLock = q.txLock /\ q'.rxLock = Bumped(q.rxLock)
  BY <1>2, RemoveFields
<1>4. "send" \in EventList
  BY TwoLists
<1>5. \E H1 \in [Task -> Places] :
              /\ Interrupts(H, 0, H1)
              /\ IF q.rxLock = Unlocked THEN Wakened(k, H, k', H1, "send")
                                        ELSE k' = k /\ H1 = H
  BY <1>1, <1>3, <1>4, InterruptFrame
<1>6. QED
  BY <1>1, <1>3, <1>5

-----------------------------------------------------------------------------
(* Before the scheduler runs                                                 *)

\* Creating a task leaves the event lists alone.
LEMMA CreateFields ==
  ASSUME NEW K \in Kernels, NEW t \in Task, NEW p \in Prio
  PROVE  LET k1 == CreateBeforeStart(K, t, p) IN
         /\ k1.item = [K.item EXCEPT ![t] = p] /\ k1.waiting = K.waiting
         /\ [k1 EXCEPT !.running = TRUE, !.tick = 0].item = k1.item
         /\ [k1 EXCEPT !.running = TRUE, !.tick = 0].waiting = k1.waiting
<1> DEFINE k0 == OfPriority(K, t, p)
           k2 == prvAddTaskToReadyQueue(k0, t)
           k1 == CreateBeforeStart(K, t, p)
<1>1. k0.item = [K.item EXCEPT ![t] = p] /\ k0.waiting = K.waiting
  BY DEF OfPriority, Kernels
<1>2. k2.item = k0.item /\ k2.waiting = k0.waiting
  BY DEF prvAddTaskToReadyQueue, OfPriority, Kernels
<1>3. k1 = k2 \/ k1 = [k2 EXCEPT !.current = t]
  BY DEF CreateBeforeStart, NewTask, OfPriority
<1>4. [k2 EXCEPT !.current = t].item = k2.item /\ [k2 EXCEPT !.current = t].waiting = k2.waiting
  BY DEF prvAddTaskToReadyQueue, OfPriority, Kernels
<1>5. k1.item = k2.item /\ k1.waiting = k2.waiting
  <2> HIDE DEF k1, k2
  <2>1. QED
    BY <1>3, <1>4
<1>6. \A x \in {k2, [k2 EXCEPT !.current = t]} :
        /\ [x EXCEPT !.running = TRUE, !.tick = 0].item = x.item
        /\ [x EXCEPT !.running = TRUE, !.tick = 0].waiting = x.waiting
  BY DEF prvAddTaskToReadyQueue, OfPriority, Kernels
<1>7. k1 \in {k2, [k2 EXCEPT !.current = t]}
  BY <1>3
<1> HIDE DEF k0, k1, k2
<1>8. QED
  BY <1>1, <1>2, <1>5, <1>6, <1>7 DEF k1

\* What the frame says before the scheduler runs.
LEMMA QuietBefore ==
  ASSUME NEW H, Frames(H), ~k.running
  PROVE  /\ Good(k, H) /\ Times(k, H) /\ k \in Kernels /\ H \in [Task -> Places]
         /\ at \in [Task -> Spots] /\ call \in [Task -> AllCalls]
         /\ k.item = k.prio /\ k.missed <= MaxMissed
         /\ k.pending = <<>> /\ k.missed = 0 /\ k.tick = 0 /\ k.locks = 0
         /\ H[Idle] = "none" /\ Idle \in Task /\ (k.current = None \/ H[k.current] = "ready")
         /\ \A u \in Task :
              /\ H[u] \in {"none", "ready"} /\ at[u] \in {"nowhere", "task"} /\ ~Waits(k, u)
              /\ call[u] = NoCall /\ (at[u] = "nowhere" <=> H[u] = "none")
         /\ Owned(call, q) /\ Latched(at, call, q)
<1>1. /\ Good(k, H) /\ Times(k, H) /\ at \in [Task -> Spots] /\ call \in [Task -> AllCalls]
      /\ Working(k, at, call, H) /\ \A u \in Task : Standing(k, at, call, H, u)
      /\ Owned(call, q) /\ Latched(at, call, q)
  BY DEF Frames, Frame
<1>2. /\ k.item = k.prio /\ k.missed <= MaxMissed
      /\ k.pending = <<>> /\ k.missed = 0 /\ k.tick = 0 /\ k.locks = 0
      /\ H[Idle] = "none" /\ (k.current = None \/ H[k.current] = "ready")
      /\ \A u \in Task : H[u] \in {"none", "ready"} /\ at[u] \in {"nowhere", "task"}
  BY <1>1 DEF Working
<1>3. ASSUME NEW u \in Task
      PROVE  ~Waits(k, u) /\ call[u] = NoCall /\ (at[u] = "nowhere" <=> H[u] = "none")
  <2>1. at[u] # "call"
    BY <1>2
  <2>2. QED
    BY <1>1, <2>1 DEF Standing
<1>4. k \in Kernels /\ H \in [Task -> Places]
  BY <1>1 DEF Good
<1>5. QED
  BY <1>1, <1>2, <1>3, <1>4, KernelAssumption

\* A task is created before the scheduler starts.
LEMMA CreatedFirst ==
  ASSUME NEW H, Frames(H), ~k.running, NEW t \in Task, H[t] = "none", NEW p \in Prio,
         NEW k1, k1 = CreateBeforeStart(k, t, p)
  PROVE  LET H1 == Move(H, t, "ready") IN
         /\ Good(k1, H1) /\ Times(k1, H1) /\ H1 \in [Task -> Places]
         /\ H1[t] = "ready" /\ \A u \in Task \ {t} : H1[u] = H[u]
         /\ k1.prio = [k.prio EXCEPT ![t] = p] /\ k1.base = [k.base EXCEPT ![t] = p]
         /\ k1.item = k1.prio /\ k1.waiting = k.waiting /\ k1.pending = k.pending
         /\ k1.tick = k.tick /\ k1.locks = k.locks /\ k1.missed = k.missed
         /\ k1.running = k.running
         /\ k1.current \in Task /\ H1[k1.current] = "ready"
<1> DEFINE m0 == NewTask(k, t, p)
           H1 == Move(H, t, "ready")
<1>1. /\ Good(k, H) /\ Times(k, H) /\ k \in Kernels /\ H \in [Task -> Places]
      /\ k.item = k.prio /\ (k.current = None \/ H[k.current] = "ready")
  BY QuietBefore
<1>2. /\ Good(m0, H1) /\ Times(m0, H1)
      /\ m0.prio = [k.prio EXCEPT ![t] = p] /\ m0.base = [k.base EXCEPT ![t] = p]
      /\ SameButPrio(k, m0) /\ m0.wake = k.wake
  <2>1. /\ Good(m0, [H EXCEPT ![t] = "ready"])
        /\ (Times(k, H) => Times(m0, [H EXCEPT ![t] = "ready"]))
        /\ m0.prio = [k.prio EXCEPT ![t] = p] /\ m0.base = [k.base EXCEPT ![t] = p]
        /\ SameButPrio(k, m0) /\ m0.wake = k.wake
    <3>1. Good(k, H) /\ H[t] = "none" /\ t \in Task /\ p \in Prio
      BY <1>1
    <3>2. QED
      BY ONLY <3>1, Created DEF m0
  <2>2. H1 = [H EXCEPT ![t] = "ready"]
    BY DEF Move
  <2> HIDE DEF m0, H1
  <2>3. QED
    BY <1>1, <2>1, <2>2
<1>3. /\ H1 \in [Task -> Places] /\ H1[t] = "ready" /\ \A u \in Task \ {t} : H1[u] = H[u]
  BY <1>1, MoveFacts DEF Places
<1>4. k1.item = [k.item EXCEPT ![t] = p] /\ k1.waiting = k.waiting
  BY <1>1, CreateFields
<1>5. (k1 = m0 /\ k.current # None) \/ k1 = [m0 EXCEPT !.current = t]
  BY DEF CreateBeforeStart
<1>6. k.current \in Task \cup {None}
  BY <1>1 DEF Kernels
<1> HIDE DEF m0, H1
<1>7. /\ Good(k1, H1) /\ Times(k1, H1) /\ k1.pending = m0.pending
      /\ k1.running = m0.running /\ k1.tick = m0.tick /\ k1.prio = m0.prio /\ k1.base = m0.base
      /\ k1.locks = m0.locks /\ k1.missed = m0.missed
      /\ k1.current \in Task /\ H1[k1.current] = "ready"
  <2>1. CASE k1 = m0 /\ k.current # None
    <3>1. k1.current = k.current /\ k.current \in Task /\ H[k.current] = "ready"
      BY <1>1, <1>2, <1>6, <2>1 DEF SameButPrio
    <3>2. H1[k.current] = "ready"
      BY <1>3, <3>1
    <3>3. QED
      BY <1>2, <2>1, <3>1, <3>2
  <2>2. CASE k1 = [m0 EXCEPT !.current = t]
    <3>1. /\ Good(k1, H1) /\ Times(k1, H1) /\ SameButCurrent(m0, k1)
          /\ k1.current = t /\ k1.pending = m0.pending
      BY <1>2, <2>2, SetCurrent
    <3>2. QED
      BY <1>3, <3>1 DEF SameButCurrent
  <2>3. QED
    BY <1>5, <2>1, <2>2
<1>8. QED
  BY <1>1, <1>2, <1>3, <1>4, <1>7 DEF SameButPrio, H1

\* What main does: it creates a task, and starts the scheduler when it has.
LEMMA MainFrame ==
  ASSUME NEW H, Frames(H), ~k.running, NEW t \in Task, H[t] = "none", NEW p \in Prio,
         \/ k' = CreateBeforeStart(k, t, p) /\ t # Idle
         \/ k' = Started(k) /\ t = Idle /\ p = 0,
         at' = [at EXCEPT ![t] = "task"], call' = call, q' = q
  PROVE  /\ \E H1 \in [Task -> Places] : Frame(k', at', call', q', H1)
         /\ k'.prio = [k.prio EXCEPT ![t] = p] /\ k'.base = [k.base EXCEPT ![t] = p]
         /\ k'.waiting = k.waiting /\ \A u \in Task : call[u] = NoCall /\ ~Waits(k, u)
<1> DEFINE H1 == Move(H, t, "ready")
           k1 == CreateBeforeStart(k, t, p)
<1>1. /\ Good(k, H) /\ Times(k, H) /\ k \in Kernels /\ H \in [Task -> Places]
      /\ at \in [Task -> Spots] /\ call \in [Task -> AllCalls]
      /\ k.item = k.prio /\ k.missed <= MaxMissed
      /\ k.pending = <<>> /\ k.missed = 0 /\ k.tick = 0 /\ k.locks = 0
      /\ H[Idle] = "none" /\ Idle \in Task
      /\ \A u \in Task :
              /\ H[u] \in {"none", "ready"} /\ at[u] \in {"nowhere", "task"} /\ ~Waits(k, u)
              /\ call[u] = NoCall /\ (at[u] = "nowhere" <=> H[u] = "none")
      /\ Owned(call, q) /\ Latched(at, call, q)
  BY QuietBefore
<1>2. /\ Good(k1, H1) /\ Times(k1, H1) /\ H1 \in [Task -> Places]
      /\ H1[t] = "ready" /\ \A u \in Task \ {t} : H1[u] = H[u]
      /\ k1.prio = [k.prio EXCEPT ![t] = p] /\ k1.base = [k.base EXCEPT ![t] = p]
      /\ k1.item = k1.prio /\ k1.waiting = k.waiting /\ k1.pending = k.pending
      /\ k1.tick = k.tick /\ k1.locks = k.locks /\ k1.missed = k.missed
      /\ k1.running = k.running
      /\ k1.current \in Task /\ H1[k1.current] = "ready"
  BY CreatedFirst
<1>3. \/ k' = k1 /\ t # Idle
      \/ k' = [k1 EXCEPT !.running = TRUE, !.tick = 0] /\ t = Idle
  BY DEF Started
<1>4. /\ [k1 EXCEPT !.running = TRUE, !.tick = 0].item = k1.item
      /\ [k1 EXCEPT !.running = TRUE, !.tick = 0].waiting = k1.waiting
  BY <1>1, CreateFields
<1> HIDE DEF k1, H1
<1>5. /\ Good(k', H1) /\ Times(k', H1) /\ k'.tick = 0
      /\ k'.prio = k1.prio /\ k'.base = k1.base /\ k'.item = k1.item /\ k'.waiting = k1.waiting
      /\ k'.pending = k1.pending /\ k'.locks = k1.locks /\ k'.missed = k1.missed
      /\ k'.current = k1.current /\ (k'.running <=> t = Idle)
  <2>1. CASE k' = k1 /\ t # Idle
    BY <1>1, <1>2, <2>1
  <2>2. CASE k' = [k1 EXCEPT !.running = TRUE, !.tick = 0] /\ t = Idle
    <3>1. k1.tick = 0
      BY <1>1, <1>2
    <3>2. /\ Good(k', H1) /\ Times(k', H1) /\ k'.running = TRUE /\ k'.tick = 0
          /\ k'.current = k1.current /\ k'.prio = k1.prio /\ k'.base = k1.base
          /\ k'.locks = k1.locks /\ k'.missed = k1.missed /\ k'.pending = k1.pending
      BY <1>2, <2>2, <3>1, SetRunning
    <3>3. QED
      BY <1>4, <2>2, <3>2
  <2>3. QED
    BY <1>3, <2>1, <2>2
<1>6. /\ at' \in [Task -> Spots] /\ at'[t] = "task" /\ \A u \in Task \ {t} : at'[u] = at[u]
  BY <1>1 DEF Spots
<1>7. ASSUME NEW u \in Task
      PROVE  Standing(k', at', call', H1, u)
  <2>1. /\ ~Waits(k', u) /\ ~Contains(k'.pending, u) /\ call'[u] = NoCall
        /\ at'[u] \in {"nowhere", "task"} /\ (at'[u] = "nowhere" <=> H1[u] = "none")
        /\ H1[u] \in {"none", "ready"}
    BY <1>1, <1>2, <1>5, <1>6, EmptyList DEF Waits
  <2>2. ~Holding(at', call', u) /\ k'.locks = 0
    BY <1>1, <1>2, <1>5, <2>1 DEF Holding, InCall
  <2>3. \A e \in EventList : ~Contains(k'.waiting[e], u)
    BY <2>1 DEF Waits
  <2>4. QED
    BY <2>1, <2>2, <2>3, NoCallTypes DEF Standing, Resting1
<1>8. Working(k', at', call', H1)
  <2>1. k'.running => H1[Idle] = "ready" /\ at'[Idle] = "task"
    BY <1>2, <1>5, <1>6
  <2>2. ~k'.running => H1[Idle] = "none"
    BY <1>1, <1>2, <1>5
  <2>3. \A u \in Task : H1[u] \in {"none", "ready"} /\ at'[u] \in {"nowhere", "task"}
    BY <1>1, <1>2, <1>6
  <2>4. /\ k'.item = k'.prio /\ k'.missed <= MaxMissed /\ k'.pending = <<>> /\ k'.missed = 0
        /\ k'.locks = 0 /\ k'.current \in Task /\ H1[k'.current] = "ready" /\ k'.tick = 0
    BY <1>1, <1>2, <1>5
  <2>5. QED
    BY <2>1, <2>2, <2>3, <2>4 DEF Working, AtWork
<1>9. Latched(at', call', q')
  <2>1. \A u \in Task : ~InCall(at', call', u, Latches \cup {"unlockRx"}) /\ ~InCall(at', call', u, Latches)
                        /\ ~InCall(at, call, u, Latches \cup {"unlockRx"}) /\ ~InCall(at, call, u, Latches)
    BY <1>1, <1>6 DEF InCall
  <2>2. QED
    BY <1>1, <2>1 DEF Latched
<1>10. Frame(k', at', call', q', H1)
  BY <1>1, <1>5, <1>6, <1>7, <1>8, <1>9 DEF Frame
<1>11. QED
  BY <1>1, <1>2, <1>5, <1>10

-----------------------------------------------------------------------------
(* How long a call waits                                                     *)

Ending == {"unlockTx", "unlockRx", "resume"}

\* What the call c of u, of age x, says of the time, in the kernel m.
Timed(m, c, x, H, u) ==
  /\ x \in 0 .. Ticks /\ c.ticks <= c.asked
  /\ c.asked = MaxDelay => c.ticks = MaxDelay
  /\ ~c.entered => x = 0 /\ c.ticks = c.asked /\ c.step \in {"none", "try"}
  /\ c.entered /\ c.ticks # 0 /\ c.asked # MaxDelay /\ x < Ticks =>
       /\ x = (c.asked - c.ticks) + Elapsed(c.time, m.tick, Ticks)
       /\ m.tick >= c.time => m.overflows = c.overflows
  /\ c.entered /\ c.ticks = 0 => x >= c.asked /\ c.asked # 0 /\ c.asked # MaxDelay /\ c.step \in Ending
  /\ c.step \in {"look", "place"} /\ c.ticks # MaxDelay => c.time = m.tick
  /\ c.op # "none" /\ H[u] \in Asleep =>
       c.entered /\ c.asked # MaxDelay /\ (x < Ticks => x + Rest(m, H, u) = c.asked)

\* The age of a call after n more ticks.
Older(c, x, n) == IF ~c.entered THEN 0 ELSE IF x + n > Ticks THEN Ticks ELSE x + n

\* Ages, by the ticks that a step counts.
LEMMA AgesOn ==
  ASSUME Ages, NEW n \in Moments, Counts(k, k', n), k.tick \in Moments, k'.tick \in Moments
  PROVE  \A u \in Task : age'[u] = Older(call'[u], age[u], n)
<1>1. MaxDelay \in Nat \ {0} /\ Ticks = MaxDelay + 1 /\ Moments = 0 .. MaxDelay
  BY Numbers DEF Moments
<1>2. /\ k.tick + n < Ticks => k'.tick = k.tick + n
      /\ k.tick + n >= Ticks => k'.tick = (k.tick + n) - Ticks
  <2>1. k.tick + n < 2 * Ticks
    BY <1>1
  <2>2. QED
    BY <1>1, <2>1 DEF Counts
<1>3. Wrapped(k'.tick - k.tick, Ticks) = n
  <2>1. Wrapped(k'.tick - k.tick, Ticks)
          = IF k'.tick - k.tick < 0 THEN (k'.tick - k.tick) + Ticks
            ELSE IF k'.tick - k.tick < Ticks THEN k'.tick - k.tick ELSE (k'.tick - k.tick) - Ticks
    <3>1. /\ k'.tick - k.tick \in Int /\ -Ticks <= k'.tick - k.tick /\ k'.tick - k.tick < 2 * Ticks
          /\ Ticks \in Nat \ {0}
      BY <1>1
    <3>2. QED
      BY <3>1, OneTurn
  <2>2. CASE k.tick + n < Ticks
    BY <1>1, <1>2, <2>1, <2>2
  <2>3. CASE k.tick + n >= Ticks
    BY <1>1, <1>2, <2>1, <2>3
  <2>4. QED
    BY <1>1, <2>2, <2>3
<1>4. SUFFICES ASSUME NEW u \in Task
               PROVE  age'[u] = Older(call'[u], age[u], n)
  OBVIOUS
<1>5. age'[u] = IF ~call'[u].entered THEN 0
                ELSE LET a == age[u] + Wrapped(k'.tick - k.tick, Ticks)
                     IN  IF a > Ticks THEN Ticks ELSE a
  BY DEF Ages, Wrapped
<1>6. QED
  BY <1>3, <1>5 DEF Older

\* Less than a turn after z, the counter has gone on without passing z.
LEMMA ElapsedOn ==
  ASSUME NEW z \in Moments, NEW x \in Moments, NEW y \in Moments, NEW n \in Moments,
         x + n < Ticks => y = x + n,
         x + n >= Ticks /\ x + n < 2 * Ticks => y = (x + n) - Ticks,
         Elapsed(z, x, Ticks) + n < Ticks
  PROVE  /\ Elapsed(z, y, Ticks) = Elapsed(z, x, Ticks) + n
         /\ y >= z => x >= z /\ x + n < Ticks
<1>1. MaxDelay \in Nat \ {0} /\ Ticks = MaxDelay + 1 /\ Moments = 0 .. MaxDelay
  BY Numbers DEF Moments
<1>2. /\ Elapsed(z, x, Ticks) = IF x >= z THEN x - z ELSE (x - z) + Ticks
      /\ Elapsed(z, y, Ticks) = IF y >= z THEN y - z ELSE (y - z) + Ticks
  BY <1>1, ElapsedFacts DEF Moments
<1>3. CASE x >= z
  <2>1. (x - z) + n < Ticks
    BY <1>2, <1>3
  <2>2. CASE x + n < Ticks
    BY <1>1, <1>2, <1>3, <2>1, <2>2
  <2>3. CASE x + n >= Ticks
    <3>1. y = (x + n) - Ticks
      BY <1>1, <2>3
    <3>2. y < z
      BY <1>1, <2>1, <3>1
    <3>3. QED
      BY <1>1, <1>2, <1>3, <3>1, <3>2
  <2>4. QED
    BY <1>1, <2>2, <2>3
<1>4. CASE x < z
  <2>1. ((x - z) + Ticks) + n < Ticks
    BY <1>1, <1>2, <1>4
  <2>2. x + n < z
    BY <1>1, <2>1
  <2>3. y = x + n
    BY <1>1, <2>2
  <2>4. QED
    BY <1>1, <1>2, <1>4, <2>2, <2>3
<1>5. QED
  BY <1>1, <1>3, <1>4

\* A call grows older by as many ticks as have elapsed.
LEMMA AgeGrows ==
  ASSUME NEW a \in Moments, NEW d \in Moments, d <= a, NEW e \in Moments, NEW n \in Moments,
         NEW x, x = (a - d) + e, NEW y, y = x + n, y < Ticks
  PROVE  e + n < Ticks /\ y = (a - d) + (e + n)
BY Numbers DEF Moments

\* As n ticks pass, a call that only goes on to another step grows older.
LEMMA TimePasses ==
  ASSUME NEW m \in Kernels, NEW m1 \in Kernels, NEW H, NEW H1, NEW u \in Task,
         NEW n \in Moments, Counts(m, m1, n),
         NEW c \in AllCalls, NEW c1, NEW x, Timed(m, c, x, H, u),
         c1.op = c.op, c1.ticks = c.ticks, c1.asked = c.asked, c1.entered = c.entered,
         c1.time = c.time, c1.overflows = c.overflows,
         H1[u] \in Asleep => H[u] \in Asleep /\ Rest(m1, H1, u) = Rest(m, H, u) - n,
         ~c.entered => c1.step \in {"none", "try"},
         c.entered /\ c.ticks = 0 => c1.step \in Ending,
         c1.step \in {"look", "place"} /\ c.ticks # MaxDelay => c.time = m1.tick
  PROVE  Timed(m1, c1, Older(c, x, n), H1, u)
<1> DEFINE y == Older(c, x, n)
<1>1. /\ MaxDelay \in Nat \ {0} /\ Ticks = MaxDelay + 1 /\ Moments = 0 .. MaxDelay
      /\ m.tick \in Moments /\ m1.tick \in Moments /\ c.ticks \in Moments /\ c.asked \in Moments
      /\ c.time \in Moments /\ x \in 0 .. Ticks /\ Rest(m, H, u) \in Int
  BY KernelNumbers, CallFields, Numbers DEF Timed, Moments, Rest
<1>2. /\ y \in 0 .. Ticks /\ (~c.entered => y = 0)
      /\ c.entered => y >= x /\ (y < Ticks => x < Ticks /\ y = x + n)
  BY <1>1 DEF Older
<1> HIDE DEF y
<1>3. ASSUME c.entered, c.ticks # 0, c.asked # MaxDelay, y < Ticks
      PROVE  /\ y = (c.asked - c.ticks) + Elapsed(c.time, m1.tick, Ticks)
             /\ m1.tick >= c.time => m1.overflows = c.overflows
  <2>1. /\ x = (c.asked - c.ticks) + Elapsed(c.time, m.tick, Ticks)
        /\ m.tick >= c.time => m.overflows = c.overflows
        /\ c.ticks <= c.asked /\ y = x + n
    BY <1>2, <1>3 DEF Timed
  <2>2. /\ Elapsed(c.time, m.tick, Ticks) = IF m.tick >= c.time THEN m.tick - c.time
                                                               ELSE (m.tick - c.time) + Ticks
        /\ Elapsed(c.time, m1.tick, Ticks) = IF m1.tick >= c.time THEN m1.tick - c.time
                                                                  ELSE (m1.tick - c.time) + Ticks
        /\ Elapsed(c.time, m.tick, Ticks) \in Moments /\ Elapsed(c.time, m1.tick, Ticks) \in Moments
    BY <1>1, ElapsedFacts DEF Moments
  <2>3. /\ Elapsed(c.time, m.tick, Ticks) + n < Ticks
        /\ y = (c.asked - c.ticks) + (Elapsed(c.time, m.tick, Ticks) + n)
    <3> DEFINE e == Elapsed(c.time, m.tick, Ticks)
    <3>1. /\ c.asked \in Moments /\ c.ticks \in Moments /\ c.ticks <= c.asked /\ e \in Moments
          /\ x = (c.asked - c.ticks) + e /\ y = x + n /\ y < Ticks /\ n \in Moments
      BY <1>1, <1>3, <2>1, <2>2
    <3> HIDE DEF e
    <3>2. e + n < Ticks /\ y = (c.asked - c.ticks) + (e + n)
      BY ONLY <3>1, AgeGrows
    <3>3. QED
      BY <3>2 DEF e
  <2>4. /\ m.tick + n < Ticks => m1.tick = m.tick + n /\ m1.overflows = m.overflows
        /\ m.tick + n >= Ticks /\ m.tick + n < 2 * Ticks => m1.tick = (m.tick + n) - Ticks
    BY <1>1 DEF Counts
  <2>5. /\ Elapsed(c.time, m1.tick, Ticks) = Elapsed(c.time, m.tick, Ticks) + n
        /\ m1.tick >= c.time => m.tick >= c.time /\ m.tick + n < Ticks
    <3>1. /\ c.time \in Moments /\ m.tick \in Moments /\ m1.tick \in Moments /\ n \in Moments
          /\ Elapsed(c.time, m.tick, Ticks) + n < Ticks
      BY <1>1, <2>3
    <3>2. QED
      BY ONLY <2>4, <3>1, ElapsedOn
  <2>6. QED
    BY <2>1, <2>3, <2>4, <2>5
<1>4. ASSUME c.op # "none", H1[u] \in Asleep
      PROVE  c.entered /\ c.asked # MaxDelay /\ (y < Ticks => y + Rest(m1, H1, u) = c.asked)
  <2>1. H[u] \in Asleep /\ Rest(m1, H1, u) = Rest(m, H, u) - n
    BY <1>4
  <2>2. c.entered /\ c.asked # MaxDelay /\ (x < Ticks => x + Rest(m, H, u) = c.asked)
    BY <1>4, <2>1 DEF Timed
  <2>3. QED
    BY <1>1, <1>2, <2>1, <2>2
<1>5. ASSUME c.entered, c.ticks = 0
      PROVE  y >= c.asked /\ c.asked # 0 /\ c.asked # MaxDelay
  <2>1. x >= c.asked /\ c.asked # 0 /\ c.asked # MaxDelay
    BY <1>5 DEF Timed
  <2>2. QED
    BY <1>1, <1>2, <1>5, <2>1
<1>6. c.ticks <= c.asked /\ (c.asked = MaxDelay => c.ticks = MaxDelay) /\ (~c.entered => c.ticks = c.asked)
  BY DEF Timed
<1>7. Timed(m1, c1, y, H1, u)
  BY <1>2, <1>3, <1>4, <1>5, <1>6 DEF Timed
<1>8. QED
  BY <1>7 DEF y

-----------------------------------------------------------------------------
\* The times of all calls.
Timing(m, c, g, H) == \A u \in Task : Timed(m, c[u], g[u], H, u)

\* How old the call of u is after n ticks.
Aged(u, n) == Older(call'[u], age[u], n)

\* The counter counts.
LEMMA GoodClock ==
  ASSUME NEW m, NEW H, Good(m, H)
  PROVE  m \in Kernels /\ m.tick \in Moments
BY KernelNumbers DEF Good, Moments

\* A call that looks at the time sees this moment.
LEMMA ClockAt ==
  ASSUME NEW m \in Kernels, NEW m1 \in Kernels, Counts(m, m1, 0)
  PROVE  m1.tick = m.tick
<1>1. m.tick \in 0 .. MaxDelay /\ MaxDelay \in Nat \ {0} /\ Ticks = MaxDelay + 1
  BY KernelNumbers, Numbers
<1>2. QED
  BY <1>1 DEF Counts

\* Who does nothing only grows older, n ticks.
LEMMA OnwardTimed ==
  ASSUME NEW H, Frames(H), NEW H1, Good(k', H1), NEW n \in Moments, Counts(k, k', n),
         NEW u \in Task, Onward(k, H, k', H1, u, n), call'[u] = call[u],
         Timed(k, call[u], age[u], H, u),
         call[u].step \in {"look", "place"} => n = 0
  PROVE  Timed(k', call'[u], Aged(u, n), H1, u)
<1>1. k \in Kernels /\ k' \in Kernels /\ call[u] \in AllCalls
  BY GoodClock DEF Frames, Frame
<1>2. H1[u] \in Asleep => H[u] \in Asleep /\ Rest(k', H1, u) = Rest(k, H, u) - n
  BY DEF Onward
<1>3. /\ ~call[u].entered => call[u].step \in {"none", "try"}
      /\ call[u].entered /\ call[u].ticks = 0 => call[u].step \in Ending
      /\ call[u].step \in {"look", "place"} /\ call[u].ticks # MaxDelay => call[u].time = k.tick
  BY DEF Timed
<1>4. call[u].step \in {"look", "place"} /\ call[u].ticks # MaxDelay => call[u].time = k'.tick
  BY <1>1, <1>3, ClockAt
<1> DEFINE c == call[u]
<1>5. /\ c \in AllCalls /\ Timed(k, c, age[u], H, u) /\ c.op = c.op /\ c.ticks = c.ticks
      /\ c.asked = c.asked /\ c.entered = c.entered /\ c.time = c.time
      /\ c.overflows = c.overflows
      /\ ~c.entered => c.step \in {"none", "try"}
  BY <1>1, <1>3
<1>6. c.entered /\ c.ticks = 0 => c.step \in Ending
  BY <1>3
<1>7. c.step \in {"look", "place"} /\ c.ticks # MaxDelay => c.time = k'.tick
  BY <1>4
<1> HIDE DEF c
<1>8. Timed(k', c, Older(c, age[u], n), H1, u)
  BY ONLY <1>1, <1>2, <1>5, <1>6, <1>7, Counts(k, k', n), n \in Moments, u \in Task, TimePasses
<1>9. call'[u] = c
  BY DEF c
<1>10. QED
  BY <1>8, <1>9 DEF Aged

\* Who goes onward while another task or an interrupt acts keeps its time.
LEMMA TurnTimed ==
  ASSUME NEW H, Frames(H), k.running, NEW t \in Task, k.current = t,
         Timing(k, call, age, H), Ages, NEW n, NEW H1, Turns(H, t, n, H1),
         Timed(k', call'[t], Aged(t, n), H1, t)
  PROVE  Timing(k', call', age', H1)
<1>1. /\ Good(k', H1) /\ n \in Moments /\ Counts(k, k', n) /\ Good(k, H)
      /\ \A u \in Task \ {t} : Onward(k, H, k', H1, u, n) /\ call'[u] = call[u]
  BY DEF Turns, Frame, Frames, Moments
<1>2. k.tick \in Moments /\ k'.tick \in Moments
  BY <1>1, GoodClock
<1>3. \A u \in Task : age'[u] = Aged(u, n)
  BY <1>1, <1>2, AgesOn DEF Aged
<1>4. ASSUME NEW u \in Task \ {t}
      PROVE  Timed(k', call'[u], Aged(u, n), H1, u)
  <2>1. call[u].step \notin {"look", "place"}
    <3>1. ~InCall(at, call, u, Inside)
      BY OthersOutside
    <3>2. at[u] = "call" <=> call[u].op # "none"
      BY DEF Frames, Frame, Standing
    <3>3. call[u].op = "none" => call[u].step = "none"
      BY NoCallTypes DEF Frames, Frame, Standing
    <3>4. QED
      BY <3>1, <3>2, <3>3 DEF InCall, Inside
  <2>2. Timed(k, call[u], age[u], H, u)
    BY DEF Timing
  <2>3. QED
    BY <1>1, <2>1, <2>2, OnwardTimed
<1>5. QED
  BY <1>3, <1>4 DEF Timing

LEMMA InterruptTimed ==
  ASSUME NEW H, Frames(H), Timing(k, call, age, H), Ages, NEW n, NEW H1, Interrupts(H, n, H1)
  PROVE  Timing(k', call', age', H1)
<1>1. /\ Good(k', H1) /\ n \in Moments /\ Counts(k, k', n) /\ Good(k, H)
      /\ \A u \in Task : Onward(k, H, k', H1, u, n) /\ call'[u] = call[u] /\ at'[u] = at[u]
      /\ k'.locks = 1 => n = 0
  BY DEF Interrupts, Frame, Frames, Moments
<1>2. k.tick \in Moments /\ k'.tick \in Moments
  BY <1>1, GoodClock
<1>3. \A u \in Task : age'[u] = Aged(u, n)
  BY <1>1, <1>2, AgesOn DEF Aged
<1>4. ASSUME NEW u \in Task
      PROVE  Timed(k', call'[u], Aged(u, n), H1, u)
  <2>1. ASSUME call[u].step \in {"look", "place"}
        PROVE  n = 0
    <3>1. at[u] = "call" <=> call[u].op # "none"
      BY DEF Frames, Frame, Standing
    <3>2. call[u].op = "none" => call[u].step = "none"
      BY NoCallTypes DEF Frames, Frame, Standing
    <3>3. Holding(at', call', u)
      BY <1>1, <2>1, <3>1, <3>2 DEF Holding, InCall, Inside
    <3>4. Standing(k', at', call', H1, u)
      BY DEF Interrupts, Frame
    <3>5. QED
      BY <1>1, <3>3, <3>4 DEF Standing
  <2>2. Timed(k, call[u], age[u], H, u)
    BY DEF Timing
  <2>3. QED
    BY <1>1, <2>1, <2>2, OnwardTimed
<1>5. QED
  BY <1>3, <1>4 DEF Timing

-----------------------------------------------------------------------------
\* No time elapses at once.
LEMMA NothingElapsed ==
  ASSUME NEW x \in Moments
  PROVE  Elapsed(x, x, Ticks) = 0
<1>1. x \in Int /\ x - x = 0 /\ x >= x
  BY Numbers DEF Moments
<1>2. Elapsed(x, x, Ticks) = IF x >= x THEN x - x ELSE (x - x) + Ticks
  BY ElapsedFacts DEF Moments
<1>3. QED
  BY <1>1, <1>2

\* A call that begins has not waited yet.
LEMMA StartsTimed ==
  ASSUME NEW t \in Task, NEW m, NEW n, NEW H1, H1[t] \notin Asleep, Starts(t),
         call'[t] \in AllCalls
  PROVE  Timed(m, call'[t], Aged(t, n), H1, t)
<1>1. Aged(t, n) = 0 /\ 0 \in 0 .. Ticks
  BY Numbers DEF Aged, Older, Starts
<1>2. call'[t].ticks \in 0 .. MaxDelay
  BY CallFields
<1>3. call'[t].ticks <= call'[t].asked
  BY <1>2, Numbers DEF Starts
<1>4. QED
  BY <1>1, <1>3 DEF Starts, Timed

\* Without a call there is no time to keep.
LEMMA NoCallTimed ==
  ASSUME NEW t \in Task, NEW m, NEW n, NEW H1, call'[t] = NoCall
  PROVE  Timed(m, call'[t], Aged(t, n), H1, t)
<1>1. Aged(t, n) = 0 /\ 0 \in 0 .. Ticks /\ 0 # MaxDelay
  BY NoCallTypes, Numbers DEF Aged, Older
<1>2. /\ NoCall.ticks = 0 /\ NoCall.asked = 0 /\ ~NoCall.entered
      /\ NoCall.step = "none" /\ NoCall.op = "none"
  BY NoCallTypes
<1>3. QED
  BY <1>1, <1>2, Numbers DEF Timed

\* A call that only goes on to the step s.
LEMMA StepTimed ==
  ASSUME NEW H, Frames(H), k.running, NEW t \in Task, NEW n, NEW H1, Turns(H, t, n, H1),
         Timed(k, call[t], age[t], H, t), NEW s \in Steps, Continues(t, StepTo(call[t], s)),
         H1[t] \in Asleep => Onward(k, H, k', H1, t, n),
         call[t].step \notin {"none", "try"}, call[t].ticks = 0 => s \in Ending,
         s \in {"look", "place"} => n = 0 /\ call[t].step = "look"
  PROVE  Timed(k', call'[t], Aged(t, n), H1, t)
<1>1. k \in Kernels /\ k' \in Kernels /\ call[t] \in AllCalls /\ n \in Moments /\ Counts(k, k', n)
  BY GoodClock DEF Turns, Frames, Frame, Moments
<1>2. H1[t] \in Asleep => H[t] \in Asleep /\ Rest(k', H1, t) = Rest(k, H, t) - n
  BY DEF Onward
<1>3. call[t].entered
  BY DEF Timed
<1>4. s \in {"look", "place"} /\ call[t].ticks # MaxDelay => call[t].time = k'.tick
  BY <1>1, ClockAt DEF Timed
<1> DEFINE c == call[t]
           c1 == StepTo(call[t], s)
<1>5. call'[t] = c1
  BY ContinuesFacts
<1>6. /\ c1.op = c.op /\ c1.ticks = c.ticks
      /\ c1.asked = c.asked /\ c1.entered = c.entered /\ c1.time = c.time
      /\ c1.overflows = c.overflows
      /\ c1.step = s
  BY <1>1, StepFields
<1>7. Timed(k, c, age[t], H, t) /\ c \in AllCalls
  BY <1>1
<1>8. ~c.entered => c1.step \in {"none", "try"}
  BY <1>3
<1>9. c.entered /\ c.ticks = 0 => c1.step \in Ending
  BY <1>6
<1>10. c1.step \in {"look", "place"} /\ c.ticks # MaxDelay => c.time = k'.tick
  BY <1>4, <1>6
<1>11. Aged(t, n) = Older(c, age[t], n)
  BY <1>5, <1>6 DEF Aged, Older
<1> HIDE DEF c, c1
<1>12. Timed(k', c1, Older(c, age[t], n), H1, t)
  BY ONLY <1>1, <1>2, <1>6, <1>7, <1>8, <1>9, <1>10, n \in Moments, t \in Task, TimePasses
<1>13. QED
  BY <1>5, <1>11, <1>12

\* A call that prepares to block has its time noted when it first does.
LEMMA NotedTimed ==
  ASSUME NEW H, Frames(H), k.running, NEW t \in Task, k' = k, H[t] = "ready",
         Timed(k, call[t], age[t], H, t), call[t].ticks # 0, NEW s \in {"block", "suspend"},
         Continues(t, Noted(call[t], s,
                            IF call[t].entered THEN call[t].time ELSE k.tick,
                            IF call[t].entered THEN call[t].overflows ELSE k.overflows))
  PROVE  Timed(k', call'[t], Aged(t, 0), H, t)
<1> DEFINE c  == call[t]
           z  == IF c.entered THEN c.time ELSE k.tick
           o  == IF c.entered THEN c.overflows ELSE k.overflows
           c1 == Noted(c, s, z, o)
<1>1. /\ k \in Kernels /\ k.tick \in Moments /\ c \in AllCalls /\ k.overflows \in Laps
      /\ c.time \in Moments /\ c.overflows \in Laps /\ c.ticks \in Moments /\ c.asked \in Moments
  <2>1. k \in Kernels /\ k.tick \in Moments /\ c \in AllCalls
    BY GoodClock DEF Frames, Frame
  <2>2. k.overflows \in Laps
    BY <2>1 DEF Kernels, Laps
  <2>3. QED
    BY <2>1, <2>2, CallFields DEF Moments, Laps
<1>2. z \in Moments /\ o \in Laps /\ s \in Steps
  BY <1>1 DEF Steps, Inside
<1>3. call'[t] = c1
  BY ContinuesFacts
<1>4. /\ c1.step = s /\ c1.op = c.op /\ c1.ticks = c.ticks
      /\ c1.asked = c.asked /\ c1.entered /\ c1.time = z /\ c1.overflows = o
  <2> HIDE DEF c, z, o
  <2>1. QED
    BY <1>1, <1>2, NotedFields
<1>5. /\ age[t] \in 0 .. Ticks /\ c.ticks <= c.asked
      /\ c.asked = MaxDelay => c.ticks = MaxDelay
      /\ ~c.entered => age[t] = 0 /\ c.ticks = c.asked
      /\ c.entered /\ c.asked # MaxDelay /\ age[t] < Ticks =>
            /\ age[t] = (c.asked - c.ticks) + Elapsed(c.time, k.tick, Ticks)
            /\ k.tick >= c.time => k.overflows = c.overflows
  BY DEF Timed
<1>6. Aged(t, 0) = age[t]
  BY <1>3, <1>4, <1>5, Numbers DEF Aged, Older
<1>7. ASSUME c.asked # MaxDelay, age[t] < Ticks
      PROVE  /\ age[t] = (c.asked - c.ticks) + Elapsed(z, k.tick, Ticks)
             /\ k.tick >= z => k.overflows = o
  <2>1. CASE c.entered
    BY <1>5, <1>7, <2>1
  <2>2. CASE ~c.entered
    <3>1. Elapsed(k.tick, k.tick, Ticks) = 0
      BY <1>1, NothingElapsed
    <3>2. QED
      BY <1>1, <1>5, <2>2, <3>1, Numbers DEF Moments
  <2>3. QED
    BY <2>1, <2>2
<1>8. H[t] \notin Asleep
  BY DEF Asleep
<1>9. Timed(k, c1, age[t], H, t)
  <2> HIDE DEF c, z, o, c1
  <2>1. /\ age[t] \in 0 .. Ticks /\ c1.ticks <= c1.asked
        /\ c1.asked = MaxDelay => c1.ticks = MaxDelay
        /\ ~c1.entered => age[t] = 0 /\ c1.ticks = c1.asked /\ c1.step \in {"none", "try"}
    BY <1>4, <1>5
  <2>2. c1.entered /\ c1.ticks # 0 /\ c1.asked # MaxDelay /\ age[t] < Ticks =>
          /\ age[t] = (c1.asked - c1.ticks) + Elapsed(c1.time, k.tick, Ticks)
          /\ k.tick >= c1.time => k.overflows = c1.overflows
    BY <1>4, <1>7
  <2>3. c1.ticks # 0 /\ c1.step \notin {"look", "place"}
    BY <1>4 DEF c
  <2>4. QED
    BY <1>8, <2>1, <2>2, <2>3 DEF Timed
<1>10. QED
  BY <1>3, <1>6, <1>9

-----------------------------------------------------------------------------
\* A call whose time is over is as old as it was asked to wait, or older.
LEMMA OverWaited ==
  ASSUME NEW H, Frames(H), NEW t \in Task, Timed(k, call[t], age[t], H, t),
         call[t].entered, call[t].ticks # 0, IsOver(t)
  PROVE  age[t] >= call[t].asked /\ call[t].asked # 0 /\ call[t].asked # MaxDelay
<1> DEFINE c == call[t]
           e == Elapsed(c.time, k.tick, Ticks)
<1>1. /\ k.tick \in Moments /\ c \in AllCalls
      /\ c.time \in Moments /\ c.ticks \in Moments /\ c.asked \in Moments
  BY GoodClock, CallFields DEF Frames, Frame, Moments
<1>2. /\ age[t] \in 0 .. Ticks /\ c.ticks <= c.asked
      /\ c.asked = MaxDelay => c.ticks = MaxDelay
      /\ c.asked # MaxDelay /\ age[t] < Ticks =>
            /\ age[t] = (c.asked - c.ticks) + e
            /\ k.tick >= c.time => k.overflows = c.overflows
  BY DEF Timed
<1>3. /\ c.ticks # MaxDelay
      /\ (k.overflows # c.overflows /\ k.tick >= c.time) \/ e >= c.ticks
  BY DEF IsOver, TimedOut
<1>4. e \in Moments
  BY <1>1, ElapsedFacts DEF Moments
<1>5. c.asked # MaxDelay /\ c.asked # 0
  BY <1>1, <1>2, <1>3, Numbers DEF Moments
<1>6. CASE age[t] < Ticks
  <2>1. e >= c.ticks /\ age[t] = (c.asked - c.ticks) + e
    BY <1>2, <1>3, <1>5, <1>6
  <2>2. QED
    <3> HIDE DEF e, c
    <3>1. age[t] >= c.asked
      BY <1>1, <1>4, <2>1, Numbers DEF Moments
    <3>2. QED
      BY <1>5, <3>1 DEF c
<1>7. CASE ~(age[t] < Ticks)
  <2>1. age[t] >= c.asked
    BY <1>1, <1>2, <1>7, Numbers DEF Moments
  <2>2. QED
    BY <1>5, <2>1
<1>8. QED
  BY <1>6, <1>7

\* The time that has passed is deducted from the time that is left.
LEMMA DeductedTime ==
  ASSUME NEW H, Frames(H), k.running, NEW t \in Task, Timed(k, call[t], age[t], H, t),
         call[t].entered, call[t].ticks # 0, ~IsOver(t)
  PROVE  LET d == Deducted(t) IN
         /\ d \in AllCalls /\ d.op = call[t].op /\ d.asked = call[t].asked /\ d.entered
         /\ d.step = call[t].step
         /\ d.ticks \in 1 .. MaxDelay /\ d.ticks <= d.asked
         /\ d.asked = MaxDelay <=> d.ticks = MaxDelay
         /\ d.asked # MaxDelay =>
              /\ d.time = k.tick
              /\ age[t] < Ticks => d.overflows = k.overflows /\ age[t] = d.asked - d.ticks
<1> DEFINE c == call[t]
           d == Deducted(t)
           e == Elapsed(c.time, k.tick, Ticks)
<1>1. /\ k.tick \in Moments /\ c \in AllCalls
      /\ c.time \in Moments /\ c.ticks \in Moments /\ c.asked \in Moments
  BY GoodClock, CallFields DEF Frames, Frame, Moments
<1>2. e \in Moments
  BY <1>1, ElapsedFacts DEF Moments
<1>3. /\ age[t] \in 0 .. Ticks /\ c.ticks <= c.asked
      /\ c.asked = MaxDelay => c.ticks = MaxDelay
      /\ c.asked # MaxDelay /\ age[t] < Ticks => age[t] = (c.asked - c.ticks) + e
  BY DEF Timed
<1>4. /\ d \in AllCalls /\ d.op = c.op /\ d.step = c.step /\ d.asked = c.asked /\ d.entered = c.entered
      /\ d.ticks \in 1 .. MaxDelay
      /\ d.ticks = IF c.ticks = MaxDelay THEN MaxDelay ELSE c.ticks - e
      /\ c.ticks # MaxDelay => d.time = k.tick /\ d.overflows = k.overflows
  BY DeductedFacts
<1>5. c.entered
  OBVIOUS
<1> HIDE DEF c, d, e
<1>6. CASE c.ticks = MaxDelay
  <2>1. c.asked = MaxDelay
    BY <1>1, <1>3, <1>6, Numbers DEF Moments
  <2>2. QED
    BY <1>1, <1>4, <1>5, <1>6, <2>1, Numbers DEF c, d
<1>7. CASE c.ticks # MaxDelay
  <2>1. c.asked # MaxDelay /\ d.ticks = c.ticks - e
    BY <1>3, <1>4, <1>7
  <2>2. d.ticks <= c.asked /\ d.ticks # MaxDelay
    BY <1>1, <1>2, <1>3, <1>7, <2>1, Numbers DEF Moments
  <2>3. age[t] < Ticks => age[t] = c.asked - d.ticks
    BY <1>1, <1>2, <1>3, <2>1, Numbers DEF Moments
  <2>4. QED
    BY <1>4, <1>5, <1>7, <2>1, <2>2, <2>3 DEF c, d
<1>8. QED
  BY <1>6, <1>7

\* A call that goes on to s with what is left, awake or to be woken when that is over.
LEMMA RestTimed ==
  ASSUME NEW H, Frames(H), k.running, NEW t \in Task, Timed(k, call[t], age[t], H, t),
         call[t].entered, NEW d \in AllCalls, d.op = call[t].op, d.asked = call[t].asked, d.entered,
         d.ticks \in 1 .. MaxDelay, d.ticks <= d.asked, d.asked = MaxDelay <=> d.ticks = MaxDelay,
         d.asked # MaxDelay =>
              /\ d.time = k.tick
              /\ age[t] < Ticks => d.overflows = k.overflows /\ age[t] = d.asked - d.ticks,
         NEW s \in Steps, s \notin {"none"}, call'[t] = StepTo(d, s),
         k'.tick = k.tick, k'.overflows = k.overflows,
         NEW H1, H1[t] \in Asleep => d.ticks # MaxDelay /\ Rest(k', H1, t) = d.ticks
  PROVE  Timed(k', call'[t], Aged(t, 0), H1, t)
<1> DEFINE c1 == StepTo(d, s)
<1>1. /\ k.tick \in Moments /\ d.asked \in Moments /\ d.ticks \in Moments
      /\ age[t] \in 0 .. Ticks
  BY GoodClock, CallFields DEF Frames, Frame, Moments, Timed
<1>2. /\ c1.step = s /\ c1.op = d.op /\ c1.ticks = d.ticks /\ c1.asked = d.asked
      /\ c1.entered = d.entered /\ c1.time = d.time /\ c1.overflows = d.overflows
  BY StepFields
<1>3. Elapsed(k.tick, k.tick, Ticks) = 0
  BY <1>1, NothingElapsed
<1>4. Aged(t, 0) = age[t]
  BY <1>1, <1>2, Numbers DEF Aged, Older
<1>5. ASSUME d.asked # MaxDelay, age[t] < Ticks
      PROVE  /\ age[t] = (d.asked - d.ticks) + Elapsed(d.time, k'.tick, Ticks)
             /\ k'.tick >= d.time => k'.overflows = d.overflows
             /\ age[t] + d.ticks = d.asked
  BY <1>1, <1>3, <1>5, Numbers DEF Moments
<1>6. d.ticks # 0
  BY Numbers
<1> HIDE DEF c1
<1>7. /\ age[t] \in 0 .. Ticks /\ c1.ticks <= c1.asked
      /\ c1.asked = MaxDelay => c1.ticks = MaxDelay
      /\ c1.entered /\ c1.ticks # 0
  BY <1>1, <1>2, <1>6
<1>8. c1.asked # MaxDelay /\ age[t] < Ticks =>
        /\ age[t] = (c1.asked - c1.ticks) + Elapsed(c1.time, k'.tick, Ticks)
        /\ k'.tick >= c1.time => k'.overflows = c1.overflows
  BY <1>2, <1>5
<1>9. c1.step \in {"look", "place"} /\ c1.ticks # MaxDelay => c1.time = k'.tick
  BY <1>2
<1>10. H1[t] \in Asleep =>
        c1.asked # MaxDelay /\ (age[t] < Ticks => age[t] + Rest(k', H1, t) = c1.asked)
  BY <1>2, <1>5
<1>11. Timed(k', c1, age[t], H1, t)
  BY <1>7, <1>8, <1>9, <1>10 DEF Timed
<1>12. QED
  BY <1>4, <1>11 DEF c1

-----------------------------------------------------------------------------
\* The step keeps the frame and the times.
KeepsTime ==
  \E H1 \in [Task -> Places] : Frame(k', at', call', q', H1) /\ Timing(k', call', age', H1)

\* t takes its turn in a state of the frame.
Acts(H, t) ==
  Frames(H) /\ Timing(k, call, age, H) /\ Ages /\ k.running /\ k.current = t

\* A step of t keeps the times if it keeps that of t:
LEMMA TurnKept ==
  ASSUME NEW H, NEW t \in Task, Acts(H, t), NEW n, NEW H1, Turns(H, t, n, H1),
         Timed(k', call'[t], Aged(t, n), H1, t)
  PROVE  KeepsTime
<1>1. Timing(k', call', age', H1)
  BY TurnTimed DEF Acts
<1>2. QED
  BY <1>1 DEF Turns, KeepsTime

\* it ends its call,
LEMMA EndsKept ==
  ASSUME NEW H, NEW t \in Task, Acts(H, t), NEW n, NEW H1, Turns(H, t, n, H1), Ends(t)
  PROVE  KeepsTime
<1>1. call'[t] = NoCall
  BY EndsFacts DEF Acts
<1>2. QED
  BY <1>1, NoCallTimed, TurnKept

\* has none,
LEMMA FreeKept ==
  ASSUME NEW H, NEW t \in Task, Acts(H, t), NEW n, NEW H1, Turns(H, t, n, H1),
         call' = call, at[t] # "call"
  PROVE  KeepsTime
<1>1. call'[t] = NoCall
  BY DEF Acts, Frames, Frame, Standing
<1>2. QED
  BY <1>1, NoCallTimed, TurnKept

\* begins one,
LEMMA StartsKept ==
  ASSUME NEW H, NEW t \in Task, Acts(H, t), Turns(H, t, 0, H), H[t] = "ready", Starts(t)
  PROVE  KeepsTime
<1>1. call'[t] \in AllCalls /\ H[t] \notin Asleep
  BY DEF Turns, Frame, Asleep
<1>2. QED
  BY <1>1, StartsTimed, TurnKept

\* or goes on in it.
LEMMA StepKept ==
  ASSUME NEW H, NEW t \in Task, Acts(H, t), NEW n, NEW H1, Turns(H, t, n, H1),
         NEW s \in Steps, Continues(t, StepTo(call[t], s)),
         H1[t] \in Asleep => Onward(k, H, k', H1, t, n),
         call[t].step \notin {"none", "try"}, call[t].ticks = 0 => s \in Ending,
         s \in {"look", "place"} => n = 0 /\ call[t].step = "look"
  PROVE  KeepsTime
<1>1. Timed(k, call[t], age[t], H, t)
  BY DEF Acts, Timing
<1>2. Timed(k', call'[t], Aged(t, n), H1, t)
  BY <1>1, StepTimed DEF Acts
<1>3. QED
  BY <1>2, TurnKept

\* Every step keeps the times: calls begin,
LEMMA CallsKept ==
  ASSUME NEW H, NEW t \in Task, Frames(H), Timing(k, call, age, H), Ages, program \in Programs,
         ChannelInvariant,
         \/ CallsSend(t) \/ CallsGive(t) \/ CallsReceive(t) \/ CallsPeek(t)
         \/ TakesRecursive(t) \/ GivesRecursive(t)
  PROVE  KeepsTime
<1>1. Runs(t, "task")
  BY DEF CallsSend, CallsGive, CallsReceive, CallsPeek, TakesRecursive, GivesRecursive, Calls
<1>2. H[t] = "ready" /\ at[t] = "task" /\ Acts(H, t)
  BY <1>1, InOwnCode DEF Acts
<1>3. Turns(H, t, 0, H) /\ (Starts(t) \/ (call' = call /\ at' = at))
  BY CallsFrame, RecursiveFrame
<1>4. CASE Starts(t)
  BY <1>2, <1>3, <1>4, StartsKept
<1>5. CASE call' = call /\ at' = at
  BY <1>2, <1>3, <1>5, FreeKept
<1>6. QED
  BY <1>3, <1>4, <1>5

\* A step of a call is a turn of the task that is in it.
LEMMA CallActs ==
  ASSUME NEW H, NEW t \in Task, Frames(H), Timing(k, call, age, H), Ages,
         NEW op, NEW step, Is(t, op, step)
  PROVE  /\ Acts(H, t) /\ Timed(k, call[t], age[t], H, t) /\ call[t].op # "none"
         /\ call[t].step = step
         /\ step \notin {"none", "try"} => call[t].entered
         /\ step \notin After \ {"try"} => H[t] = "ready"
         /\ step \in Resting1 => call[t].ticks # 0
<1>1. Timed(k, call[t], age[t], H, t)
  BY DEF Timing
<1>2. QED
  BY <1>1, InTheCall DEF Acts, Timed

\* an attempt fails and the time is noted,
LEMMA FailsKept ==
  ASSUME NEW H, NEW t \in Task, Frames(H), Timing(k, call, age, H), Ages,
         NEW op, Is(t, op, "try"), NEW why, TryFails(t, why),
         q.kind \in Mutexes => call[t].op # "send"
  PROVE  KeepsTime
<1>1. /\ Acts(H, t) /\ Timed(k, call[t], age[t], H, t) /\ H[t] = "ready"
  BY CallActs DEF After
<1>2. Turns(H, t, 0, H) /\ k' = k
  BY TryFailsFrame
<1>3. CASE Ends(t)
  BY <1>1, <1>2, <1>3, EndsKept
<1>4. ASSUME NEW s \in {"block", "suspend"}, call[t].ticks # 0,
             Continues(t, Noted(call[t], s,
                                IF call[t].entered THEN call[t].time ELSE k.tick,
                                IF call[t].entered THEN call[t].overflows ELSE k.overflows))
      PROVE  KeepsTime
  <2>1. Timed(k', call'[t], Aged(t, 0), H, t)
    BY <1>1, <1>2, <1>4, NotedTimed DEF Acts
  <2>2. QED
    BY <1>1, <1>2, <2>1, TurnKept
<1>5. QED
  BY <1>3, <1>4, TryFailsFrame

\* or goes on,
LEMMA TriesKept ==
  ASSUME NEW H, NEW t \in Task, Frames(H), Timing(k, call, age, H), Ages, ChannelInvariant,
         TrySend(t) \/ TryReceive(t) \/ TryPeek(t)
  PROVE  KeepsTime
<1>1. PICK op : Is(t, op, "try")
  BY DEF TrySend, TryReceive, TryPeek
<1>2. Acts(H, t)
  BY <1>1, CallActs
<1>3. CASE TrySend(t)
  <2>1. CASE q.count < q.length
    <3>1. PICK H1 \in [Task -> Places] : Turns(H, t, 0, H1)
      BY <1>3, <2>1, TrySendFrame
    <3>2. QED
      BY <1>2, <1>3, <2>1, <3>1, TrySendFrame, EndsKept
  <2>2. CASE ~(q.count < q.length)
    BY <1>3, <2>2, TrySendFails, FailsKept
  <2>3. QED
    BY <2>1, <2>2
<1>4. CASE TryReceive(t)
  <2>1. CASE q.count > 0
    <3>1. PICK H1 \in [Task -> Places] : Turns(H, t, 0, H1)
      BY <1>4, <2>1, TryReceiveFrame
    <3>2. QED
      BY <1>2, <1>4, <2>1, <3>1, TryReceiveFrame, EndsKept
  <2>2. CASE ~(q.count > 0)
    <3>1. Is(t, {"receive"}, "try") /\ TryFails(t, "empty") /\ call[t].op # "send"
      BY <1>4, <2>2 DEF TryReceive, Is
    <3>2. QED
      BY <3>1, FailsKept
  <2>3. QED
    BY <2>1, <2>2
<1>5. CASE TryPeek(t)
  <2>1. CASE q.count > 0
    <3>1. PICK H1 \in [Task -> Places] : Turns(H, t, 0, H1)
      BY <1>5, <2>1, TryPeekFrame
    <3>2. QED
      BY <1>2, <1>5, <2>1, <3>1, TryPeekFrame, EndsKept
  <2>2. CASE ~(q.count > 0)
    <3>1. Is(t, {"peek"}, "try") /\ TryFails(t, "empty") /\ call[t].op # "send"
      BY <1>5, <2>2 DEF TryPeek, Is
    <3>2. QED
      BY <3>1, FailsKept
  <2>3. QED
    BY <2>1, <2>2
<1>6. QED
  BY <1>3, <1>4, <1>5

-----------------------------------------------------------------------------
\* the time of the call is over,
LEMMA OverTimed ==
  ASSUME NEW H, Frames(H), k.running, NEW t \in Task, Timed(k, call[t], age[t], H, t),
         call[t].entered, call[t].ticks # 0, IsOver(t), H[t] = "ready",
         Continues(t, OverAt(call[t], "unlockTx"))
  PROVE  Timed(k', call'[t], Aged(t, 0), H, t)
<1> DEFINE c1 == OverAt(call[t], "unlockTx")
<1>1. /\ call[t] \in AllCalls /\ "unlockTx" \in Steps /\ call'[t] = c1
  BY ContinuesFacts DEF Frames, Frame, Steps, Inside
<1>2. /\ c1.step = "unlockTx" /\ c1.op = call[t].op /\ c1.ticks = 0
      /\ c1.asked = call[t].asked /\ c1.entered = call[t].entered /\ c1.asked \in Moments
  BY <1>1, OverFields, CallFields DEF Moments
<1>3. age[t] >= c1.asked /\ c1.asked # 0 /\ c1.asked # MaxDelay
  BY <1>2, OverWaited
<1>4. age[t] \in 0 .. Ticks
  BY DEF Timed
<1> HIDE DEF c1
<1>5. Aged(t, 0) = age[t]
  BY <1>1, <1>2, <1>4, Numbers DEF Aged, Older
<1>6. c1.ticks <= c1.asked
  BY <1>2, Numbers DEF Moments
<1>7. H[t] \notin Asleep /\ c1.step \in Ending /\ c1.step \notin {"look", "place"}
  BY <1>2 DEF Asleep, Ending
<1>8. Timed(k', c1, age[t], H, t)
  BY <1>2, <1>3, <1>4, <1>6, <1>7 DEF Timed
<1>9. QED
  BY <1>1, <1>5, <1>8

\* or what has passed is deducted,
LEMMA LocksKept ==
  ASSUME NEW H, NEW t \in Task, Frames(H), Timing(k, call, age, H), Ages, ChannelInvariant,
         Locks(t)
  PROVE  KeepsTime
<1>1. Is(t, Waiters, "lock")
  BY DEF Locks
<1>2. /\ Acts(H, t) /\ Timed(k, call[t], age[t], H, t) /\ H[t] = "ready"
      /\ call[t].entered /\ call[t].ticks # 0 /\ call[t].step = "lock"
  BY <1>1, CallActs DEF After, Resting1
<1>3. Turns(H, t, 0, H) /\ k' = k
  BY LocksFrame
<1>4. CASE IsOver(t) /\ Continues(t, OverAt(call[t], "unlockTx"))
  <2>1. Timed(k', call'[t], Aged(t, 0), H, t)
    BY <1>2, <1>4, OverTimed DEF Acts
  <2>2. QED
    BY <1>2, <1>3, <2>1, TurnKept
<1>5. CASE ~IsOver(t) /\ Continues(t, StepTo(Deducted(t), "look"))
  <2>1. call'[t] = StepTo(Deducted(t), "look") /\ "look" \in Steps
    BY <1>2, <1>5, ContinuesFacts DEF Acts, Steps, Inside
  <2>2. H[t] \notin Asleep
    BY <1>2 DEF Asleep
  <2>3. Timed(k', call'[t], Aged(t, 0), H, t)
    BY <1>2, <1>3, <1>5, <2>1, <2>2, DeductedTime, RestTimed DEF Acts
  <2>4. QED
    BY <1>2, <1>3, <2>3, TurnKept
<1>6. QED
  BY <1>4, <1>5, LocksFrame

\* the scheduler is suspended,
LEMMA SuspendsKept ==
  ASSUME NEW H, NEW t \in Task, Frames(H), Timing(k, call, age, H), Ages, ChannelInvariant,
         Suspends(t) \/ Looks(t)
  PROVE  KeepsTime
<1>1. \/ Is(t, Waiters, "suspend") /\ Suspends(t)
      \/ Is(t, Waiters, "look") /\ Looks(t)
  BY DEF Suspends, Looks
<1>2. /\ Acts(H, t) /\ H[t] = "ready" /\ H[t] \notin Asleep
      /\ call[t].ticks # 0 /\ call[t].step \in {"suspend", "look"}
      /\ call[t].step = "suspend" => Suspends(t)
  BY <1>1, CallActs DEF After, Resting1, Asleep
<1>3. Turns(H, t, 0, H)
  BY <1>1, SuspendsFrame, LooksFrame
<1>4. PICK s \in {"lock", "place", "unlockTx"} :
        Continues(t, StepTo(call[t], s)) /\ (s = "place" => call[t].step = "look")
  BY <1>1, <1>2, SuspendsFrame, LooksFrame
<1>5. s \in Steps
  BY DEF Steps, Inside
<1>6. QED
  BY <1>2, <1>3, <1>4, <1>5, StepKept

\* the task sleeps for what is left of its time,
LEMMA PlacedTimed ==
  ASSUME NEW H, Frames(H), k.running, NEW t \in Task, Timed(k, call[t], age[t], H, t),
         call[t].entered, NEW d \in AllCalls, d.op = call[t].op, d.asked = call[t].asked, d.entered,
         d.ticks \in 1 .. MaxDelay, d.ticks <= d.asked, d.asked = MaxDelay <=> d.ticks = MaxDelay,
         d.asked # MaxDelay =>
              /\ d.time = k.tick
              /\ age[t] < Ticks => d.overflows = k.overflows /\ age[t] = d.asked - d.ticks,
         NEW s \in Steps, s \notin {"none"}, call'[t] = StepTo(d, s),
         NEW l \in Stopped, Placed(H, t, k', l, d.ticks)
  PROVE  Timed(k', call'[t], Aged(t, 0), Move(H, t, l), t)
<1>1. /\ k'.tick = k.tick /\ k'.overflows = k.overflows
      /\ l = "suspended" <=> d.ticks = MaxDelay
      /\ l \in Asleep => Rest(k', Move(H, t, l), t) = d.ticks
  BY DEF Placed
<1>2. Move(H, t, l)[t] = l
  <2>1. H \in [Task -> Places]
    BY DEF Frames, Frame, Good
  <2>2. QED
    BY <2>1 DEF Move
<1> DEFINE H1 == Move(H, t, l)
<1>3. H1[t] \in Asleep => d.ticks # MaxDelay /\ Rest(k', H1, t) = d.ticks
  BY <1>1, <1>2 DEF Asleep
<1> HIDE DEF H1
<1>4. Timed(k', call'[t], Aged(t, 0), H1, t)
  BY <1>1, <1>3, RestTimed
<1>5. QED
  BY <1>4 DEF H1

\* on the event list,
LEMMA PlacesKept ==
  ASSUME NEW H, NEW t \in Task, Frames(H), Timing(k, call, age, H), Ages, ChannelInvariant,
         Places1(t)
  PROVE  KeepsTime
<1>1. Is(t, Waiters, "place")
  BY DEF Places1
<1>2. /\ Acts(H, t) /\ Timed(k, call[t], age[t], H, t)
      /\ call[t].entered /\ call[t].ticks # 0 /\ call[t].step = "place"
  BY <1>1, CallActs DEF Resting1
<1>3. PICK l \in Stopped : /\ Turns(H, t, 0, Move(H, t, l)) /\ Placed(H, t, k', l, call[t].ticks)
                           /\ Continues(t, StepTo(call[t], "unlockTx"))
  BY PlacesFrame
<1>4. call'[t] = StepTo(call[t], "unlockTx") /\ "unlockTx" \in Steps
  BY <1>2, <1>3, ContinuesFacts DEF Acts, Steps, Inside
<1> DEFINE c == call[t]
<1>5. /\ c \in AllCalls /\ k.tick \in Moments /\ c.ticks \in Moments /\ c.asked \in Moments
      /\ age[t] \in 0 .. Ticks
  BY <1>2, GoodClock, CallFields DEF Frames, Frame, Moments, Timed
<1>6. /\ c.ticks <= c.asked /\ (c.asked = MaxDelay => c.ticks = MaxDelay)
      /\ c.ticks # MaxDelay => c.time = k.tick
      /\ c.asked # MaxDelay /\ age[t] < Ticks =>
            /\ age[t] = (c.asked - c.ticks) + Elapsed(c.time, k.tick, Ticks)
            /\ k.tick >= c.time => k.overflows = c.overflows
  BY <1>2 DEF Timed
<1> HIDE DEF c
<1>7. c.asked = MaxDelay <=> c.ticks = MaxDelay
  BY <1>5, <1>6, Numbers DEF Moments
<1>8. c.ticks \in 1 .. MaxDelay
  BY <1>2, <1>5, Numbers DEF c, Moments
<1>9. Elapsed(k.tick, k.tick, Ticks) = 0
  BY <1>5, NothingElapsed
<1>10. ASSUME c.asked # MaxDelay, age[t] < Ticks
       PROVE  c.overflows = k.overflows /\ age[t] = c.asked - c.ticks
  <2>1. c.time = k.tick
    BY <1>6, <1>7, <1>10
  <2>2. age[t] = (c.asked - c.ticks) + 0 /\ c.overflows = k.overflows
    <3>1. k.tick >= c.time
      BY <1>5, <2>1, Numbers DEF Moments
    <3>2. QED
      BY <1>6, <1>9, <1>10, <2>1, <3>1
  <2>3. QED
    BY <1>5, <2>2, Numbers DEF Moments
<1>11. c.asked # MaxDelay =>
         /\ c.time = k.tick
         /\ age[t] < Ticks => c.overflows = k.overflows /\ age[t] = c.asked - c.ticks
  BY <1>6, <1>7, <1>10
<1>12. Timed(k', call'[t], Aged(t, 0), Move(H, t, l), t)
  BY <1>2, <1>3, <1>4, <1>5, <1>6, <1>7, <1>8, <1>11, PlacedTimed DEF c, Acts
<1>13. QED
  BY <1>2, <1>3, <1>12, TurnKept

-----------------------------------------------------------------------------
\* wakes others,
LEMMA UnlocksKept ==
  ASSUME NEW H, NEW t \in Task, Frames(H), Timing(k, call, age, H), Ages, ChannelInvariant,
         UnlocksTx(t) \/ UnlocksRx(t)
  PROVE  KeepsTime
<1>1. \/ Is(t, Waiters, "unlockTx") /\ UnlocksTx(t)
      \/ Is(t, Waiters, "unlockRx") /\ UnlocksRx(t)
  BY DEF UnlocksTx, UnlocksRx
<1>2. Acts(H, t) /\ call[t].step \notin {"none", "try"}
  BY <1>1, CallActs
<1>3. PICK s \in {"unlockRx", "resume"} :
        /\ Turns(H, t, 0, H) /\ Onward(k, H, k', H, t, 0)
        /\ Continues(t, StepTo(call[t], s))
  BY <1>1, UnlocksTxFrame, UnlocksRxFrame
<1>4. s \in Steps /\ s \in Ending
  BY DEF Steps, Inside, Ending
<1>5. QED
  BY <1>2, <1>3, <1>4, StepKept

\* resumes the scheduler,
LEMMA ResumesKept ==
  ASSUME NEW H, NEW t \in Task, Frames(H), Timing(k, call, age, H), Ages, ChannelInvariant,
         Resumes(t)
  PROVE  KeepsTime
<1>1. Is(t, Waiters, "resume")
  BY DEF Resumes
<1>2. Acts(H, t) /\ call[t].step \notin {"none", "try"}
  BY <1>1, CallActs
<1>3. PICK H1 \in [Task -> Places] :
        /\ Turns(H, t, k.missed, H1) /\ Onward(k, H, k', H1, t, k.missed)
        /\ IF call[t].ticks = 0 THEN Ends(t)
           ELSE \E s \in {"yield", "try"} : Continues(t, StepTo(call[t], s))
  BY ResumesFrame
<1>4. CASE call[t].ticks = 0
  BY <1>2, <1>3, <1>4, EndsKept
<1>5. CASE call[t].ticks # 0
  <2>1. PICK s \in {"yield", "try"} : Continues(t, StepTo(call[t], s))
    BY <1>3, <1>5
  <2>2. s \in Steps
    BY DEF Steps, Inside
  <2>3. QED
    BY <1>2, <1>3, <1>5, <2>1, <2>2, StepKept
<1>6. QED
  BY <1>4, <1>5

\* yields,
LEMMA YieldsInCallKept ==
  ASSUME NEW H, NEW t \in Task, Frames(H), Timing(k, call, age, H), Ages, ChannelInvariant,
         YieldsInCall(t)
  PROVE  KeepsTime
<1>1. Is(t, Waiters, "yield")
  BY DEF YieldsInCall
<1>2. Acts(H, t) /\ call[t].step \notin {"none", "try"} /\ call[t].ticks # 0
  BY <1>1, CallActs DEF Resting1
<1>3. /\ Turns(H, t, 0, H) /\ Onward(k, H, k', H, t, 0)
      /\ Continues(t, StepTo(call[t], "try"))
  BY YieldsInCallFrame
<1>4. "try" \in Steps
  BY DEF Steps
<1>5. QED
  BY <1>2, <1>3, <1>4, StepKept

\* or does it all in one critical section;
LEMMA BlocksKept ==
  ASSUME NEW H, NEW t \in Task, Frames(H), Timing(k, call, age, H), Ages, ChannelInvariant,
         BlocksAlternative(t)
  PROVE  KeepsTime
<1>1. Is(t, Waiters, "block")
  BY DEF BlocksAlternative
<1>2. /\ Acts(H, t) /\ Timed(k, call[t], age[t], H, t) /\ H[t] = "ready"
      /\ call[t].entered /\ call[t].ticks # 0
  BY <1>1, CallActs DEF Resting1, After
<1>3. H[t] \notin Asleep /\ "try" \in Steps
  BY <1>2 DEF Asleep, Steps
<1>4. CASE Turns(H, t, 0, H) /\ Ends(t)
  BY <1>2, <1>4, EndsKept
<1>5. ASSUME ~IsOver(t), Continues(t, StepTo(Deducted(t), "try"))
      PROVE  /\ call'[t] = StepTo(Deducted(t), "try")
             /\ k'.tick = k.tick /\ k'.overflows = k.overflows /\ Turns(H, t, 0, H) =>
                  Timed(k', call'[t], Aged(t, 0), H, t)
             /\ \A l \in Stopped : Placed(H, t, k', l, Deducted(t).ticks) =>
                  Timed(k', call'[t], Aged(t, 0), Move(H, t, l), t)
  <2>1. call'[t] = StepTo(Deducted(t), "try")
    BY <1>2, <1>5, ContinuesFacts DEF Acts
  <2> DEFINE d == Deducted(t)
  <2>2. /\ d \in AllCalls /\ d.op = call[t].op /\ d.asked = call[t].asked /\ d.entered
        /\ d.ticks \in 1 .. MaxDelay /\ d.ticks <= d.asked
        /\ d.asked = MaxDelay <=> d.ticks = MaxDelay
        /\ d.asked # MaxDelay =>
              /\ d.time = k.tick
              /\ age[t] < Ticks => d.overflows = k.overflows /\ age[t] = d.asked - d.ticks
    BY <1>2, <1>5, DeductedTime DEF Acts
  <2> HIDE DEF d
  <2>3. Frames(H) /\ k.running /\ "try" \in Steps /\ "try" \notin {"none"} /\ call'[t] = StepTo(d, "try")
    BY <1>2, <1>3, <2>1 DEF d, Acts
  <2>4. ASSUME k'.tick = k.tick, k'.overflows = k.overflows
        PROVE  Timed(k', call'[t], Aged(t, 0), H, t)
    BY <1>2, <1>3, <2>2, <2>3, <2>4, RestTimed
  <2>5. ASSUME NEW l \in Stopped, Placed(H, t, k', l, d.ticks)
        PROVE  Timed(k', call'[t], Aged(t, 0), Move(H, t, l), t)
    BY <1>2, <2>2, <2>3, <2>5, PlacedTimed
  <2>6. QED
    BY <2>1, <2>4, <2>5 DEF d
<1>6. CASE ~IsOver(t) /\ k' = k /\ Turns(H, t, 0, H) /\ Continues(t, StepTo(Deducted(t), "try"))
  <2>1. Timed(k', call'[t], Aged(t, 0), H, t)
    BY <1>5, <1>6
  <2>2. QED
    BY <1>2, <1>6, <2>1, TurnKept
<1>7. ASSUME ~IsOver(t), Continues(t, StepTo(Deducted(t), "try")), NEW l \in Stopped,
             Turns(H, t, 0, Move(H, t, l)), Placed(H, t, k', l, Deducted(t).ticks)
      PROVE  KeepsTime
  <2>1. Timed(k', call'[t], Aged(t, 0), Move(H, t, l), t)
    BY <1>5, <1>7
  <2>2. QED
    BY <1>2, <1>7, <2>1, TurnKept
<1>8. QED
  BY <1>4, <1>6, <1>7, BlocksFrame

-----------------------------------------------------------------------------
\* before the scheduler starts nobody waits;
LEMMA UncalledTimes ==
  ASSUME Ages, \A u \in Task : call'[u] = NoCall, NEW H1
  PROVE  Timing(k', call', age', H1)
<1>1. ASSUME NEW u \in Task
      PROVE  Timed(k', call'[u], age'[u], H1, u)
  <2>1. ~call'[u].entered
    BY NoCallTypes
  <2>2. age'[u] = 0
    BY <2>1 DEF Ages
  <2>3. Timed(k', call'[u], Aged(u, 0), H1, u)
    BY NoCallTimed
  <2>4. Aged(u, 0) = 0
    BY <2>1 DEF Aged, Older
  <2>5. QED
    BY <2>2, <2>3, <2>4
<1>2. QED
  BY <1>1 DEF Timing

\* Before the scheduler starts, main creates a task, or starts it with the idle task.
LEMMA MainActs ==
  ASSUME NEW H, Frames(H), program \in Programs,
         (\E t \in Task : MainCreates(t, program.priority[t])) \/ vTaskStartScheduler
  PROVE  /\ ~k.running /\ \A u \in Task : call[u] = NoCall
         /\ \E t \in Task, p \in Prio :
              /\ H[t] = "none" /\ at' = [at EXCEPT ![t] = "task"]
              /\ \/ k' = CreateBeforeStart(k, t, p) /\ t # Idle
                 \/ k' = Started(k) /\ t = Idle /\ p = 0
<1>1. ~k.running
  BY DEF MainCreates, vTaskStartScheduler
<1>2. \A u \in Task : call[u] = NoCall /\ (at[u] = "nowhere" <=> H[u] = "none")
  BY <1>1, QuietBefore
<1>3. H[Idle] = "none" /\ Idle \in Task /\ 0 \in Prio
  BY <1>1, QuietBefore, Numbers
<1>4. CASE vTaskStartScheduler
  BY <1>1, <1>2, <1>3, <1>4 DEF vTaskStartScheduler, KernelBecomes, GoesTo
<1>5. ASSUME NEW t \in Task, MainCreates(t, program.priority[t])
      PROVE  /\ H[t] = "none" /\ at' = [at EXCEPT ![t] = "task"]
             /\ k' = CreateBeforeStart(k, t, program.priority[t]) /\ t # Idle
             /\ program.priority[t] \in Prio
  BY <1>2, <1>5, QueuesAssumption DEF MainCreates, KernelBecomes, GoesTo, Exists
<1>6. QED
  BY <1>1, <1>2, <1>4, <1>5

\* main creates tasks;
LEMMA MainKept ==
  ASSUME NEW H, Frames(H), Timing(k, call, age, H), Ages, program \in Programs,
         (\E t \in Task : MainCreates(t, program.priority[t])) \/ vTaskStartScheduler,
         q' = q, call' = call
  PROVE  KeepsTime
<1>1. \E H1 \in [Task -> Places] : Frame(k', at', call', q', H1)
  BY MainActs, MainFrame
<1>2. \A u \in Task : call'[u] = NoCall
  BY MainActs
<1>3. QED
  BY <1>1, <1>2, UncalledTimes DEF KeepsTime

\* the kernel counts ticks and switches;
LEMMA TasksKept ==
  ASSUME NEW H, Frames(H), Timing(k, call, age, H), Ages, program \in Programs, TaskStep
  PROVE  KeepsTime
<1>1. q' = q /\ call' = call
  BY DEF TaskStep
<1>2. CASE (\E t \in Task : MainCreates(t, program.priority[t])) \/ vTaskStartScheduler
  BY <1>1, <1>2, MainKept
<1>3. CASE vTick
  <2>1. PICK H1 \in [Task -> Places], n \in Nat : Interrupts(H, n, H1)
    BY <1>1, <1>3, TickFrame
  <2>2. Timing(k', call', age', H1)
    BY <2>1, InterruptTimed
  <2>3. QED
    BY <2>1, <2>2 DEF Interrupts, KeepsTime
<1>4. ASSUME NEW t \in Task, vTaskDelay(t, 1)
      PROVE  KeepsTime
  <2>1. Runs(t, "task")
    BY <1>4 DEF vTaskDelay, Calls
  <2>2. Acts(H, t) /\ at[t] # "call"
    BY <2>1 DEF Acts, Runs
  <2>3. PICK l \in Asleep : Turns(H, t, 0, Move(H, t, l))
    BY <1>1, <1>4, DelayFrame
  <2>4. QED
    BY <1>1, <2>2, <2>3, FreeKept
<1>5. ASSUME NEW t \in Task, EndsDelay(t)
      PROVE  KeepsTime
  <2>1. Acts(H, t) /\ at[t] # "call"
    BY <1>5 DEF EndsDelay, Acts, Runs
  <2>2. PICK H1 \in [Task -> Places] : Turns(H, t, k.missed, H1)
    BY <1>1, <1>5, EndsDelayFrame
  <2>3. QED
    BY <1>1, <2>1, <2>2, FreeKept
<1>6. ASSUME NEW t \in Task, Yields(t)
      PROVE  KeepsTime
  <2>1. Acts(H, t) /\ at[t] # "call"
    BY <1>6 DEF Yields, Acts, Runs
  <2>2. Turns(H, t, 0, H)
    BY <1>1, <1>6, YieldsFrame
  <2>3. QED
    BY <1>1, <2>1, <2>2, FreeKept
<1>7. QED
  BY <1>2, <1>3, <1>4, <1>5, <1>6 DEF TaskStep

\* interrupts send and receive.
LEMMA InterruptsKept ==
  ASSUME NEW H, Frames(H), Timing(k, call, age, H), Ages, ChannelInvariant, InterruptStep
  PROVE  KeepsTime
<1>1. PICK H1 \in [Task -> Places] : Interrupts(H, 0, H1)
  BY SendFromISRFrame, ReceiveFromISRFrame DEF InterruptStep
<1>2. Timing(k', call', age', H1)
  BY <1>1, InterruptTimed
<1>3. QED
  BY <1>1, <1>2 DEF Interrupts, KeepsTime

\* All of them, in whatever order.
LEMMA EveryStepKept ==
  ASSUME NEW H, Frames(H), Timing(k, call, age, H), ChannelInvariant, program \in Programs,
         QueuesNext
  PROVE  KeepsTime
<1>1. Ages /\ program' = program
  BY DEF QueuesNext
<1>2. CASE TaskStep
  BY <1>1, <1>2, TasksKept
<1>3. CASE InterruptStep
  BY <1>1, <1>3, InterruptsKept
<1>4. ASSUME NEW t \in Task, QueueStep(t)
      PROVE  KeepsTime
  <2>1. CASE \/ CallsSend(t) \/ CallsGive(t) \/ CallsReceive(t) \/ CallsPeek(t)
             \/ TakesRecursive(t) \/ GivesRecursive(t)
    BY <1>1, <2>1, CallsKept
  <2>2. CASE TrySend(t) \/ TryReceive(t) \/ TryPeek(t)
    BY <1>1, <2>2, TriesKept
  <2>3. CASE Suspends(t) \/ Looks(t)
    BY <1>1, <2>3, SuspendsKept
  <2>4. CASE Locks(t)
    BY <1>1, <2>4, LocksKept
  <2>5. CASE Places1(t)
    BY <1>1, <2>5, PlacesKept
  <2>6. CASE UnlocksTx(t) \/ UnlocksRx(t)
    BY <1>1, <2>6, UnlocksKept
  <2>7. CASE Resumes(t)
    BY <1>1, <2>7, ResumesKept
  <2>8. CASE YieldsInCall(t)
    BY <1>1, <2>8, YieldsInCallKept
  <2>9. CASE BlocksAlternative(t)
    BY <1>1, <2>9, BlocksKept
  <2>10. QED
    BY <1>4, <2>1, <2>2, <2>3, <2>4, <2>5, <2>6, <2>7, <2>8, <2>9 DEF QueueStep, CallStep
<1>5. QED
  BY <1>2, <1>3, <1>4 DEF QueuesNext

-----------------------------------------------------------------------------
\* Initially there are no tasks and no calls.
LEMMA FrameBegins ==
  ASSUME QueuesInit
  PROVE  LET H == [t \in Task |-> "none"] IN Frames(H) /\ Timing(k, call, age, H)
<1> DEFINE H == [t \in Task |-> "none"]
<1>1. Init /\ q = NewQueue(program.kind, IF program.kind \in Mutexes THEN 1 ELSE 0)
  BY DEF QueuesInit
<1>2. Good(k, H) /\ Times(k, H)
  BY <1>1, Beginning DEF Sound, Base
<1>3. /\ k.running = FALSE /\ k.tick = 0 /\ k.locks = 0 /\ k.missed = 0 /\ k.pending = <<>>
      /\ k.item = k.prio /\ k.current = None
      /\ \A e \in EventList : k.waiting[e] = <<>>
  BY <1>1 DEF Init, Kernel0
<1>4. \A t \in Task : H[t] = "none" /\ at[t] = "nowhere" /\ call[t] = NoCall /\ age[t] = 0
  BY DEF QueuesInit, Init
<1>5. at \in [Task -> Spots] /\ call \in [Task -> AllCalls]
  <2>1. at = [t \in Task |-> "nowhere"] /\ call = [t \in Task |-> NoCall]
    BY DEF QueuesInit, Init
  <2>2. QED
    BY <2>1, NoCallTypes DEF Spots
<1>6. 0 <= MaxMissed
  BY MissedNumbers
<1>7. \A t : ~Contains(<<>>, t)
  BY EmptyList
<1>8. /\ NoCall.op = "none" /\ NoCall.step = "none" /\ NoCall.ticks = 0 /\ ~NoCall.entered
      /\ NoCall.asked = 0
  BY NoCallTypes
<1>9. H[Idle] = "none"
  BY KernelAssumption
<1> HIDE DEF H
<1>10. Working(k, at, call, H)
  BY <1>3, <1>4, <1>6, <1>9 DEF Working
<1>11. ASSUME NEW u \in Task
       PROVE  Standing(k, at, call, H, u)
  <2>1. ~Holding(at, call, u)
    BY <1>4 DEF Holding, InCall
  <2>2. ~Waits(k, u) /\ ~Contains(k.pending, u)
    BY <1>3, <1>7 DEF Waits
  <2>3. /\ at[u] = "nowhere" /\ H[u] = "none" /\ call[u] = NoCall /\ k.locks # 1
        /\ NoCall.step \notin Resting1
    BY <1>3, <1>4, <1>8 DEF Resting1
  <2>4. QED
    BY <1>8, <2>1, <2>2, <2>3 DEF Standing, Waits
<1>12. Owned(call, q)
  <2>1. /\ q.kind \in Mutexes => q.length = 1 /\ q.count = 1
        /\ q.holder = None /\ q.rxLock = -1 /\ q.txLock = -1
    BY <1>1 DEF NewQueue, Unlocked
  <2>2. QED
    BY <1>4, <1>8, <2>1 DEF Owned
<1>13. Latched(at, call, q)
  <2>1. q.rxLock = -1 /\ q.txLock = -1
    BY <1>1 DEF NewQueue, Unlocked
  <2>2. QED
    BY <1>4, <2>1 DEF Latched, InCall, Unlocked
<1>14. Timing(k, call, age, H)
  <2>1. 0 \in 0 .. Ticks /\ 0 # MaxDelay /\ 0 <= 0
    BY Numbers
  <2>2. QED
    BY <1>4, <1>8, <2>1 DEF Timing, Timed
<1>15. QED
  BY <1>2, <1>5, <1>10, <1>11, <1>12, <1>13, <1>14 DEF Frames, Frame, H

\* The queue, its tasks and the times of their calls.
TimedInvariant ==
  /\ ChannelInvariant /\ program \in Programs
  /\ \E H \in [Task -> Places] : Frames(H) /\ Timing(k, call, age, H)

\* It holds when the program begins,
LEMMA TimedBegins == QueuesInit => TimedInvariant
<1> SUFFICES ASSUME QueuesInit PROVE TimedInvariant
  OBVIOUS
<1> DEFINE H == [t \in Task |-> "none"]
<1>1. Frames(H) /\ Timing(k, call, age, H)
  BY FrameBegins
<1>2. H \in [Task -> Places]
  BY DEF Places
<1> HIDE DEF H
<1>3. ChannelInvariant /\ program \in Programs
  BY QueueBegins DEF QueuesInit
<1>4. QED
  BY <1>1, <1>2, <1>3 DEF TimedInvariant

\* and after every step.
LEMMA TimedStep == TimedInvariant /\ [QueuesNext]_qvars => TimedInvariant'
<1>1. ASSUME TimedInvariant, QueuesNext
      PROVE  TimedInvariant'
  <2>1. PICK H \in [Task -> Places] : Frames(H) /\ Timing(k, call, age, H)
    BY <1>1 DEF TimedInvariant
  <2>2. ChannelInvariant /\ program \in Programs /\ program' = program
    BY <1>1 DEF TimedInvariant, QueuesNext
  <2>3. KeepsTime
    BY <1>1, <2>1, <2>2, EveryStepKept
  <2>4. ChannelInvariant'
    BY <1>1, <2>2, EveryStepFollows, FollowsKeeps
  <2>5. QED
    BY <2>2, <2>3, <2>4 DEF KeepsTime, TimedInvariant, Frames
<1>2. ASSUME TimedInvariant, UNCHANGED qvars
      PROVE  TimedInvariant'
  BY <1>2 DEF TimedInvariant, qvars, vars, ChannelInvariant, QueueTypes, CallTypes, Ring, Frames
<1>3. QED
  BY <1>1, <1>2

-----------------------------------------------------------------------------
\* It says how long each call will have waited,
LEMMA RestWaited == TimedInvariant => WaitsForTheRest
<1> SUFFICES ASSUME TimedInvariant, NEW t \in Task, Sleeps(t), at[t] = "call", age[t] < Ticks
             PROVE  age[t] + Left(t) + k.missed = call[t].asked
  BY DEF WaitsForTheRest
<1>1. PICK H \in [Task -> Places] : Frames(H) /\ Timing(k, call, age, H)
  BY DEF TimedInvariant
<1>2. /\ Good(k, H) /\ Times(k, H) /\ Timed(k, call[t], age[t], H, t)
      /\ Standing(k, at, call, H, t)
  BY <1>1 DEF Frames, Frame, Timing
<1>3. H[t] \in Asleep /\ call[t].op # "none"
  BY <1>2 DEF Standing, Sleeps, Good, HasPlace, Asleep
<1>4. age[t] + Rest(k, H, t) = call[t].asked /\ age[t] \in 0 .. Ticks
  BY <1>2, <1>3 DEF Timed
<1>5. /\ k.wake[t] \in 0 .. MaxDelay /\ k.tick \in 0 .. MaxDelay /\ k.missed \in Nat
      /\ MaxDelay \in Nat /\ Ticks = MaxDelay + 1
      /\ H[t] = "delayed" => k.wake[t] > k.tick
      /\ H[t] = "overflow" => k.wake[t] < k.tick
  BY <1>2, KernelNumbers, Numbers DEF Good, Times
<1>6. Wrapped(k.wake[t] - k.tick, Ticks) = Rest(k, H, t)
  <2>1. Wrapped(k.wake[t] - k.tick, Ticks)
          = IF k.wake[t] - k.tick < 0 THEN (k.wake[t] - k.tick) + Ticks
            ELSE IF k.wake[t] - k.tick < Ticks THEN k.wake[t] - k.tick
            ELSE (k.wake[t] - k.tick) - Ticks
    <3>1. /\ k.wake[t] - k.tick \in Int /\ -Ticks <= k.wake[t] - k.tick
          /\ k.wake[t] - k.tick < 2 * Ticks /\ Ticks \in Nat \ {0}
      BY <1>5
    <3>2. QED
      BY <3>1, OneTurn
  <2>2. QED
    BY <1>3, <1>5, <2>1 DEF Rest, Asleep
<1>7. Left(t) = Rest(k, H, t) - k.missed
  BY <1>6 DEF Left, Wrapped
<1>8. Rest(k, H, t) \in Int
  BY <1>2, RestFacts
<1>9. QED
  BY <1>4, <1>5, <1>7, <1>8

-----------------------------------------------------------------------------
\* u is told why its call fails.
ToldWhy(u, why) == answer' = [to |-> u, says |-> why]

\* and of who is told that the queue is full or empty,
LEMMA WhyFacts ==
  ASSUME NEW u \in Task, NEW why \in {"full", "empty"}, ToldWhy(u, why)
  PROVE  /\ answer' # None
         /\ \A v, x : answer' = [to |-> v, says |-> x] => v = u /\ x = why
<1>1. None # [to |-> u, says |-> why]
  BY QueuesAssumption
<1>2. ASSUME NEW v, NEW x, answer' = [to |-> v, says |-> x]
      PROVE  v = u /\ x = why
  <2>1. /\ [to |-> v, says |-> x].to = v /\ [to |-> u, says |-> why].to = u
        /\ [to |-> v, says |-> x].says = x /\ [to |-> u, says |-> why].says = why
    OBVIOUS
  <2>2. [to |-> v, says |-> x] = [to |-> u, says |-> why]
    BY <1>2 DEF ToldWhy
  <2>3. QED
    BY <2>1, <2>2
<1>3. QED
  BY <1>1, <1>2 DEF ToldWhy

\* A task that is given an item is not told that its call fails.
LEMMA ItemIsNoReason ==
  ASSUME ChannelInvariant, q.count > 0
  PROVE  FirstItem \notin {"sent", "full", "empty"}
<1>1. QueueTypes /\ None \in Task \cup {None}
  BY DEF ChannelInvariant
<1>2. Held(q) # <<>> /\ FirstItem = Head(Held(q))
  BY <1>1, RemovedHeld
<1>3. Held(q) \in Seq(Item \cup {None})
  BY <1>1, HeldFacts DEF QueueTypes
<1>4. FirstItem \in Item \cup {None}
  BY <1>2, <1>3
<1>5. QED
  BY <1>4, QueuesAssumption

\* t's call has waited long enough.
LongEnough(t) == age[t] >= call[t].asked /\ call[t].asked # MaxDelay

\* it says that it would not wait,
LEMMA FailsLate ==
  ASSUME NEW H, NEW t \in Task, Frames(H), Timing(k, call, age, H),
         NEW op, Is(t, op, "try"), NEW why, TryFails(t, why),
         q.kind \in Mutexes => call[t].op # "send",
         NEW u \in Task, NEW w \in {"full", "empty"}, ToldWhy(u, w)
  PROVE  u = t /\ call[t].asked = 0
<1>1. call[t].ticks = 0 /\ answer' = [to |-> t, says |-> why]
  BY TryFailsFrame, WhyFacts
<1>2. Timed(k, call[t], age[t], H, t) /\ call[t].step = "try"
  BY InTheCall DEF Timing
<1>3. ~call[t].entered
  BY <1>1, <1>2 DEF Timed, Ending
<1>4. call[t].asked = 0
  BY <1>1, <1>2, <1>3 DEF Timed
<1>5. QED
  BY <1>1, <1>4, WhyFacts

\* as an attempt,
LEMMA TriesLate ==
  ASSUME NEW H, NEW t \in Task, Frames(H), Timing(k, call, age, H), ChannelInvariant,
         TrySend(t) \/ TryReceive(t) \/ TryPeek(t),
         NEW u \in Task, NEW w \in {"full", "empty"}, ToldWhy(u, w)
  PROVE  u = t /\ call[t].asked = 0
<1>1. CASE TrySend(t)
  <2>1. ~(q.count < q.length)
    <3>1. answer' # [to |-> t, says |-> "sent"]
      BY WhyFacts
    <3>2. QED
      BY <1>1, <3>1, TrySendFrame
  <2>2. QED
    BY <1>1, <2>1, TrySendFails, FailsLate
<1>2. CASE TryReceive(t)
  <2>1. ~(q.count > 0)
    BY <1>2, TryReceiveFrame, WhyFacts, ItemIsNoReason
  <2>2. Is(t, {"receive"}, "try") /\ TryFails(t, "empty") /\ call[t].op # "send"
    BY <1>2, <2>1 DEF TryReceive, Is
  <2>3. QED
    BY <2>2, FailsLate
<1>3. CASE TryPeek(t)
  <2>1. ~(q.count > 0)
    BY <1>3, TryPeekFrame, WhyFacts, ItemIsNoReason
  <2>2. Is(t, {"peek"}, "try") /\ TryFails(t, "empty") /\ call[t].op # "send"
    BY <1>3, <2>1 DEF TryPeek, Is
  <2>3. QED
    BY <2>2, FailsLate
<1>4. QED
  BY <1>1, <1>2, <1>3

\* or that it has waited long enough.
LEMMA StepsLate ==
  ASSUME NEW H, NEW t \in Task, Frames(H), Timing(k, call, age, H), ChannelInvariant,
         \/ Suspends(t) \/ Locks(t) \/ Looks(t) \/ Places1(t) \/ UnlocksTx(t) \/ UnlocksRx(t)
         \/ Resumes(t) \/ YieldsInCall(t) \/ BlocksAlternative(t),
         NEW u \in Task, NEW w \in {"full", "empty"}, ToldWhy(u, w)
  PROVE  u = t /\ LongEnough(t)
<1>1. \A s : ~Goes(t, s)
  BY WhyFacts DEF Goes, TellsNobody
<1>2. CASE Suspends(t) \/ Looks(t) \/ Places1(t) \/ UnlocksTx(t) \/ UnlocksRx(t) \/ YieldsInCall(t)
  BY <1>1, <1>2 DEF Suspends, Looks, Places1, UnlocksTx, UnlocksRx, YieldsInCall
<1>3. CASE Locks(t)
  BY <1>3, WhyFacts DEF Locks, TellsNobody
<1>4. CASE Resumes(t)
  <2>1. Is(t, Waiters, "resume")
    BY <1>4 DEF Resumes
  <2>2. Timed(k, call[t], age[t], H, t) /\ call[t].step = "resume"
    BY <2>1, InTheCall DEF Timing
  <2>3. call[t].ticks = 0 /\ \E x : answer' = [to |-> t, says |-> x]
    BY <1>4, ResumesFrame, WhyFacts
  <2>4. LongEnough(t)
    BY <2>2, <2>3 DEF Timed, LongEnough
  <2>5. QED
    BY <2>3, <2>4, WhyFacts
<1>5. CASE BlocksAlternative(t)
  <2>1. Is(t, Waiters, "block")
    BY <1>5 DEF BlocksAlternative
  <2>2. Timed(k, call[t], age[t], H, t) /\ call[t].step = "block" /\ call[t].ticks # 0
    BY <2>1, InTheCall DEF Timing, Resting1
  <2>3. IsOver(t) /\ \E x : answer' = [to |-> t, says |-> x]
    BY <1>5, BlocksFrame, WhyFacts
  <2>4. LongEnough(t)
    BY <2>2, <2>3, OverWaited DEF Timed, LongEnough
  <2>5. QED
    BY <2>3, <2>4, WhyFacts
<1>6. QED
  BY <1>2, <1>3, <1>4, <1>5

\* Who begins a call is told nothing.
LEMMA CallsTellNobody ==
  ASSUME NEW t \in Task,
         \/ CallsSend(t) \/ CallsGive(t) \/ CallsReceive(t) \/ CallsPeek(t)
         \/ TakesRecursive(t) \/ GivesRecursive(t)
  PROVE  answer' = None
BY DEF CallsSend, CallsGive, CallsReceive, CallsPeek, TakesRecursive, GivesRecursive, Begins,
       TellsNobody

\* Nobody gives up before its time,
LEMMA GivesUpLate ==
  ASSUME TimedInvariant, QueuesNext, NEW u \in Task, NEW why \in {"full", "empty"},
         ToldWhy(u, why), call[u].asked > 0
  PROVE  LongEnough(u)
<1>1. PICK H \in [Task -> Places] : Frames(H) /\ Timing(k, call, age, H)
  BY DEF TimedInvariant
<1>2. ChannelInvariant /\ answer' # None
  BY WhyFacts DEF TimedInvariant
<1>3. ~TaskStep
  BY <1>2 DEF TaskStep, TellsNobody
<1>4. ~InterruptStep
  <2>1. Interrupt # u
    BY QueuesAssumption
  <2>2. QED
    BY <2>1, WhyFacts DEF InterruptStep, xQueueReceiveFromISR, xQueueSendFromISR, Tells
<1>5. PICK t \in Task : QueueStep(t)
  BY <1>3, <1>4 DEF QueuesNext
<1>6. CallStep(t)
  BY <1>2, <1>5, CallsTellNobody DEF QueueStep
<1>7. CASE TrySend(t) \/ TryReceive(t) \/ TryPeek(t)
  <2>1. u = t /\ call[t].asked = 0
    BY <1>1, <1>2, <1>7, TriesLate
  <2>2. QED
    BY <2>1
<1>8. CASE ~(TrySend(t) \/ TryReceive(t) \/ TryPeek(t))
  BY <1>1, <1>2, <1>6, <1>8, StepsLate DEF CallStep
<1>9. QED
  BY <1>7, <1>8

\* whatever the step.
LEMMA GiveUpStep ==
  TimedInvariant /\ [QueuesNext]_qvars =>
    [\A t \in Task : \A why \in {"full", "empty"} :
       answer' = [to |-> t, says |-> why] /\ call[t].asked > 0 =>
         /\ age[t] >= call[t].asked
         /\ call[t].asked # MaxDelay]_qvars
BY GivesUpLate DEF ToldWhy, LongEnough

\* Kernel, calls, queue and times agree, whatever tasks and interrupts do.
THEOREM QueueTimes == QueuesSpec => []TimedInvariant
BY TimedBegins, TimedStep, PTL DEF QueuesSpec

\* A task that is woken by the counter has waited for as long as it asked, in however
\* many turns (WaitsForTheRest).
THEOREM AlwaysWaitsForTheRest == QueuesSpec => []WaitsForTheRest
BY QueueTimes, RestWaited, PTL

\* No call is told that the queue is full or empty before it has waited for as long as
\* it asked, and none that waits for ever (NeverGivesUpEarly).
THEOREM NoneGivesUpEarly == QueuesSpec => NeverGivesUpEarly
<1>1. QueuesSpec => []TimedInvariant /\ [][QueuesNext]_qvars
  BY QueueTimes, PTL DEF QueuesSpec
<1>2. QED
  BY <1>1, GiveUpStep, PTL DEF NeverGivesUpEarly

-----------------------------------------------------------------------------
(* What is there is met                                                      *)

\* The tasks that will yet look at the queue: those of a call that uses the list e
\* which try, or will when they are through with what they do, and do not wait.
Trying(m, c, e) ==
  {u \in Task : /\ c[u].op # "none" /\ ListOf(c[u].op) = e /\ c[u].step \in After
                /\ c[u].step \in Inside => c[u].ticks # 0
                /\ ~Contains(m.waiting[e], u)}

\* A task is about to wait on e.
AtPlace(c, e) == \E u \in Task : c[u].step = "place" /\ ListOf(c[u].op) = e

\* Somebody waits on e, or is about to.
Needed(m, c, e) == m.waiting[e] # <<>> \/ AtPlace(c, e)

\* What those that wait on e wait for, and how many of these interrupts have left
\* for the task that has locked the queue.
Supply(r, e) == IF e = "receive" THEN r.count ELSE r.length - r.count
\* What interrupts have left to the task that has locked the queue.
Saved(r, e)  == IF e = "receive" THEN MaxOf(r.txLock, 0) ELSE MaxOf(r.rxLock, 0)

\* While tasks wait on e, all that they wait for is meant for others.
Met(m, c, r, e) ==
  Needed(m, c, e) => Supply(r, e) <= Cardinality(Trying(m, c, e)) + Saved(r, e)

\* Who tries can be counted.
LEMMA TryingFacts ==
  ASSUME NEW m, NEW c, NEW e
  PROVE  /\ IsFiniteSet(Trying(m, c, e)) /\ Cardinality(Trying(m, c, e)) \in Nat
         /\ Trying(m, c, e) \subseteq Task
<1>1. Trying(m, c, e) \in SUBSET Task /\ IsFiniteSet(Task)
  BY TwoLists DEF Trying
<1>2. IsFiniteSet(Trying(m, c, e))
  BY <1>1, FS_Subset
<1>3. QED
  BY <1>1, <1>2, FS_CardinalityType

\* A set that loses one element at most, and gets others.
LEMMA LosesOne ==
  ASSUME NEW A, NEW B, NEW W, NEW t, NEW d \in {0, 1}, IsFiniteSet(A), IsFiniteSet(B),
         A \ {t} \subseteq B, W \subseteq B, A \cap W = {}, d = 0 => t \notin A \/ t \in B
  PROVE  Cardinality(B) + d >= Cardinality(A) + Cardinality(W)
<1>1. IsFiniteSet(W)
  BY FS_Subset
<1> DEFINE A1 == IF d = 0 THEN A ELSE A \ {t}
<1>2. IsFiniteSet(A1) /\ Cardinality(A1) \in Nat /\ Cardinality(A1) + d >= Cardinality(A)
  <2>1. Cardinality(A) \in Nat
    BY FS_CardinalityType
  <2>2. /\ IsFiniteSet(A \ {t})
        /\ Cardinality(A \ {t}) = IF t \in A THEN Cardinality(A) - 1 ELSE Cardinality(A)
    BY FS_RemoveElement
  <2>3. Cardinality(A \ {t}) \in Nat
    BY <2>2, FS_CardinalityType
  <2>4. QED
    BY <2>1, <2>2, <2>3
<1>3. A1 \cup W \in SUBSET B /\ A1 \cap W = {}
  OBVIOUS
<1> HIDE DEF A1
<1>4. Cardinality(A1 \cup W) <= Cardinality(B)
  BY <1>3, FS_Subset
<1>5. Cardinality(A1 \cup W) = Cardinality(A1) + Cardinality(W) - Cardinality(A1 \cap W)
  BY <1>1, <1>2, FS_Union
<1>6. Cardinality(A1 \cap W) = 0
  BY <1>3, FS_EmptySet
<1>7. /\ Cardinality(W) \in Nat /\ Cardinality(B) \in Nat /\ Cardinality(A) \in Nat
      /\ Cardinality(A1 \cup W) \in Nat
  BY <1>1, <1>2, FS_CardinalityType, FS_Union
<1>8. QED
  BY <1>2, <1>4, <1>5, <1>6, <1>7

\* So can what is there,
LEMMA SupplyNumbers ==
  ASSUME NEW r \in Queues, r.count <= r.length, NEW e
  PROVE  /\ Supply(r, e) \in Nat /\ Saved(r, e) \in Nat
         /\ r.count \in Nat /\ r.length \in Nat /\ r.txLock \in Int /\ r.rxLock \in Int
<1>1. r.count \in Nat /\ r.length \in Nat /\ r.txLock \in Int /\ r.rxLock \in Int
  BY QueuesAssumption DEF Queues
<1>2. QED
  BY <1>1 DEF Supply, Saved, MaxOf

\* before and after a step.
LEMMA SupplyFacts ==
  ASSUME NEW e
  PROVE  /\ ChannelInvariant =>
              /\ Supply(q, e) \in Nat /\ Saved(q, e) \in Nat
              /\ q.count \in Nat /\ q.length \in Nat /\ q.txLock \in Int /\ q.rxLock \in Int
              /\ q.count <= q.length
         /\ ChannelInvariant' =>
              /\ Supply(q', e) \in Nat /\ Saved(q', e) \in Nat
              /\ q'.count \in Nat /\ q'.length \in Nat /\ q'.txLock \in Int /\ q'.rxLock \in Int
              /\ q'.count <= q'.length
<1>1. ChannelInvariant => q \in Queues /\ q.count <= q.length
  BY DEF ChannelInvariant, QueueTypes
<1>2. ChannelInvariant' => q' \in Queues /\ q'.count <= q'.length
  BY DEF ChannelInvariant, QueueTypes
<1>3. QED
  BY <1>1, <1>2, SupplyNumbers

\* Nothing is left for those that wait.
LEMMA NothingLeft ==
  ASSUME NEW m, NEW c, NEW r, NEW e, Supply(r, e) = 0, Saved(r, e) \in Nat
  PROVE  Met(m, c, r, e)
<1>1. Cardinality(Trying(m, c, e)) \in Nat
  BY TryingFacts
<1>2. QED
  BY <1>1 DEF Met

\* One task at most stops trying, those in W begin to.
LEMMA MetOn ==
  ASSUME NEW e, Met(k, call, q, e), Needed(k', call', e) => Needed(k, call, e),
         NEW t, NEW d \in {0, 1}, NEW W, W \subseteq Trying(k', call', e),
         Trying(k, call, e) \ {t} \subseteq Trying(k', call', e),
         Trying(k, call, e) \cap W = {},
         d = 0 => t \notin Trying(k, call, e) \/ t \in Trying(k', call', e),
         Supply(q, e) \in Int, Saved(q, e) \in Int, Supply(q', e) \in Int, Saved(q', e) \in Int,
         (Supply(q', e) - Saved(q', e)) + d <= (Supply(q, e) - Saved(q, e)) + Cardinality(W)
  PROVE  Met(k', call', q', e)
<1> DEFINE a == Cardinality(Trying(k, call, e))
           b == Cardinality(Trying(k', call', e))
<1>1. a \in Nat /\ b \in Nat
  BY TryingFacts
<1>2. b + d >= a + Cardinality(W)
  BY TryingFacts, LosesOne
<1>3. Cardinality(W) \in Nat
  BY TryingFacts, FS_Subset, FS_CardinalityType
<1>4. Needed(k', call', e) => Supply(q, e) <= a + Saved(q, e)
  BY DEF Met
<1> HIDE DEF a, b
<1>5. Needed(k', call', e) => Supply(q', e) <= b + Saved(q', e)
  BY <1>1, <1>2, <1>3, <1>4
<1>6. QED
  BY <1>5 DEF Met, b

-----------------------------------------------------------------------------
\* The others go on trying.
LEMMA OthersTry ==
  ASSUME NEW H, NEW t, NEW n, NEW H1, NEW e \in EventList,
         \A u \in Task \ {t} : Onward(k, H, k', H1, u, n) /\ call'[u] = call[u]
  PROVE  Trying(k, call, e) \ {t} \subseteq Trying(k', call', e)
BY DEF Trying, Onward

\* Who waits was there before.
LEMMA SomeoneWaits ==
  ASSUME NEW K, NEW H, Good(K, H), NEW e \in EventList
  PROVE  K.waiting[e] # <<>> <=> \E u \in Task : Contains(K.waiting[e], u)
<1>1. K.waiting[e] \in Seq(Task)
  BY DEF Good, Kernels, Lists, List
<1>2. K.waiting[e] # <<>> => \E u \in Task : Contains(K.waiting[e], u)
  BY <1>1, SomeoneInList
<1>3. K.waiting[e] = <<>> => \A u : ~Contains(K.waiting[e], u)
  BY EmptyList
<1>4. QED
  BY <1>2, <1>3

\* t does not wait on e now that it did not, nor place itself.
Keeps(t, e) ==
  /\ Contains(k'.waiting[e], t) =>
       Contains(k.waiting[e], t) \/ (call[t].step = "place" /\ ListOf(call[t].op) = e)
  /\ call'[t].step = "place" /\ ListOf(call'[t].op) = e =>
       call[t].step = "place" /\ ListOf(call[t].op) = e

\* Who waits after a step did, or was about to, before it.
LEMMA NeededBefore ==
  ASSUME NEW H, NEW t \in Task, NEW n, NEW H1, NEW e \in EventList, Good(k, H), Good(k', H1),
         \A u \in Task \ {t} : Onward(k, H, k', H1, u, n) /\ call'[u] = call[u],
         Keeps(t, e)
  PROVE  Needed(k', call', e) => Needed(k, call, e)
<1>1. ASSUME NEW u \in Task, Contains(k'.waiting[e], u)
      PROVE  Needed(k, call, e)
  <2>1. Contains(k.waiting[e], u) \/ AtPlace(call, e)
    BY <1>1 DEF Onward, Keeps, AtPlace
  <2>2. QED
    BY <2>1, SomeoneWaits DEF Needed
<1>2. ASSUME NEW u \in Task, call'[u].step = "place", ListOf(call'[u].op) = e
      PROVE  AtPlace(call, e)
  BY <1>2 DEF Keeps, AtPlace
<1>3. QED
  BY <1>1, <1>2, SomeoneWaits DEF Needed, AtPlace

\* Only t does something; the others may be made ready.
Alone(H, t, n, H1) ==
  /\ Good(k, H) /\ Good(k', H1)
  /\ \A u \in Task \ {t} : Onward(k, H, k', H1, u, n) /\ call'[u] = call[u]

\* Steps of a task and of an interrupt are steps of at most one.
LEMMA AloneFacts ==
  ASSUME NEW H, Frames(H), NEW n, NEW H1
  PROVE  /\ \A t \in Task : Turns(H, t, n, H1) => Alone(H, t, n, H1)
         /\ Interrupts(H, n, H1) => \A t \in Task : Alone(H, t, n, H1)
BY DEF Frames, Frame, Turns, Interrupts, Alone

\* A turn of t, in which those in W begin to try.
LEMMA MetByTurn ==
  ASSUME NEW H, NEW t \in Task, NEW n, NEW H1, Alone(H, t, n, H1),
         NEW e \in EventList, Met(k, call, q, e), Keeps(t, e),
         NEW d \in {0, 1}, NEW W, W \subseteq Trying(k', call', e),
         Trying(k, call, e) \cap W = {},
         d = 0 => t \notin Trying(k, call, e) \/ t \in Trying(k', call', e),
         ChannelInvariant, ChannelInvariant',
         (Supply(q', e) - Saved(q', e)) + d <= (Supply(q, e) - Saved(q, e)) + Cardinality(W)
  PROVE  Met(k', call', q', e)
<1>1. Good(k, H) /\ Good(k', H1)
  BY DEF Alone
<1>2. \A u \in Task \ {t} : Onward(k, H, k', H1, u, n) /\ call'[u] = call[u]
  BY DEF Alone
<1>3. Needed(k', call', e) => Needed(k, call, e)
  BY <1>1, <1>2, NeededBefore
<1>4. Trying(k, call, e) \ {t} \subseteq Trying(k', call', e)
  BY <1>2, OthersTry
<1>5. Supply(q, e) \in Int /\ Saved(q, e) \in Int /\ Supply(q', e) \in Int /\ Saved(q', e) \in Int
  BY SupplyFacts
<1>6. QED
  BY <1>3, <1>4, <1>5, MetOn

\* A turn in which nothing comes or goes, and nobody begins to wait.
LEMMA MetStill ==
  ASSUME NEW H, NEW t \in Task, NEW n, NEW H1, Alone(H, t, n, H1),
         NEW e \in EventList, Met(k, call, q, e), Keeps(t, e),
         t \notin Trying(k, call, e) \/ t \in Trying(k', call', e),
         ChannelInvariant, ChannelInvariant',
         Supply(q', e) = Supply(q, e), Saved(q', e) = Saved(q, e)
  PROVE  Met(k', call', q', e)
<1>1. {} \subseteq Trying(k', call', e) /\ Trying(k, call, e) \cap {} = {}
  OBVIOUS
<1>2. Cardinality({}) = 0
  BY FS_EmptySet
<1>3. (Supply(q', e) - Saved(q', e)) + 0 <= (Supply(q, e) - Saved(q, e)) + Cardinality({})
  BY <1>2, SupplyFacts
<1>4. QED
  BY <1>1, <1>3, MetByTurn

\* A task that does not wait on either list.
LEMMA Awake ==
  ASSUME NEW m, NEW u, ~Waits(m, u)
  PROVE  \A e \in EventList : ~Contains(m.waiting[e], u)
BY DEF Waits

\* What those that wait on the two lists wait for.
LEMMA SameSupply ==
  ASSUME q'.count = q.count, q'.length = q.length, NEW e
  PROVE  /\ Supply(q', e) = Supply(q, e)
         /\ q'.txLock = q.txLock /\ q'.rxLock = q.rxLock => Saved(q', e) = Saved(q, e)
BY DEF Supply, Saved

\* The lists are met, and will be.
Fed     == \A e \in EventList : Met(k, call, q, e)
\* The step keeps it met.
FedNext == \A e \in EventList : Met(k', call', q', e)

\* The step begins and ends where the channel is in order.
Feeding(H) == Frames(H) /\ ChannelInvariant /\ ChannelInvariant' /\ Fed

\* Steps that leave queue, calls and event lists alone,
LEMMA FeedingAlike ==
  ASSUME Fed, k'.waiting = k.waiting, call' = call, q' = q
  PROVE  FedNext
BY DEF Fed, FedNext, Met, Needed, Trying, AtPlace, Supply, Saved

\* or let everybody go onward,
LEMMA FeedingOn ==
  ASSUME NEW H, Feeding(H), NEW t \in Task, NEW n, NEW H1, Alone(H, t, n, H1),
         Onward(k, H, k', H1, t, n), call' = call, q' = q
  PROVE  FedNext
<1>1. ASSUME NEW e \in EventList
      PROVE  Met(k', call', q', e)
  <2>1. Keeps(t, e) /\ (t \notin Trying(k, call, e) \/ t \in Trying(k', call', e))
    BY DEF Keeps, Onward, Trying
  <2>2. Supply(q', e) = Supply(q, e) /\ Saved(q', e) = Saved(q, e)
    BY SameSupply
  <2>3. QED
    BY <2>1, <2>2, MetStill DEF Feeding, Fed
<1>2. QED
  BY <1>1 DEF FedNext

-----------------------------------------------------------------------------
\* such as those of the kernel,
LEMMA TasksFeed ==
  ASSUME NEW H, Feeding(H), program \in Programs, TaskStep
  PROVE  FedNext
<1>1. q' = q /\ call' = call /\ Frames(H) /\ Fed
  BY DEF TaskStep, Feeding
<1>2. CASE (\E t \in Task : MainCreates(t, program.priority[t])) \/ vTaskStartScheduler
  <2>1. k'.waiting = k.waiting
    BY <1>1, <1>2, MainActs, MainFrame
  <2>2. QED
    BY <1>1, <2>1, FeedingAlike
<1>3. CASE vTick
  <2>1. PICK H1 \in [Task -> Places], n \in Nat : Interrupts(H, n, H1)
    BY <1>1, <1>3, TickFrame
  <2>2. Idle \in Task
    BY KernelAssumption
  <2>3. Alone(H, Idle, n, H1) /\ Onward(k, H, k', H1, Idle, n)
    BY <1>1, <2>1, <2>2, AloneFacts DEF Interrupts
  <2>4. QED
    BY <1>1, <2>2, <2>3, FeedingOn
<1>4. ASSUME NEW t \in Task, vTaskDelay(t, 1)
      PROVE  FedNext
  <2>1. k'.waiting = k.waiting
    BY <1>1, <1>4, DelayFrame
  <2>2. QED
    BY <1>1, <2>1, FeedingAlike
<1>5. ASSUME NEW t \in Task, EndsDelay(t)
      PROVE  FedNext
  <2>1. PICK H1 \in [Task -> Places] :
          Turns(H, t, k.missed, H1) /\ Onward(k, H, k', H1, t, k.missed)
    BY <1>1, <1>5, EndsDelayFrame
  <2>2. Alone(H, t, k.missed, H1)
    BY <1>1, <2>1, AloneFacts
  <2>3. QED
    BY <1>1, <2>1, <2>2, FeedingOn
<1>6. ASSUME NEW t \in Task, Yields(t)
      PROVE  FedNext
  <2>1. k'.waiting = k.waiting
    BY <1>1, <1>6, YieldsFrame
  <2>2. QED
    BY <1>1, <2>1, FeedingAlike
<1>7. QED
  BY <1>2, <1>3, <1>4, <1>5, <1>6 DEF TaskStep

\* What a call begins with changes neither the kernel nor what there is.
LEMMA CallsLeave ==
  ASSUME NEW t \in Task, ChannelInvariant,
         \/ CallsSend(t) \/ CallsGive(t) \/ CallsReceive(t) \/ CallsPeek(t)
         \/ TakesRecursive(t) \/ GivesRecursive(t)
  PROVE  /\ k' = k /\ Runs(t, "task") /\ q'.count = q.count /\ q'.length = q.length
         /\ q'.txLock = q.txLock /\ q'.rxLock = q.rxLock
         /\ q'.kind = q.kind /\ q'.holder = q.holder
<1>1. q \in Queues
  BY DEF ChannelInvariant, QueueTypes
<1>2. \A n : LET r == [q EXCEPT !.depth = n] IN
               /\ r.count = q.count /\ r.length = q.length
               /\ r.txLock = q.txLock /\ r.rxLock = q.rxLock
               /\ r.kind = q.kind /\ r.holder = q.holder
  BY <1>1 DEF Queues
<1>3. q' = q \/ q' = [q EXCEPT !.depth = q.depth + 1] \/ q' = [q EXCEPT !.depth = q.depth - 1]
  BY DEF CallsSend, CallsGive, CallsReceive, CallsPeek, TakesRecursive, GivesRecursive, Begins
<1>4. k' = k /\ Runs(t, "task")
  BY DEF CallsSend, CallsGive, CallsReceive, CallsPeek, TakesRecursive, GivesRecursive, Begins,
         Calls
<1>5. QED
  BY <1>2, <1>3, <1>4

\* and those that begin calls.
LEMMA CallsFeed ==
  ASSUME NEW H, Feeding(H), program \in Programs, NEW t \in Task,
         \/ CallsSend(t) \/ CallsGive(t) \/ CallsReceive(t) \/ CallsPeek(t)
         \/ TakesRecursive(t) \/ GivesRecursive(t)
  PROVE  FedNext
<1>1. Frames(H) /\ ChannelInvariant
  BY DEF Feeding
<1>2. /\ k' = k /\ Runs(t, "task") /\ q'.count = q.count /\ q'.length = q.length
      /\ q'.txLock = q.txLock /\ q'.rxLock = q.rxLock
  BY <1>1, CallsLeave
<1>3. call[t] = NoCall /\ call[t].op = "none"
  BY <1>1, <1>2, InOwnCode
<1>4. Turns(H, t, 0, H) /\ (Starts(t) \/ call' = call)
  BY <1>1, CallsFrame, RecursiveFrame
<1>5. call'[t].step # "place"
  BY <1>3, <1>4, NoCallTypes DEF Starts
<1>6. ASSUME NEW e \in EventList
      PROVE  Met(k', call', q', e)
  <2>1. Keeps(t, e) /\ t \notin Trying(k, call, e)
    BY <1>2, <1>3, <1>5 DEF Keeps, Trying
  <2>2. Supply(q', e) = Supply(q, e) /\ Saved(q', e) = Saved(q, e)
    BY <1>2, SameSupply
  <2>3. QED
    BY <1>1, <1>4, <2>1, <2>2, AloneFacts, MetStill DEF Feeding, Fed
<1>7. QED
  BY <1>6 DEF FedNext

-----------------------------------------------------------------------------
(* Waiting, and what is sent meanwhile                                       *)

\* The others are not about to place themselves, and who waits is where it may wait.
LEMMA OthersElsewhere ==
  ASSUME NEW H, Frames(H), k.running, NEW t \in Task, k.current = t
  PROVE  \A u \in Task \ {t} : call[u].step # "place"
<1>1. \A u \in Task \ {t} : ~InCall(at, call, u, Inside) /\ Standing(k, at, call, H, u)
  BY OthersOutside DEF Frames, Frame
<1>2. NoCall.step # "place"
  BY NoCallTypes
<1>3. QED
  BY <1>1, <1>2 DEF Standing, InCall, Inside

\* Who waits on e is in a call for it, with time left.
LEMMA WaitersStand ==
  ASSUME NEW H, Frames(H), NEW e \in EventList, NEW u \in Task, Contains(k.waiting[e], u)
  PROVE  /\ call[u].op # "none" /\ call[u].step \in After /\ call[u].ticks # 0
         /\ ListOf(call[u].op) = e /\ u \notin Trying(k, call, e)
<1>1. Waits(k, u) /\ Standing(k, at, call, H, u)
  BY DEF Waits, Frames, Frame
<1>2. QED
  BY <1>1 DEF Standing, Trying

\* One that tries goes on to try.
LEMMA GoesOnTrying ==
  ASSUME NEW t \in Task, NEW e \in EventList, call'[t].op = call[t].op,
         call[t].step \in Inside /\ call[t].ticks # 0 => call'[t].step \in After,
         call[t].step = "yield" => call'[t].step = "try", call[t].step # "try",
         call'[t].ticks = call[t].ticks,
         Contains(k'.waiting[e], t) => Contains(k.waiting[e], t)
  PROVE  t \notin Trying(k, call, e) \/ t \in Trying(k', call', e)
BY DEF Trying, After, Inside

\* A turn in which t goes on in its call, and does not begin to wait.
LEMMA GoingOn ==
  ASSUME NEW H, Feeding(H), NEW t \in Task, NEW n, NEW H1, Alone(H, t, n, H1),
         NEW e \in EventList,
         t \notin Trying(k, call, e) \/ t \in Trying(k', call', e),
         Contains(k'.waiting[e], t) => Contains(k.waiting[e], t),
         call'[t].step # "place" \/ ListOf(call'[t].op) # e,
         Supply(q', e) = Supply(q, e), Saved(q', e) = Saved(q, e)
  PROVE  Met(k', call', q', e)
<1>1. Keeps(t, e)
  BY DEF Keeps
<1>2. QED
  BY <1>1, MetStill DEF Feeding, Fed

\* Who must wait has found nothing.
LEMMA MustWaitFor ==
  ASSUME NEW t, MustWait(t), ChannelInvariant
  PROVE  Supply(q, ListOf(call[t].op)) = 0
<1>1. q.count \in Nat /\ q.length \in Nat
  BY SupplyFacts
<1>2. QED
  BY <1>1 DEF MustWait, Supply, ListOf

\* What is there stays met while a call suspends the scheduler,
LEMMA SuspendsFeeds ==
  ASSUME NEW H, Feeding(H), NEW t \in Task, Suspends(t)
  PROVE  FedNext
<1>1. Frames(H) /\ Is(t, Waiters, "suspend")
  BY DEF Feeding, Suspends
<1>2. k.running /\ call[t].step = "suspend"
  BY <1>1, InTheCall
<1>3. Turns(H, t, 0, H) /\ q' = q /\ k'.waiting = k.waiting /\ Continues(t, StepTo(call[t], "lock"))
  BY <1>1, SuspendsFrame
<1>4. call'[t].step = "lock"
  BY <1>1, <1>2, <1>3, ContinuesFacts, StepFields DEF Frames, Frame, Steps, Inside
<1>5. ASSUME NEW e \in EventList
      PROVE  Met(k', call', q', e)
  <2>1. t \notin Trying(k, call, e)
    BY <1>2 DEF Trying, After
  <2>2. Supply(q', e) = Supply(q, e) /\ Saved(q', e) = Saved(q, e)
    BY <1>3, SameSupply
  <2>3. Alone(H, t, 0, H)
    BY <1>1, <1>3, AloneFacts
  <2>4. QED
    BY <1>3, <1>4, <2>1, <2>2, <2>3, GoingOn
<1>6. QED
  BY <1>5 DEF FedNext

\* locks the queue, or gives up,
LEMMA LocksFeeds ==
  ASSUME NEW H, Feeding(H), NEW t \in Task, Locks(t)
  PROVE  FedNext
<1>1. Frames(H) /\ ChannelInvariant /\ Is(t, Waiters, "lock")
  BY DEF Feeding, Locks
<1>2. k.running /\ call[t].step = "lock" /\ call[t] \in AllCalls /\ call[t].ticks # 0
  BY <1>1, InTheCall DEF Frames, Frame, Resting1
<1>3. /\ Turns(H, t, 0, H) /\ k' = k /\ q'.count = q.count /\ q'.length = q.length
      /\ q'.txLock = Latch(q.txLock) /\ q'.rxLock = Latch(q.rxLock)
      /\ \/ Continues(t, OverAt(call[t], "unlockTx"))
         \/ ~IsOver(t) /\ Continues(t, StepTo(Deducted(t), "look"))
  BY <1>1, LocksFrame
<1>4. call'[t].step # "place"
  <2>1. CASE Continues(t, OverAt(call[t], "unlockTx"))
    BY <1>1, <1>2, <2>1, ContinuesFacts, OverFields DEF Steps, Inside
  <2>2. CASE ~IsOver(t) /\ Continues(t, StepTo(Deducted(t), "look"))
    BY <1>1, <1>2, <2>2, ContinuesFacts, DeductedFacts, StepFields DEF Steps, Inside
  <2>3. QED
    BY <1>3, <2>1, <2>2
<1>5. ASSUME NEW e \in EventList
      PROVE  Met(k', call', q', e)
  <2>1. t \notin Trying(k, call, e)
    BY <1>2 DEF Trying, After
  <2>2. Supply(q', e) = Supply(q, e)
    BY <1>3, SameSupply
  <2>3. Saved(q', e) = Saved(q, e)
    BY <1>3 DEF Saved, Latch, Unlocked, MaxOf
  <2>4. Alone(H, t, 0, H)
    BY <1>1, <1>3, AloneFacts
  <2>5. QED
    BY <1>3, <1>4, <2>1, <2>2, <2>3, <2>4, GoingOn
<1>6. QED
  BY <1>5 DEF FedNext

\* looks and finds nothing, or something,
LEMMA LooksFeeds ==
  ASSUME NEW H, Feeding(H), NEW t \in Task, Looks(t)
  PROVE  FedNext
<1>1. Frames(H) /\ ChannelInvariant /\ Is(t, Waiters, "look")
  BY DEF Feeding, Looks
<1>2. k.running /\ call[t].step = "look" /\ call[t] \in AllCalls
  BY <1>1, InTheCall DEF Frames, Frame
<1>3. /\ Turns(H, t, 0, H) /\ k' = k /\ q' = q
      /\ \/ MustWait(t) /\ Continues(t, StepTo(call[t], "place"))
         \/ ~MustWait(t) /\ Continues(t, StepTo(call[t], "unlockTx"))
  BY <1>1, LooksFrame
<1>4. call'[t].op = call[t].op /\ (MustWait(t) \/ call'[t].step # "place")
  <2>1. "place" \in Steps /\ "unlockTx" \in Steps
    BY DEF Steps, Inside
  <2>2. CASE MustWait(t) /\ Continues(t, StepTo(call[t], "place"))
    BY <1>1, <1>2, <2>1, <2>2, ContinuesFacts, StepFields
  <2>3. CASE ~MustWait(t) /\ Continues(t, StepTo(call[t], "unlockTx"))
    BY <1>1, <1>2, <2>1, <2>3, ContinuesFacts, StepFields
  <2>4. QED
    BY <1>3, <2>2, <2>3
<1>5. ASSUME NEW e \in EventList
      PROVE  Met(k', call', q', e)
  <2>1. Supply(q', e) = Supply(q, e) /\ Saved(q', e) = Saved(q, e) /\ Saved(q', e) \in Nat
    BY <1>1, <1>3, SameSupply, SupplyFacts
  <2>2. CASE MustWait(t) /\ ListOf(call[t].op) = e
    BY <1>1, <2>1, <2>2, MustWaitFor, NothingLeft
  <2>3. CASE ~(MustWait(t) /\ ListOf(call[t].op) = e)
    <3>1. t \notin Trying(k, call, e)
      BY <1>2 DEF Trying, After
    <3>2. Alone(H, t, 0, H) /\ (call'[t].step # "place" \/ ListOf(call'[t].op) # e)
      BY <1>1, <1>3, <1>4, <2>3, AloneFacts
    <3>3. QED
      BY <1>3, <2>1, <3>1, <3>2, GoingOn
  <2>4. QED
    BY <2>2, <2>3
<1>6. QED
  BY <1>5 DEF FedNext

-----------------------------------------------------------------------------
\* t places itself on the list e of its call.
Joins(t, e) ==
  /\ \A u : Contains(k'.waiting[e], u) <=> Contains(k.waiting[e], u) \/ u = t
  /\ \A f \in EventList \ {e} : k'.waiting[f] = k.waiting[f]

\* places itself on the event list,
LEMMA PlacedIsOn ==
  ASSUME NEW H, NEW t, NEW l, NEW n, Placed(H, t, k', l, n)
  PROVE  Joins(t, ListOf(call[t].op))
BY DEF Placed, Joins

\* which it does only if there is nothing,
LEMMA PlacesFeeds ==
  ASSUME NEW H, Feeding(H), NEW t \in Task, Places1(t)
  PROVE  FedNext
<1>1. Frames(H) /\ ChannelInvariant /\ Is(t, Waiters, "place")
  BY DEF Feeding, Places1
<1>2. k.running /\ call[t].step = "place" /\ call[t] \in AllCalls
  BY <1>1, InTheCall DEF Frames, Frame
<1>3. PICK l \in Stopped :
        /\ Turns(H, t, 0, Move(H, t, l)) /\ Placed(H, t, k', l, call[t].ticks)
        /\ q' = q /\ Continues(t, StepTo(call[t], "unlockTx"))
  BY <1>1, PlacesFrame
<1>4. call'[t].step = "unlockTx"
  BY <1>1, <1>2, <1>3, ContinuesFacts, StepFields DEF Steps, Inside
<1>5. Joins(t, ListOf(call[t].op))
  BY <1>3, PlacedIsOn
<1>6. ASSUME NEW e \in EventList
      PROVE  Met(k', call', q', e)
  <2>1. t \notin Trying(k, call, e)
    BY <1>2 DEF Trying, After
  <2>2. Keeps(t, e)
    BY <1>2, <1>4, <1>5 DEF Keeps, Joins
  <2>3. Supply(q', e) = Supply(q, e) /\ Saved(q', e) = Saved(q, e)
    BY <1>3, SameSupply
  <2>4. Alone(H, t, 0, Move(H, t, l))
    BY <1>1, <1>3, AloneFacts
  <2>5. QED
    BY <2>1, <2>2, <2>3, <2>4, MetStill DEF Feeding, Fed
<1>7. QED
  BY <1>6 DEF FedNext

\* in one critical section too,
LEMMA BlocksFeeds ==
  ASSUME NEW H, Feeding(H), NEW t \in Task, BlocksAlternative(t)
  PROVE  FedNext
<1>1. Frames(H) /\ ChannelInvariant /\ Is(t, Waiters, "block")
  BY DEF Feeding, BlocksAlternative
<1>2. k.running /\ call[t].step = "block" /\ call[t].ticks # 0
  BY <1>1, InTheCall DEF Resting1
<1>3. /\ q' = q
      /\ \E H1 : /\ Turns(H, t, 0, H1)
                 /\ k' = k \/ (MustWait(t) /\ Joins(t, ListOf(call[t].op)))
  <2>1. CASE k' = k /\ Turns(H, t, 0, H)
    BY <1>1, <2>1, BlocksFrame
  <2>2. ASSUME NEW l, MustWait(t), Turns(H, t, 0, Move(H, t, l)), Placed(H, t, k', l, Deducted(t).ticks)
        PROVE  \E H1 : /\ Turns(H, t, 0, H1)
                       /\ k' = k \/ (MustWait(t) /\ Joins(t, ListOf(call[t].op)))
    BY <2>2, PlacedIsOn
  <2>3. QED
    BY <1>1, <2>1, <2>2, BlocksFrame
<1>4. PICK H1 : Turns(H, t, 0, H1)
  BY <1>3
<1>5. Alone(H, t, 0, H1)
  BY <1>1, <1>4, AloneFacts
<1>6. call'[t].step # "place"
  <2>1. CASE Ends(t)
    BY <1>1, <1>2, <2>1, EndsFacts, NoCallTypes
  <2>2. CASE ~IsOver(t) /\ Continues(t, StepTo(Deducted(t), "try"))
    BY <1>1, <1>2, <2>2, ContinuesFacts, DeductedFacts, StepFields DEF Steps
  <2>3. QED
    BY <1>1, <2>1, <2>2, BlocksFrame
<1>7. ASSUME NEW e \in EventList
      PROVE  Met(k', call', q', e)
  <2>1. t \notin Trying(k, call, e)
    BY <1>2 DEF Trying, After
  <2>2. Supply(q', e) = Supply(q, e) /\ Saved(q', e) = Saved(q, e) /\ Saved(q', e) \in Nat
    BY <1>1, <1>3, SameSupply, SupplyFacts
  <2>3. CASE MustWait(t) /\ ListOf(call[t].op) = e
    BY <1>1, <2>2, <2>3, MustWaitFor, NothingLeft
  <2>4. CASE ~(MustWait(t) /\ ListOf(call[t].op) = e)
    <3>1. Contains(k'.waiting[e], t) => Contains(k.waiting[e], t)
      BY <1>3, <2>4 DEF Joins
    <3>2. QED
      BY <1>5, <1>6, <2>1, <2>2, <3>1, GoingOn
  <2>5. QED
    BY <2>3, <2>4
<1>8. QED
  BY <1>7 DEF FedNext

\* The call resumes and ends, tries again, or yields.
LEMMA ResumesFeeds ==
  ASSUME NEW H, Feeding(H), NEW t \in Task, Resumes(t)
  PROVE  FedNext
<1>1. Frames(H) /\ Is(t, Waiters, "resume")
  BY DEF Feeding, Resumes
<1>2. k.running /\ call[t].step = "resume" /\ call[t] \in AllCalls
  BY <1>1, InTheCall DEF Frames, Frame
<1>3. PICK H1 \in [Task -> Places] :
        /\ Turns(H, t, k.missed, H1) /\ Onward(k, H, k', H1, t, k.missed) /\ q' = q
        /\ IF call[t].ticks = 0 THEN Ends(t)
           ELSE \E s \in {"yield", "try"} : Continues(t, StepTo(call[t], s))
  BY <1>1, ResumesFrame
<1>4. /\ call'[t].step # "place"
      /\ call[t].ticks # 0 => /\ call'[t].step \in {"yield", "try"} /\ call'[t].op = call[t].op
                              /\ call'[t].ticks = call[t].ticks
  <2>1. CASE call[t].ticks = 0
    BY <1>1, <1>2, <1>3, <2>1, EndsFacts, NoCallTypes
  <2>2. CASE call[t].ticks # 0
    <3>1. PICK s \in {"yield", "try"} : Continues(t, StepTo(call[t], s))
      BY <1>3, <2>2
    <3>2. s \in Steps
      BY DEF Steps
    <3>3. QED
      BY <1>1, <1>2, <3>1, <3>2, ContinuesFacts, StepFields
  <2>3. QED
    BY <2>1, <2>2
<1>5. ASSUME NEW e \in EventList
      PROVE  Met(k', call', q', e)
  <2>1. t \notin Trying(k, call, e) \/ t \in Trying(k', call', e)
    BY <1>2, <1>3, <1>4 DEF Trying, Onward, After, Inside
  <2>2. Supply(q', e) = Supply(q, e) /\ Saved(q', e) = Saved(q, e)
    BY <1>3, SameSupply
  <2>3. Alone(H, t, k.missed, H1) /\ (Contains(k'.waiting[e], t) => Contains(k.waiting[e], t))
    BY <1>1, <1>3, AloneFacts DEF Onward
  <2>4. QED
    BY <1>4, <2>1, <2>2, <2>3, GoingOn
<1>6. QED
  BY <1>5 DEF FedNext

\* yields and tries again,
LEMMA YieldsFeeds ==
  ASSUME NEW H, Feeding(H), NEW t \in Task, YieldsInCall(t)
  PROVE  FedNext
<1>1. Frames(H) /\ Is(t, Waiters, "yield")
  BY DEF Feeding, YieldsInCall
<1>2. k.running /\ call[t].step = "yield" /\ call[t] \in AllCalls
  BY <1>1, InTheCall DEF Frames, Frame
<1>3. /\ Turns(H, t, 0, H) /\ k'.waiting = k.waiting /\ q' = q
      /\ Continues(t, StepTo(call[t], "try"))
  BY <1>1, YieldsInCallFrame
<1>4. call'[t].step = "try" /\ call'[t].op = call[t].op
  BY <1>1, <1>2, <1>3, ContinuesFacts, StepFields DEF Steps
<1>5. ASSUME NEW e \in EventList
      PROVE  Met(k', call', q', e)
  <2>1. t \notin Trying(k, call, e) \/ t \in Trying(k', call', e)
    BY <1>2, <1>3, <1>4 DEF Trying, After, Inside
  <2>2. Supply(q', e) = Supply(q, e) /\ Saved(q', e) = Saved(q, e)
    BY <1>3, SameSupply
  <2>3. Alone(H, t, 0, H)
    BY <1>1, <1>3, AloneFacts
  <2>4. QED
    BY <1>3, <1>4, <2>1, <2>2, <2>3, GoingOn
<1>6. QED
  BY <1>5 DEF FedNext

-----------------------------------------------------------------------------
\* prvUnlockQueue for the list e: as many tasks leave it as interrupts have left items,
\* or all.
LEMMA UnlockFeeds ==
  ASSUME NEW H, Feeding(H), NEW t \in Task, k.running, k.current = t, NEW e \in EventList,
         call[t].step \in {"unlockTx", "unlockRx"}, call'[t].step \in {"unlockRx", "resume"},
         call'[t].op = call[t].op, call'[t].ticks = call[t].ticks,
         Turns(H, t, 0, H), Onward(k, H, k', H, t, 0),
         q'.count = q.count, q'.length = q.length, Saved(q', e) = 0,
         \A f \in EventList \ {e} : Saved(q', f) = Saved(q, f),
         IsFiniteSet(Gone(k, k', e)), Cardinality(Gone(k, k', e)) \in Nat,
         Saved(q, e) <= Cardinality(Gone(k, k', e)) \/ k'.waiting[e] = <<>>
  PROVE  FedNext
<1>1. Frames(H) /\ ChannelInvariant /\ Alone(H, t, 0, H)
  BY AloneFacts DEF Feeding
<1>2. call'[t].step # "place" /\ call[t].step # "place"
  OBVIOUS
<1>3. ASSUME NEW f \in EventList
      PROVE  t \notin Trying(k, call, f) \/ t \in Trying(k', call', f)
  BY DEF Trying, Onward, After, Inside
<1>4. ASSUME NEW f \in EventList
      PROVE  Contains(k'.waiting[f], t) => Contains(k.waiting[f], t)
  BY DEF Onward
<1>5. ASSUME NEW f \in EventList \ {e}
      PROVE  Met(k', call', q', f)
  <2>1. Supply(q', f) = Supply(q, f) /\ Saved(q', f) = Saved(q, f)
    BY SameSupply
  <2>2. QED
    BY <1>1, <1>2, <1>3, <1>4, <2>1, GoingOn
<1>6. CASE k'.waiting[e] = <<>>
  <2>1. ~AtPlace(call', e)
    BY <1>1, <1>2, OthersElsewhere DEF AtPlace, Alone
  <2>2. QED
    BY <1>5, <1>6, <2>1 DEF FedNext, Met, Needed
<1>7. CASE Saved(q, e) <= Cardinality(Gone(k, k', e))
  <2> DEFINE W == Gone(k, k', e)
  <2>1. ASSUME NEW u \in W
        PROVE  u \in Trying(k', call', e) /\ u \notin Trying(k, call, e)
    <3>1. u \in Task /\ Contains(k.waiting[e], u) /\ ~Contains(k'.waiting[e], u)
      BY DEF Gone
    <3>2. /\ call[u].op # "none" /\ call[u].step \in After /\ call[u].ticks # 0
          /\ ListOf(call[u].op) = e /\ u \notin Trying(k, call, e)
      BY <1>1, <3>1, WaitersStand
    <3>3. /\ call'[u].op = call[u].op /\ call'[u].ticks = call[u].ticks
          /\ call'[u].step \in After
      BY <1>1, <3>1, <3>2 DEF Alone, After
    <3>4. QED
      BY <3>1, <3>2, <3>3 DEF Trying
  <2>2. W \subseteq Trying(k', call', e) /\ Trying(k, call, e) \cap W = {}
    BY <2>1
  <2>3. Keeps(t, e)
    BY <1>2, <1>4 DEF Keeps
  <2>4. (Supply(q', e) - Saved(q', e)) + 0 <= (Supply(q, e) - Saved(q, e)) + Cardinality(W)
    BY <1>1, <1>7, SameSupply, SupplyFacts
  <2> HIDE DEF W
  <2>5. Met(k', call', q', e)
    BY <1>1, <1>3, <2>2, <2>3, <2>4, MetByTurn DEF Feeding, Fed
  <2>6. QED
    BY <1>5, <2>5 DEF FedNext
<1>8. QED
  BY <1>6, <1>7

\* or wakes as many as interrupts have left items for.
LEMMA UnlocksFeed ==
  ASSUME NEW H, Feeding(H), NEW t \in Task, UnlocksTx(t) \/ UnlocksRx(t)
  PROVE  FedNext
<1>1. Frames(H) /\ ChannelInvariant
  BY DEF Feeding
<1>2. {"send", "receive"} = EventList
  BY TwoLists
<1>3. "unlockRx" \in Steps /\ "resume" \in Steps
  BY DEF Steps, Inside
<1>4. CASE UnlocksTx(t)
  <2>1. Is(t, Waiters, "unlockTx")
    BY <1>4 DEF UnlocksTx
  <2>2. k.running /\ k.current = t /\ call[t].step = "unlockTx" /\ call[t] \in AllCalls
    BY <1>1, <2>1, InTheCall DEF Frames, Frame
  <2>3. /\ Turns(H, t, 0, H) /\ Onward(k, H, k', H, t, 0)
        /\ Continues(t, StepTo(call[t], "unlockRx"))
        /\ q'.count = q.count /\ q'.length = q.length
        /\ q'.txLock = Unlocked /\ q'.rxLock = q.rxLock /\ q.txLock \in Nat
        /\ IsFiniteSet(Gone(k, k', "receive")) /\ Cardinality(Gone(k, k', "receive")) \in Nat
        /\ q.txLock <= Cardinality(Gone(k, k', "receive")) \/ k'.waiting["receive"] = <<>>
    BY <1>1, <1>4, UnlocksTxFrame
  <2>4. /\ call'[t].step = "unlockRx" /\ call'[t].op = call[t].op
        /\ call'[t].ticks = call[t].ticks
    BY <1>1, <1>3, <2>2, <2>3, ContinuesFacts, StepFields
  <2>5. /\ Saved(q', "receive") = 0 /\ Saved(q, "receive") = q.txLock
        /\ Saved(q', "send") = Saved(q, "send")
    BY <2>3 DEF Saved, MaxOf, Unlocked
  <2>6. QED
    BY <1>2, <2>2, <2>3, <2>4, <2>5, UnlockFeeds
<1>5. CASE UnlocksRx(t)
  <2>1. Is(t, Waiters, "unlockRx")
    BY <1>5 DEF UnlocksRx
  <2>2. k.running /\ k.current = t /\ call[t].step = "unlockRx" /\ call[t] \in AllCalls
    BY <1>1, <2>1, InTheCall DEF Frames, Frame
  <2>3. /\ Turns(H, t, 0, H) /\ Onward(k, H, k', H, t, 0)
        /\ Continues(t, StepTo(call[t], "resume"))
        /\ q'.count = q.count /\ q'.length = q.length
        /\ q.txLock = Unlocked /\ q'.txLock = Unlocked /\ q'.rxLock = Unlocked /\ q.rxLock \in Nat
        /\ IsFiniteSet(Gone(k, k', "send")) /\ Cardinality(Gone(k, k', "send")) \in Nat
        /\ q.rxLock <= Cardinality(Gone(k, k', "send")) \/ k'.waiting["send"] = <<>>
    BY <1>1, <1>5, UnlocksRxFrame
  <2>4. /\ call'[t].step = "resume" /\ call'[t].op = call[t].op
        /\ call'[t].ticks = call[t].ticks
    BY <1>1, <1>3, <2>2, <2>3, ContinuesFacts, StepFields
  <2>5. /\ Saved(q', "send") = 0 /\ Saved(q, "send") = q.rxLock
        /\ Saved(q', "receive") = Saved(q, "receive")
    BY <2>3 DEF Saved, MaxOf, Unlocked
  <2>6. QED
    BY <1>2, <2>2, <2>3, <2>4, <2>5, UnlockFeeds
<1>6. QED
  BY <1>4, <1>5

-----------------------------------------------------------------------------
\* The first task that waits on e is woken, for one item, or by a task that leaves one.
LEMMA WakingFeeds ==
  ASSUME NEW H, Feeding(H), NEW t \in Task, NEW n, NEW H1, Alone(H, t, n, H1),
         NEW e \in EventList, NEW km, km.waiting = k.waiting, Wakened(km, H, k', H1, e),
         \A u \in Task : call[u].step # "place", call'[t].step # "place",
         ~Contains(k.waiting[e], t) \/ call'[t] = call[t],
         NEW d \in {0, 1}, d = 0 => t \notin Trying(k, call, e) \/ t \in Trying(k', call', e),
         (Supply(q', e) - Saved(q', e)) + d <= (Supply(q, e) - Saved(q, e)) + 1
  PROVE  Met(k', call', q', e)
<1>1. Frames(H) /\ ChannelInvariant /\ ChannelInvariant' /\ Met(k, call, q, e)
  BY DEF Feeding, Fed
<1>2. \A u \in Task : call'[u].step # "place"
  BY DEF Alone
<1>3. CASE k.waiting[e] = <<>>
  BY <1>2, <1>3 DEF Wakened, Met, Needed, AtPlace
<1>4. CASE k.waiting[e] # <<>>
  <2>1. PICK w \in Task :
          /\ Contains(k.waiting[e], w)
          /\ \A f \in EventList, u \in Task :
               Contains(k'.waiting[f], u) <=> Contains(k.waiting[f], u) /\ u # w
    BY <1>4 DEF Wakened
  <2>2. /\ call[w].op # "none" /\ call[w].step \in After /\ call[w].ticks # 0
        /\ ListOf(call[w].op) = e /\ w \notin Trying(k, call, e)
    BY <1>1, <2>1, WaitersStand
  <2>3. call'[w] = call[w]
    BY <2>1 DEF Alone
  <2>4. w \in Trying(k', call', e)
    BY <2>1, <2>2, <2>3 DEF Trying
  <2>5. {w} \subseteq Trying(k', call', e) /\ Trying(k, call, e) \cap {w} = {}
    BY <2>2, <2>4
  <2>6. Keeps(t, e)
    BY <1>2, <2>1 DEF Keeps
  <2>7. Cardinality({w}) = 1
    BY FS_Singleton
  <2> DEFINE W == {w}
  <2>8. (Supply(q', e) - Saved(q', e)) + d <= (Supply(q, e) - Saved(q, e)) + Cardinality(W)
    BY <2>7
  <2>9. W \subseteq Trying(k', call', e) /\ Trying(k, call, e) \cap W = {}
    BY <2>5
  <2> HIDE DEF W
  <2>10. QED
    BY <1>1, <2>6, <2>8, <2>9, MetByTurn
<1>5. QED
  BY <1>3, <1>4

\* Something is taken, or a task that tried leaves with what it came for.
LEMMA LeavingFeeds ==
  ASSUME NEW H, Feeding(H), NEW t \in Task, NEW n, NEW H1, Alone(H, t, n, H1),
         NEW e \in EventList, Onward(k, H, k', H1, t, n), call'[t].step # "place",
         NEW d \in {0, 1}, d = 0 => t \notin Trying(k, call, e) \/ t \in Trying(k', call', e),
         (Supply(q', e) - Saved(q', e)) + d <= Supply(q, e) - Saved(q, e)
  PROVE  Met(k', call', q', e)
<1>1. Keeps(t, e)
  BY DEF Keeps, Onward
<1> DEFINE W == {}
<1>2. Cardinality(W) = 0 /\ W \subseteq Trying(k', call', e) /\ Trying(k, call, e) \cap W = {}
  BY FS_EmptySet
<1> HIDE DEF W
<1>3. (Supply(q', e) - Saved(q', e)) + d <= (Supply(q, e) - Saved(q, e)) + Cardinality(W)
  BY <1>2, SupplyFacts DEF Feeding
<1>4. QED
  BY <1>1, <1>2, <1>3, MetByTurn DEF Feeding, Fed

\* Who fails has found nothing.
LEMMA FailsFeed ==
  ASSUME NEW H, Feeding(H), NEW t \in Task, NEW op, Is(t, op, "try"), NEW why, TryFails(t, why),
         q.kind \in Mutexes => call[t].op # "send", Supply(q, ListOf(call[t].op)) = 0
  PROVE  FedNext
<1>1. Frames(H) /\ ChannelInvariant
  BY DEF Feeding
<1>2. k.running /\ call[t].step = "try" /\ call[t] \in AllCalls
  BY <1>1, InTheCall DEF Frames, Frame
<1>3. Turns(H, t, 0, H) /\ k' = k /\ q' = q
  BY <1>1, TryFailsFrame
<1>4. call'[t].step # "place"
  <2>1. NoCall.step # "place"
    BY NoCallTypes
  <2>2. q.kind \in Mutexes => call[t].op # "send"
    OBVIOUS
  <2>3. call' = [call EXCEPT ![t] = NoCall] \/ call'[t].step \in {"block", "suspend"}
    BY <1>1, <1>2 DEF TryFails, Returns, Frames, Frame, AllCalls
  <2>4. call \in [Task -> AllCalls]
    BY <1>1 DEF Frames, Frame
  <2>5. QED
    BY <2>1, <2>3, <2>4
<1>5. Alone(H, t, 0, H)
  BY <1>1, <1>3, AloneFacts
<1>6. ASSUME NEW e \in EventList
      PROVE  Met(k', call', q', e)
  <2>1. Supply(q', e) = Supply(q, e) /\ Saved(q', e) = Saved(q, e) /\ Saved(q', e) \in Nat
    BY <1>1, <1>3, SameSupply, SupplyFacts
  <2>2. CASE ListOf(call[t].op) = e
    BY <2>1, <2>2, NothingLeft
  <2>3. CASE ListOf(call[t].op) # e
    <3>1. t \notin Trying(k, call, e)
      BY <2>3 DEF Trying
    <3>2. QED
      BY <1>3, <1>4, <1>5, <2>1, <3>1, GoingOn
  <2>4. QED
    BY <2>2, <2>3
<1>7. QED
  BY <1>6 DEF FedNext

\* Who sends leaves an item to one that it wakes,
LEMMA TrySendFeeds ==
  ASSUME NEW H, Feeding(H), NEW t \in Task, TrySend(t)
  PROVE  FedNext
<1>1. Frames(H) /\ ChannelInvariant /\ ChannelInvariant' /\ Is(t, {"send"}, "try")
  BY DEF Feeding, TrySend
<1>2. /\ k.running /\ call[t].op = "send" /\ call[t].step = "try" /\ ~Waits(k, t)
      /\ EventList = {"send", "receive"} /\ ListOf(call[t].op) = "send"
  BY <1>1, InTheCall, TwoLists DEF ListOf
<1>3. q.count \in Nat /\ q.length \in Nat /\ q.count <= q.length
  BY <1>1, SupplyFacts
<1>4. CASE q.count < q.length
  <2>1. /\ q'.length = q.length /\ q'.count = q.count + 1
        /\ q'.txLock = q.txLock /\ q'.rxLock = q.rxLock /\ Ends(t) /\ k.locks = 0
    BY <1>1, <1>4, TrySendFrame
  <2>2. PICK km : /\ Relent(H, km)
                  /\ \E H1 \in [Task -> Places] :
                       /\ Turns(H, t, 0, H1) /\ Onward(k, H, k', H1, t, 0)
                       /\ Wakened(km, H, k', H1, "receive")
    BY <1>1, <1>4, TrySendFrame
  <2>3. PICK H1 \in [Task -> Places] :
          /\ Turns(H, t, 0, H1) /\ Onward(k, H, k', H1, t, 0)
          /\ Wakened(km, H, k', H1, "receive")
    BY <2>2
  <2>4. Alone(H, t, 0, H1) /\ km.waiting = k.waiting
    BY <1>1, <2>2, <2>3, AloneFacts DEF Relent
  <2>5. \A u \in Task : call[u].step # "place"
    BY <1>1, <1>2, <2>1, NobodyPlaces
  <2>6. call'[t].step # "place"
    BY <1>1, <1>2, <2>1, EndsFacts, NoCallTypes
  <2>7. /\ Supply(q', "receive") = Supply(q, "receive") + 1
        /\ Supply(q', "send") = Supply(q, "send") - 1
        /\ Saved(q', "receive") = Saved(q, "receive") /\ Saved(q', "send") = Saved(q, "send")
        /\ Saved(q, "receive") \in Nat /\ Saved(q, "send") \in Nat
        /\ Supply(q, "receive") \in Nat /\ Supply(q, "send") \in Nat
    <3>1. /\ Supply(q', "receive") = q.count + 1 /\ Supply(q, "receive") = q.count
          /\ Supply(q', "send") = q.length - (q.count + 1)
          /\ Supply(q, "send") = q.length - q.count
      BY <2>1 DEF Supply
    <3>2. \A e : Saved(q', e) = Saved(q, e) /\ Saved(q, e) \in Nat /\ Supply(q, e) \in Nat
      BY <1>1, <2>1, SupplyFacts DEF Saved
    <3>3. QED
      BY <1>3, <3>1, <3>2
  <2>8. t \notin Trying(k, call, "receive") /\ ~Contains(k.waiting["receive"], t)
    BY <1>2 DEF Trying, Waits
  <2>9. (Supply(q', "receive") - Saved(q', "receive")) + 0
          <= (Supply(q, "receive") - Saved(q, "receive")) + 1
    BY <2>7
  <2>10. Met(k', call', q', "receive")
    BY <1>2, <2>3, <2>4, <2>5, <2>6, <2>8, <2>9, WakingFeeds
  <2>11. (Supply(q', "send") - Saved(q', "send")) + 1 <= Supply(q, "send") - Saved(q, "send")
    BY <2>7
  <2>12. Met(k', call', q', "send")
    BY <1>2, <2>3, <2>4, <2>6, <2>11, LeavingFeeds
  <2>13. QED
    BY <1>2, <2>10, <2>12 DEF FedNext
<1>5. CASE ~(q.count < q.length)
  <2>1. Supply(q, ListOf(call[t].op)) = 0
    BY <1>2, <1>3, <1>5 DEF Supply
  <2>2. QED
    BY <1>1, <1>5, <2>1, TrySendFails, FailsFeed
<1>6. QED
  BY <1>4, <1>5

-----------------------------------------------------------------------------
\* and who receives leaves room.
LEMMA TryReceiveFeeds ==
  ASSUME NEW H, Feeding(H), NEW t \in Task, TryReceive(t)
  PROVE  FedNext
<1>1. Frames(H) /\ ChannelInvariant /\ ChannelInvariant' /\ Is(t, {"receive"}, "try")
  BY DEF Feeding, TryReceive
<1>2. /\ k.running /\ call[t].op = "receive" /\ call[t].step = "try" /\ ~Waits(k, t)
      /\ EventList = {"send", "receive"} /\ ListOf(call[t].op) = "receive"
  BY <1>1, InTheCall, TwoLists DEF ListOf
<1>3. q.count \in Nat /\ q.length \in Nat /\ q.count <= q.length
  BY <1>1, SupplyFacts
<1>4. CASE q.count > 0
  <2>1. /\ q'.length = q.length /\ q'.count = q.count - 1
        /\ q'.txLock = q.txLock /\ q'.rxLock = q.rxLock /\ Ends(t) /\ k.locks = 0
    BY <1>1, <1>4, TryReceiveFrame
  <2>2. PICK H1 \in [Task -> Places] :
          /\ Turns(H, t, 0, H1) /\ Onward(k, H, k', H1, t, 0)
          /\ Wakened(k, H, k', H1, "send")
    BY <1>1, <1>4, TryReceiveFrame
  <2>3. Alone(H, t, 0, H1)
    BY <1>1, <2>2, AloneFacts
  <2>4. \A u \in Task : call[u].step # "place"
    BY <1>1, <1>2, <2>1, NobodyPlaces
  <2>5. call'[t].step # "place"
    BY <1>1, <1>2, <2>1, EndsFacts, NoCallTypes
  <2>6. /\ Supply(q', "receive") = Supply(q, "receive") - 1
        /\ Supply(q', "send") = Supply(q, "send") + 1
        /\ Saved(q', "receive") = Saved(q, "receive") /\ Saved(q', "send") = Saved(q, "send")
        /\ Saved(q, "receive") \in Nat /\ Saved(q, "send") \in Nat
        /\ Supply(q, "receive") \in Nat /\ Supply(q, "send") \in Nat
    <3>1. /\ Supply(q', "receive") = q.count - 1 /\ Supply(q, "receive") = q.count
          /\ Supply(q', "send") = q.length - (q.count - 1)
          /\ Supply(q, "send") = q.length - q.count
      BY <2>1 DEF Supply
    <3>2. \A e : Saved(q', e) = Saved(q, e) /\ Saved(q, e) \in Nat /\ Supply(q, e) \in Nat
      BY <1>1, <2>1, SupplyFacts DEF Saved
    <3>3. QED
      BY <1>3, <3>1, <3>2
  <2>7. t \notin Trying(k, call, "send") /\ ~Contains(k.waiting["send"], t)
    BY <1>2 DEF Trying, Waits
  <2>8. (Supply(q', "send") - Saved(q', "send")) + 0
          <= (Supply(q, "send") - Saved(q, "send")) + 1
    BY <2>6
  <2>9. Met(k', call', q', "send")
    BY <1>2, <2>2, <2>3, <2>4, <2>5, <2>7, <2>8, WakingFeeds
  <2>10. (Supply(q', "receive") - Saved(q', "receive")) + 1
           <= Supply(q, "receive") - Saved(q, "receive")
    BY <2>6
  <2>11. Met(k', call', q', "receive")
    BY <1>2, <2>2, <2>3, <2>5, <2>10, LeavingFeeds
  <2>12. QED
    BY <1>2, <2>9, <2>11 DEF FedNext
<1>5. CASE ~(q.count > 0)
  <2>1. Supply(q, ListOf(call[t].op)) = 0
    BY <1>2, <1>3, <1>5 DEF Supply
  <2>2. TryFails(t, "empty") /\ call[t].op # "send"
    BY <1>2, <1>5 DEF TryReceive
  <2>3. QED
    BY <1>1, <2>1, <2>2, FailsFeed
<1>6. QED
  BY <1>4, <1>5

\* A task that peeks leaves the item for another that waits to receive.
LEMMA TryPeekFeeds ==
  ASSUME NEW H, Feeding(H), NEW t \in Task, TryPeek(t)
  PROVE  FedNext
<1>1. Frames(H) /\ ChannelInvariant /\ ChannelInvariant' /\ Is(t, {"peek"}, "try")
  BY DEF Feeding, TryPeek
<1>2. /\ k.running /\ call[t].op = "peek" /\ call[t].step = "try" /\ ~Waits(k, t)
      /\ EventList = {"send", "receive"} /\ ListOf(call[t].op) = "receive"
  BY <1>1, InTheCall, TwoLists DEF ListOf
<1>3. q.count \in Nat /\ q.length \in Nat /\ q.count <= q.length
  BY <1>1, SupplyFacts
<1>4. CASE q.count > 0
  <2>1. q' = q /\ Ends(t) /\ k.locks = 0
    BY <1>1, <1>4, TryPeekFrame
  <2>2. PICK H1 \in [Task -> Places] :
          /\ Turns(H, t, 0, H1) /\ Onward(k, H, k', H1, t, 0)
          /\ Wakened(k, H, k', H1, "receive")
    BY <1>1, <1>4, TryPeekFrame
  <2>3. Alone(H, t, 0, H1)
    BY <1>1, <2>2, AloneFacts
  <2>4. \A u \in Task : call[u].step # "place"
    BY <1>1, <1>2, <2>1, NobodyPlaces
  <2>5. call'[t].step # "place"
    BY <1>1, <1>2, <2>1, EndsFacts, NoCallTypes
  <2>6. \A e : /\ Supply(q', e) = Supply(q, e) /\ Saved(q', e) = Saved(q, e)
               /\ Supply(q, e) \in Nat /\ Saved(q, e) \in Nat
    BY <1>1, <2>1, SupplyFacts
  <2>7. t \notin Trying(k, call, "send") /\ ~Contains(k.waiting["receive"], t)
    BY <1>2 DEF Trying, Waits
  <2>8. (Supply(q', "receive") - Saved(q', "receive")) + 1
          <= (Supply(q, "receive") - Saved(q, "receive")) + 1
    BY <2>6
  <2>9. Met(k', call', q', "receive")
    BY <1>2, <2>2, <2>3, <2>4, <2>5, <2>7, <2>8, WakingFeeds
  <2>10. (Supply(q', "send") - Saved(q', "send")) + 0 <= Supply(q, "send") - Saved(q, "send")
    BY <2>6
  <2>11. Met(k', call', q', "send")
    BY <1>2, <2>2, <2>3, <2>5, <2>7, <2>10, LeavingFeeds
  <2>12. QED
    BY <1>2, <2>9, <2>11 DEF FedNext
<1>5. CASE ~(q.count > 0)
  <2>1. Supply(q, ListOf(call[t].op)) = 0
    BY <1>2, <1>3, <1>5 DEF Supply
  <2>2. TryFails(t, "empty") /\ call[t].op # "send"
    BY <1>2, <1>5 DEF TryPeek
  <2>3. QED
    BY <1>1, <2>1, <2>2, FailsFeed
<1>6. QED
  BY <1>4, <1>5

-----------------------------------------------------------------------------
\* An interrupt that finds the queue unlocked wakes the first task on e; one that
\* finds it locked leaves that to the task inside.
LEMMA InterruptFeeds ==
  ASSUME NEW H, Feeding(H), k.running, call' = call, NEW e \in EventList, NEW f \in EventList,
         EventList = {e, f}, NEW lock, NEW H1, Interrupts(H, 0, H1),
         IF lock = Unlocked THEN Wakened(k, H, k', H1, e) ELSE k' = k /\ H1 = H,
         lock = Unlocked => \A u \in Task : call[u].step # "place",
         Supply(q', e) = Supply(q, e) + 1, Supply(q', f) = Supply(q, f) - 1,
         Saved(q', e) = IF lock = Unlocked THEN Saved(q, e) ELSE Saved(q, e) + 1,
         Saved(q', f) = Saved(q, f)
  PROVE  FedNext
<1>1. Frames(H) /\ ChannelInvariant /\ Idle \in Task
  BY KernelAssumption DEF Feeding
<1>2. \A g : Supply(q, g) \in Nat /\ Saved(q, g) \in Nat
  BY <1>1, SupplyFacts
<1>3. Alone(H, Idle, 0, H1) /\ Onward(k, H, k', H1, Idle, 0)
  BY <1>1, AloneFacts DEF Interrupts
<1>4. \A g \in EventList : Idle \notin Trying(k, call, g) \/ Idle \in Trying(k', call', g)
  BY <1>3 DEF Trying, Onward
<1>5. call'[Idle].step # "place"
  <2>1. at[Idle] = "task" /\ Standing(k, at, call, H, Idle)
    BY <1>1, FrameFacts
  <2>2. call[Idle] = NoCall
    BY <2>1 DEF Standing
  <2>3. QED
    BY <2>2, NoCallTypes
<1>6. (Supply(q', f) - Saved(q', f)) + 0 <= Supply(q, f) - Saved(q, f)
  BY <1>2
<1>7. Met(k', call', q', f)
  BY <1>1, <1>3, <1>4, <1>5, <1>6, LeavingFeeds
<1>8. CASE lock = Unlocked
  <2>1. (Supply(q', e) - Saved(q', e)) + 0 <= (Supply(q, e) - Saved(q, e)) + 1
    BY <1>2, <1>8
  <2>2. Met(k', call', q', e)
    BY <1>1, <1>3, <1>4, <1>5, <1>8, <2>1, WakingFeeds
  <2>3. QED
    BY <1>7, <2>2 DEF FedNext
<1>9. CASE lock # Unlocked
  <2>1. (Supply(q', e) - Saved(q', e)) + 0 <= Supply(q, e) - Saved(q, e)
    BY <1>2, <1>9
  <2>2. Met(k', call', q', e)
    BY <1>1, <1>3, <1>4, <1>5, <2>1, LeavingFeeds
  <2>3. QED
    BY <1>7, <2>2 DEF FedNext
<1>10. QED
  BY <1>8, <1>9

-----------------------------------------------------------------------------
(* Nobody is stranded                                                        *)

\* While the queue is not locked, nobody is about to place itself.
LEMMA UnlockedNobodyPlaces ==
  ASSUME NEW H, Frames(H), q.txLock = Unlocked \/ q.rxLock = Unlocked
  PROVE  \A u \in Task : call[u].step # "place"
<1>1. \A u \in Task : ~InCall(at, call, u, Latches)
  BY DEF Frames, Frame, Latched, InCall
<1>2. \A u \in Task : Standing(k, at, call, H, u)
  BY DEF Frames, Frame
<1>3. NoCall.step # "place"
  BY NoCallTypes
<1>4. QED
  BY <1>1, <1>2, <1>3 DEF InCall, Latches, Standing

\* An interrupt on a locked queue saves one more.
LEMMA BumpedSaved ==
  ASSUME NEW n \in Int, n >= -1
  PROVE  MaxOf(Bumped(n), 0) = IF n = Unlocked THEN MaxOf(n, 0) ELSE MaxOf(n, 0) + 1
BY DEF MaxOf, Bumped, Unlocked

\* What interrupts send or take is met, at once or when it is unlocked.
LEMMA InterruptsFeed ==
  ASSUME NEW H, Feeding(H), InterruptStep
  PROVE  FedNext
<1>1. Frames(H) /\ ChannelInvariant
  BY DEF Feeding
<1>2. /\ q.count \in Nat /\ q.length \in Nat /\ q.txLock \in Int /\ q.rxLock \in Int
      /\ q.txLock >= -1 /\ q.rxLock >= -1
  BY <1>1, SupplyFacts DEF Frames, Frame, Latched
<1>3. EventList = {"send", "receive"} /\ "send" \in EventList /\ "receive" \in EventList
  BY TwoLists
<1>4. CASE xQueueReceiveFromISR
  <2>1. /\ k.running /\ call' = call /\ q'.length = q.length /\ q'.count = q.count - 1
        /\ q'.txLock = q.txLock /\ q'.rxLock = Bumped(q.rxLock)
    BY <1>1, <1>4, ReceiveFromISRFrame
  <2>2. PICK H1 \in [Task -> Places] :
          /\ Interrupts(H, 0, H1)
          /\ IF q.rxLock = Unlocked THEN Wakened(k, H, k', H1, "send") ELSE k' = k /\ H1 = H
    BY <1>1, <1>4, ReceiveFromISRFrame
  <2>3. q.rxLock = Unlocked => \A u \in Task : call[u].step # "place"
    BY <1>1, UnlockedNobodyPlaces
  <2>4. /\ Supply(q', "receive") = q.count - 1 /\ Supply(q, "receive") = q.count
        /\ Supply(q', "send") = q.length - (q.count - 1)
        /\ Supply(q, "send") = q.length - q.count
    BY <2>1 DEF Supply
  <2>5. /\ Supply(q', "send") = Supply(q, "send") + 1
        /\ Supply(q', "receive") = Supply(q, "receive") - 1
    BY <1>2, <2>4
  <2>6. /\ Saved(q', "receive") = Saved(q, "receive")
        /\ Saved(q', "send")
             = IF q.rxLock = Unlocked THEN Saved(q, "send") ELSE Saved(q, "send") + 1
    BY <1>2, <2>1, BumpedSaved DEF Saved
  <2>7. EventList = {"send", "receive"}
    BY <1>3
  <2>8. QED
    BY <1>3, <2>1, <2>2, <2>3, <2>5, <2>6, <2>7, InterruptFeeds
<1>5. ASSUME NEW x \in Item, NEW front \in BOOLEAN, xQueueSendFromISR(x, front)
      PROVE  FedNext
  <2>1. /\ k.running /\ call' = call /\ q'.length = q.length /\ q'.count = q.count + 1
        /\ q'.txLock = Bumped(q.txLock) /\ q'.rxLock = q.rxLock
    BY <1>1, <1>5, SendFromISRFrame
  <2>2. PICK H1 \in [Task -> Places] :
          /\ Interrupts(H, 0, H1)
          /\ IF q.txLock = Unlocked THEN Wakened(k, H, k', H1, "receive") ELSE k' = k /\ H1 = H
    BY <1>1, <1>5, SendFromISRFrame
  <2>3. q.txLock = Unlocked => \A u \in Task : call[u].step # "place"
    BY <1>1, UnlockedNobodyPlaces
  <2>4. /\ Supply(q', "receive") = q.count + 1 /\ Supply(q, "receive") = q.count
        /\ Supply(q', "send") = q.length - (q.count + 1)
        /\ Supply(q, "send") = q.length - q.count
    BY <2>1 DEF Supply
  <2>5. /\ Supply(q', "receive") = Supply(q, "receive") + 1
        /\ Supply(q', "send") = Supply(q, "send") - 1
    BY <1>2, <2>4
  <2>6. /\ Saved(q', "send") = Saved(q, "send")
        /\ Saved(q', "receive")
             = IF q.txLock = Unlocked THEN Saved(q, "receive") ELSE Saved(q, "receive") + 1
    BY <1>2, <2>1, BumpedSaved DEF Saved
  <2>7. EventList = {"receive", "send"}
    BY <1>3
  <2>8. QED
    BY <1>3, <2>1, <2>2, <2>3, <2>5, <2>6, <2>7, InterruptFeeds
<1>6. QED
  BY <1>4, <1>5 DEF InterruptStep

\* Every step keeps it met.
LEMMA EveryStepFeeds ==
  ASSUME NEW H, Feeding(H), program \in Programs, QueuesNext
  PROVE  FedNext
<1>1. CASE TaskStep
  BY <1>1, TasksFeed
<1>2. CASE InterruptStep
  BY <1>2, InterruptsFeed
<1>3. ASSUME NEW t \in Task, QueueStep(t)
      PROVE  FedNext
  <2>1. CASE \/ CallsSend(t) \/ CallsGive(t) \/ CallsReceive(t) \/ CallsPeek(t)
             \/ TakesRecursive(t) \/ GivesRecursive(t)
    BY <2>1, CallsFeed
  <2>2. CASE TrySend(t)
    BY <2>2, TrySendFeeds
  <2>3. CASE TryReceive(t)
    BY <2>3, TryReceiveFeeds
  <2>4. CASE TryPeek(t)
    BY <2>4, TryPeekFeeds
  <2>5. CASE Suspends(t)
    BY <2>5, SuspendsFeeds
  <2>6. CASE Locks(t)
    BY <2>6, LocksFeeds
  <2>7. CASE Looks(t)
    BY <2>7, LooksFeeds
  <2>8. CASE Places1(t)
    BY <2>8, PlacesFeeds
  <2>9. CASE UnlocksTx(t) \/ UnlocksRx(t)
    BY <2>9, UnlocksFeed
  <2>10. CASE Resumes(t)
    BY <2>10, ResumesFeeds
  <2>11. CASE YieldsInCall(t)
    BY <2>11, YieldsFeeds
  <2>12. CASE BlocksAlternative(t)
    BY <2>12, BlocksFeeds
  <2>13. QED
    BY <1>3, <2>1, <2>2, <2>3, <2>4, <2>5, <2>6, <2>7, <2>8, <2>9, <2>10, <2>11, <2>12
    DEF QueueStep, CallStep
<1>4. QED
  BY <1>1, <1>2, <1>3 DEF QueuesNext

-----------------------------------------------------------------------------
\* With Fed: nobody waits for what nobody else is about to take.
FedInvariant == TimedInvariant /\ Fed

\* It is met when the program begins,
LEMMA FedBegins == QueuesInit => FedInvariant
<1> SUFFICES ASSUME QueuesInit PROVE FedInvariant
  OBVIOUS
<1>1. TimedInvariant
  BY TimedBegins
<1>2. \A e \in EventList : k.waiting[e] = <<>>
  BY DEF QueuesInit, Init, Kernel0
<1>3. \A u \in Task : call[u].step # "place"
  BY NoCallTypes DEF QueuesInit
<1>4. QED
  BY <1>1, <1>2, <1>3 DEF FedInvariant, Fed, Met, Needed, AtPlace

\* and after every step.
LEMMA FedStep == FedInvariant /\ [QueuesNext]_qvars => FedInvariant'
<1>1. ASSUME FedInvariant, QueuesNext
      PROVE  FedInvariant'
  <2>1. TimedInvariant' /\ ChannelInvariant'
    BY <1>1, TimedStep DEF FedInvariant, TimedInvariant
  <2>2. PICK H \in [Task -> Places] : Frames(H)
    BY <1>1 DEF FedInvariant, TimedInvariant
  <2>3. Feeding(H) /\ program \in Programs
    BY <1>1, <2>1, <2>2 DEF FedInvariant, TimedInvariant, Feeding
  <2>4. FedNext
    BY <1>1, <2>3, EveryStepFeeds
  <2>5. QED
    BY <2>1, <2>4 DEF FedInvariant, Fed, FedNext
<1>2. ASSUME FedInvariant, UNCHANGED qvars
      PROVE  FedInvariant'
  <2>1. TimedInvariant'
    BY <1>2, TimedStep DEF FedInvariant
  <2>2. k' = k /\ call' = call /\ q' = q
    BY <1>2 DEF qvars, vars
  <2>3. QED
    BY <1>2, <2>1, <2>2 DEF FedInvariant, Fed
<1>3. QED
  BY <1>1, <1>2

\* When all is quiet nobody tries, and no interrupt has left anything to be done.
LEMMA NobodyStranded == FedInvariant => NoStrandedWaiter
<1> SUFFICES ASSUME FedInvariant, Quiet
             PROVE  /\ q.count > 0 => k.waiting["receive"] = <<>>
                    /\ q.count < q.length => k.waiting["send"] = <<>>
  BY DEF NoStrandedWaiter
<1>1. PICK H \in [Task -> Places] : Frames(H)
  BY DEF FedInvariant, TimedInvariant
<1>2. /\ k.running /\ k.locks = 0
      /\ \A t \in Task \ {Idle} : ~IsReady(k, t, k.prio[t])
  BY DEF Quiet
<1>3. /\ Good(k, H) /\ k.pending = <<>> /\ at[Idle] = "task" /\ Idle \in Task
      /\ \A u \in Task : Standing(k, at, call, H, u)
  BY <1>1, <1>2, FrameFacts
<1>4. \A u \in Task \ {Idle} : H[u] # "ready"
  <2>1. \A u \in Task : HasPlace(k, u, H[u]) /\ k.prio[u] \in Prio
    BY <1>3 DEF Good, Kernels
  <2>2. QED
    BY <1>2, <2>1 DEF HasPlace, IsReady
<1>5. \A u : ~Contains(k.pending, u)
  BY <1>3, EmptyList
<1>6. ASSUME NEW e \in EventList
      PROVE  Trying(k, call, e) = {}
  <2>1. ASSUME NEW u \in Trying(k, call, e)
        PROVE  FALSE
    <3>1. /\ u \in Task /\ call[u].op # "none" /\ ListOf(call[u].op) = e
          /\ ~Contains(k.waiting[e], u)
      BY DEF Trying
    <3>2. at[u] = "call" /\ u # Idle
      BY <1>3, <3>1 DEF Standing
    <3>3. ~Waits(k, u)
      BY <1>3, <3>1 DEF Standing, Waits
    <3>4. H[u] = "ready"
      BY <1>3, <1>5, <3>1, <3>2, <3>3 DEF Standing
    <3>5. QED
      BY <1>4, <3>1, <3>2, <3>4
  <2>2. QED
    BY <2>1
<1>7. \A e : Saved(q, e) = 0
  <2>1. \A u \in Task : ~Holding(at, call, u)
    BY <1>2, <1>3 DEF Standing
  <2>2. \A u \in Task : ~InCall(at, call, u, Latches \cup {"unlockRx"})
    BY <2>1 DEF Holding, InCall, Inside, Latches
  <2>3. q.txLock = Unlocked /\ q.rxLock = Unlocked
    BY <1>1, <2>2 DEF Frames, Frame, Latched, InCall
  <2>4. QED
    BY <2>3 DEF Saved, MaxOf, Unlocked
<1>8. \A e \in EventList : k.waiting[e] # <<>> => Supply(q, e) <= 0
  <2>1. Cardinality({}) = 0
    BY FS_EmptySet
  <2>2. QED
    <3>1. \A e \in EventList :
            k.waiting[e] # <<>> => Supply(q, e) <= Cardinality(Trying(k, call, e)) + Saved(q, e)
      BY DEF FedInvariant, Fed, Met, Needed
    <3>2. \A e \in EventList : Cardinality(Trying(k, call, e)) + Saved(q, e) = 0
      BY <1>6, <1>7, <2>1
    <3>3. QED
      BY <3>1, <3>2
<1>9. q.count \in Nat /\ q.length \in Nat
  BY SupplyFacts DEF FedInvariant, TimedInvariant
<1>10. QED
  BY <1>8, <1>9, TwoLists DEF Supply

\* No wake-up is lost (NoStrandedWaiter).
THEOREM NobodyIsStranded == QueuesSpec => []NoStrandedWaiter
<1>1. QueuesSpec => []FedInvariant
  BY FedBegins, FedStep, PTL DEF QueuesSpec
<1>2. QED
  BY <1>1, NobodyStranded, PTL

-----------------------------------------------------------------------------
(* What a mutex lends                                                        *)

\* w will take the mutex: it is ready, about to try, and not below any task that
\* waits; and nobody below it runs.
Heir(m, c, w) ==
  /\ IsReady(m, w, m.prio[w]) /\ c[w].op = "receive" /\ c[w].step \in {"try", "yield"}
  /\ m.prio[m.current] >= m.prio[w]
  /\ \A u \in Task : Contains(m.waiting["receive"], u) => m.prio[w] >= m.prio[u]

\* Only the holder of a mutex has been lent a priority, and it has that of all who
\* wait, in the order of their priorities; while nobody holds it there is an heir.
Lending(m, c, r) ==
  r.kind \in Mutexes =>
    /\ \A u \in Task : m.prio[u] >= m.base[u] /\ (m.prio[u] # m.base[u] => r.holder = u)
    /\ \A u \in Task :
         Contains(m.waiting["receive"], u) /\ r.holder # None => m.prio[r.holder] >= m.prio[u]
    /\ InOrder(m.waiting["receive"], EventValue(m))
    /\ r.holder = None /\ m.waiting["receive"] # <<>> => \E w \in Task : Heir(m, c, w)

\* Who runs has changed for the best.
Upward(H1) == k'.current = k.current \/ Highest(k', H1)

\* Who is not below the running task is not below the next one.
LEMMA UpwardRuns ==
  ASSUME NEW H1, Upward(H1), NEW w \in Task, H1[w] = "ready", k'.prio = k.prio,
         k.prio[k.current] >= k.prio[w], k.prio \in [Task -> Prio]
  PROVE  k'.prio[k'.current] >= k'.prio[w]
<1>1. CASE k'.current = k.current
  BY <1>1
<1>2. CASE Highest(k', H1)
  <2>1. k'.current \in Task /\ k.prio[w] <= k.prio[k'.current]
    BY <1>2 DEF Highest
  <2>2. k.prio[w] \in Int /\ k.prio[k'.current] \in Int
    BY <2>1 DEF Prio
  <2>3. QED
    BY <2>1, <2>2
<1>3. QED
  BY <1>1, <1>2 DEF Upward

\* A task is on the list of its priority if it is ready.
LEMMA ReadyIs ==
  ASSUME NEW K, NEW H, Good(K, H), NEW u \in Task
  PROVE  IsReady(K, u, K.prio[u]) <=> H[u] = "ready"
<1>1. HasPlace(K, u, H[u]) /\ K.prio[u] \in Prio
  BY DEF Good, Kernels
<1>2. QED
  BY <1>1 DEF HasPlace, IsReady

\* A step in which nobody is lent anything, takes or gives.
LEMMA LendingOn ==
  ASSUME NEW H, Frames(H), Lending(k, call, q), q'.kind = q.kind, q'.holder = q.holder,
         NEW H1, Good(k', H1), k'.item = k'.prio, k'.prio = k.prio, k'.base = k.base,
         k.item = k.prio,
         \A u \in Task : Contains(k'.waiting["receive"], u) => Contains(k.waiting["receive"], u),
         \A w : InOrder(k.waiting["receive"], w) => InOrder(k'.waiting["receive"], w),
         Upward(H1),
         IsMutex /\ q.holder = None =>
           \A w \in Task :
             call[w].op = "receive" /\ call[w].step \in {"try", "yield"} /\ H[w] = "ready" =>
               /\ H1[w] = "ready" /\ call'[w].op = "receive"
               /\ call'[w].step \in {"try", "yield"}
  PROVE  Lending(k', call', q')
<1> SUFFICES ASSUME IsMutex PROVE Lending(k', call', q')
  BY DEF Lending, IsMutex
<1>1. Good(k, H) /\ k.prio \in [Task -> Prio] /\ "receive" \in EventList
  BY TwoLists DEF Frames, Frame, Good, Kernels
<1>2. /\ \A u \in Task : k.prio[u] >= k.base[u] /\ (k.prio[u] # k.base[u] => q.holder = u)
      /\ \A u \in Task :
           Contains(k.waiting["receive"], u) /\ q.holder # None => k.prio[q.holder] >= k.prio[u]
      /\ InOrder(k.waiting["receive"], EventValue(k))
      /\ q.holder = None /\ k.waiting["receive"] # <<>> => \E w \in Task : Heir(k, call, w)
  BY DEF Lending, IsMutex
<1>3. EventValue(k') = EventValue(k)
  BY DEF EventValue
<1>4. ASSUME q.holder = None, k'.waiting["receive"] # <<>>
      PROVE  \E w \in Task : Heir(k', call', w)
  <2>1. k.waiting["receive"] # <<>>
    BY <1>1, <1>4, SomeoneWaits
  <2>2. PICK w \in Task : Heir(k, call, w)
    BY <1>2, <1>4, <2>1
  <2>3. H[w] = "ready"
    BY <1>1, <2>2, ReadyIs DEF Heir
  <2>4. H1[w] = "ready" /\ call'[w].op = "receive" /\ call'[w].step \in {"try", "yield"}
    BY <1>4, <2>2, <2>3 DEF Heir
  <2>5. IsReady(k', w, k'.prio[w])
    BY <2>4, ReadyIs
  <2>6. k'.prio[k'.current] >= k'.prio[w]
    BY <1>1, <2>2, <2>4, UpwardRuns DEF Heir
  <2>7. \A u \in Task : Contains(k'.waiting["receive"], u) => k'.prio[w] >= k'.prio[u]
    BY <2>2 DEF Heir
  <2>8. QED
    BY <2>4, <2>5, <2>6, <2>7 DEF Heir
<1>5. QED
  BY <1>2, <1>3, <1>4 DEF Lending

-----------------------------------------------------------------------------
\* The step keeps the lending.
LendingNext == Lending(k', call', q')

\* t is no heir, or it remains one.
RemainsHeir(H, H1, t) ==
  \/ call[t].op # "receive" \/ call[t].step \notin {"try", "yield"}
  \/ /\ H[t] = "ready" => H1[t] = "ready"
     /\ call'[t].op = "receive" /\ call'[t].step \in {"try", "yield"}

\* The heirs among the others remain.
LEMMA OthersHeirs ==
  ASSUME NEW H, NEW t, NEW n, NEW H1, Alone(H, t, n, H1), RemainsHeir(H, H1, t)
  PROVE  \A w \in Task :
           call[w].op = "receive" /\ call[w].step \in {"try", "yield"} /\ H[w] = "ready" =>
             /\ H1[w] = "ready" /\ call'[w].op = "receive"
             /\ call'[w].step \in {"try", "yield"}
BY DEF Alone, Onward, RemainsHeir

\* Fewer wait, in the same order.
LEMMA FewerWait ==
  ASSUME NEW H, NEW H1, Frees(k, H, k', H1) \/ k'.waiting = k.waiting
  PROVE  /\ \A u \in Task : Contains(k'.waiting["receive"], u) => Contains(k.waiting["receive"], u)
         /\ \A w : InOrder(k.waiting["receive"], w) => InOrder(k'.waiting["receive"], w)
BY TwoLists DEF Frees

\* A step of t in which nobody is lent anything, takes or gives.
LEMMA LendingTurn ==
  ASSUME NEW H, Frames(H), Lending(k, call, q), q'.kind = q.kind, q'.holder = q.holder,
         NEW t \in Task, NEW n, NEW H1, Turns(H, t, n, H1), k'.prio = k.prio, k'.base = k.base,
         Frees(k, H, k', H1) \/ k'.waiting = k.waiting, Upward(H1),
         RemainsHeir(H, H1, t) \/ ~(IsMutex /\ q.holder = None)
  PROVE  LendingNext
<1>1. Good(k', H1) /\ k'.item = k'.prio /\ k.item = k.prio
  BY DEF Turns, Frame, Frames, Working
<1>2. Alone(H, t, n, H1)
  BY AloneFacts
<1>3. QED
  BY <1>1, <1>2, OthersHeirs, FewerWait, LendingOn DEF LendingNext

\* Without mutexes nothing is lent.
LEMMA NoMutexLends ==
  ASSUME ~IsMutex, q'.kind = q.kind
  PROVE  LendingNext
BY DEF LendingNext, Lending, IsMutex

\* Before the scheduler starts nobody waits.
LEMMA MainLends ==
  ASSUME NEW H, Frames(H), Lending(k, call, q), program \in Programs,
         (\E t \in Task : MainCreates(t, program.priority[t])) \/ vTaskStartScheduler,
         q' = q, call' = call
  PROVE  LendingNext
<1>1. \E t \in Task, p \in Prio :
        /\ k'.prio = [k.prio EXCEPT ![t] = p] /\ k'.base = [k.base EXCEPT ![t] = p]
        /\ k'.waiting = k.waiting /\ \A u \in Task : ~Waits(k, u)
  BY MainActs, MainFrame
<1>2. PICK t \in Task, p \in Prio :
        /\ k'.prio = [k.prio EXCEPT ![t] = p] /\ k'.base = [k.base EXCEPT ![t] = p]
        /\ k'.waiting = k.waiting /\ \A u \in Task : ~Waits(k, u)
  BY <1>1
<1>3. /\ Good(k, H) /\ "receive" \in EventList /\ k.prio \in [Task -> Prio]
      /\ k.base \in [Task -> Prio]
  BY TwoLists DEF Frames, Frame, Good, Kernels
<1>4. k'.waiting["receive"] = <<>>
  BY <1>2, <1>3, SomeoneWaits DEF Waits
<1>5. \A u, w : ~Contains(<<>>, u) /\ InOrder(<<>>, w)
  BY EmptyList
<1>6. q.kind \in Mutexes =>
        \A u \in Task : k.prio[u] >= k.base[u] /\ (k.prio[u] # k.base[u] => q.holder = u)
  BY DEF Lending
<1>7. q.kind \in Mutexes =>
        \A u \in Task : k'.prio[u] >= k'.base[u] /\ (k'.prio[u] # k'.base[u] => q.holder = u)
  <2>1. p >= p
    BY DEF Prio
  <2>2. QED
    BY <1>2, <1>3, <1>6, <2>1
<1>8. QED
  BY <1>4, <1>5, <1>7 DEF LendingNext, Lending

\* The kernel lends nothing: its ticks and switches only raise who runs.
LEMMA TasksLend ==
  ASSUME NEW H, Frames(H), Lending(k, call, q), program \in Programs, TaskStep
  PROVE  LendingNext
<1>1. q' = q /\ call' = call
  BY DEF TaskStep
<1>2. CASE (\E t \in Task : MainCreates(t, program.priority[t])) \/ vTaskStartScheduler
  BY <1>1, <1>2, MainLends
<1>3. CASE vTick
  <2>1. PICK H1 \in [Task -> Places], n \in Nat :
          /\ Interrupts(H, n, H1) /\ k'.prio = k.prio /\ k'.base = k.base
          /\ Frees(k, H, k', H1) /\ (k'.current = k.current \/ Highest(k', H1))
    BY <1>1, <1>3, TickFrame
  <2>2. Idle \in Task
    BY KernelAssumption
  <2>3. Alone(H, Idle, n, H1) /\ Onward(k, H, k', H1, Idle, n)
    BY <2>1, <2>2, AloneFacts DEF Interrupts
  <2>4. RemainsHeir(H, H1, Idle)
    BY <1>1, <2>3 DEF RemainsHeir, Onward
  <2>5. Good(k', H1) /\ k'.item = k'.prio /\ k.item = k.prio /\ Upward(H1)
    BY <2>1 DEF Interrupts, Frame, Frames, Working, Upward
  <2>6. QED
    BY <1>1, <2>1, <2>3, <2>4, <2>5, OthersHeirs, FewerWait, LendingOn DEF LendingNext
<1>4. ASSUME NEW t \in Task, Runs(t, "task") \/ at[t] # "call"
      PROVE  \A H1 : RemainsHeir(H, H1, t)
  <2>1. at[t] # "call"
    BY <1>4 DEF Runs
  <2>2. call[t].op = "none"
    BY <2>1 DEF Frames, Frame, Standing
  <2>3. QED
    BY <2>2 DEF RemainsHeir
<1>5. ASSUME NEW t \in Task, vTaskDelay(t, 1)
      PROVE  LendingNext
  <2>1. Runs(t, "task")
    BY <1>5 DEF vTaskDelay, Calls
  <2>2. k.current = t
    BY <2>1 DEF Runs
  <2>3. PICK l \in Asleep :
          /\ Turns(H, t, 0, Move(H, t, l)) /\ k'.waiting = k.waiting /\ k'.prio = k.prio
          /\ k'.base = k.base /\ k'.current = t
    BY <1>1, <1>5, DelayFrame
  <2>4. Upward(Move(H, t, l))
    BY <2>2, <2>3 DEF Upward
  <2>5. RemainsHeir(H, Move(H, t, l), t)
    BY <1>4, <2>1
  <2>6. QED
    BY <1>1, <2>3, <2>4, <2>5, LendingTurn
<1>6. ASSUME NEW t \in Task, EndsDelay(t)
      PROVE  LendingNext
  <2>1. PICK H1 \in [Task -> Places] :
           /\ Turns(H, t, k.missed, H1) /\ Frees(k, H, k', H1)
           /\ k'.prio = k.prio /\ k'.base = k.base
           /\ AlreadyYielded(k) => Highest(k', H1)
           /\ ~AlreadyYielded(k) => k'.current = k.current
           /\ at[t] # "call"
    BY <1>1, <1>6, EndsDelayFrame
  <2>2. Upward(H1)
    BY <2>1 DEF Upward
  <2>3. RemainsHeir(H, H1, t)
    BY <1>4, <2>1
  <2>4. QED
    BY <1>1, <2>1, <2>2, <2>3, LendingTurn
<1>7. ASSUME NEW t \in Task, Yields(t)
      PROVE  LendingNext
  <2>1. /\ Turns(H, t, 0, H) /\ Highest(k', H) /\ k'.prio = k.prio /\ k'.base = k.base
        /\ k'.waiting = k.waiting /\ at[t] # "call"
    BY <1>1, <1>7, YieldsFrame
  <2>2. Upward(H)
    BY <2>1 DEF Upward
  <2>3. RemainsHeir(H, H, t)
    BY <1>4, <2>1
  <2>4. QED
    BY <1>1, <2>1, <2>2, <2>3, LendingTurn
<1>8. QED
  BY <1>2, <1>3, <1>5, <1>6, <1>7 DEF TaskStep

-----------------------------------------------------------------------------
\* A task elsewhere in its call is no heir.
LEMMA NoHeir ==
  ASSUME NEW t, call[t].op # "receive" \/ call[t].step \notin {"try", "yield"}
  PROVE  \A H, H1 : RemainsHeir(H, H1, t)
BY DEF RemainsHeir

\* Nor is anything lent when calls begin,
LEMMA CallsLend ==
  ASSUME NEW H, Frames(H), Lending(k, call, q), ChannelInvariant, program \in Programs,
         NEW t \in Task,
         \/ CallsSend(t) \/ CallsGive(t) \/ CallsReceive(t) \/ CallsPeek(t)
         \/ TakesRecursive(t) \/ GivesRecursive(t)
  PROVE  LendingNext
<1>1. k' = k /\ Runs(t, "task") /\ q'.kind = q.kind /\ q'.holder = q.holder
  BY CallsLeave
<1>2. Turns(H, t, 0, H)
  BY CallsFrame, RecursiveFrame
<1>3. call[t].op = "none"
  BY <1>1, InOwnCode
<1>4. RemainsHeir(H, H, t) /\ Upward(H)
  BY <1>1, <1>3, NoHeir DEF Upward
<1>5. QED
  BY <1>1, <1>2, <1>4, LendingTurn

\* The steps that leave the event lists alone.
LEMMA QuietsLend ==
  ASSUME NEW H, Frames(H), Lending(k, call, q), ChannelInvariant, NEW t \in Task,
         Suspends(t) \/ Locks(t) \/ Looks(t)
  PROVE  LendingNext
<1>1. Turns(H, t, 0, H)
  BY SuspendsFrame, LocksFrame, LooksFrame
<1>2. /\ q'.kind = q.kind /\ q'.holder = q.holder
      /\ k'.prio = k.prio /\ k'.base = k.base /\ k'.waiting = k.waiting
  BY SuspendsFrame, LocksFrame, LooksFrame
<1>3. k.current = t /\ call[t].step \in {"suspend", "lock", "look"}
  BY InTheCall DEF Suspends, Locks, Looks
<1>4. k'.current = t
  BY <1>3, SuspendsFrame, LocksFrame, LooksFrame
<1>5. RemainsHeir(H, H, t) /\ Upward(H)
  BY <1>3, <1>4, NoHeir DEF Upward
<1>6. QED
  BY <1>1, <1>2, <1>5, LendingTurn

\* when others are woken,
LEMMA UnlocksLend ==
  ASSUME NEW H, Frames(H), Lending(k, call, q), ChannelInvariant, NEW t \in Task,
         UnlocksTx(t) \/ UnlocksRx(t)
  PROVE  LendingNext
<1>1. Turns(H, t, 0, H) /\ Frees(k, H, k', H)
  BY UnlocksTxFrame, UnlocksRxFrame
<1>2. /\ q'.kind = q.kind /\ q'.holder = q.holder
      /\ k'.prio = k.prio /\ k'.base = k.base /\ k'.current = t
  BY UnlocksTxFrame, UnlocksRxFrame
<1>3. k.current = t /\ call[t].step \in {"unlockTx", "unlockRx"}
  BY InTheCall DEF UnlocksTx, UnlocksRx
<1>4. RemainsHeir(H, H, t) /\ Upward(H)
  BY <1>2, <1>3, NoHeir DEF Upward
<1>5. QED
  BY <1>1, <1>2, <1>4, LendingTurn

\* when the scheduler is resumed,
LEMMA ResumesLend ==
  ASSUME NEW H, Frames(H), Lending(k, call, q), NEW t \in Task, Resumes(t)
  PROVE  LendingNext
<1>1. PICK H1 \in [Task -> Places] :
        /\ Turns(H, t, k.missed, H1) /\ Frees(k, H, k', H1)
        /\ k'.prio = k.prio /\ k'.base = k.base /\ q' = q
        /\ AlreadyYielded(k) => Highest(k', H1)
        /\ ~AlreadyYielded(k) => k'.current = k.current
  BY ResumesFrame
<1>2. call[t].step = "resume"
  BY InTheCall DEF Resumes
<1>3. RemainsHeir(H, H1, t) /\ Upward(H1)
  BY <1>1, <1>2, NoHeir DEF Upward
<1>4. QED
  BY <1>1, <1>3, LendingTurn

\* when who is to take the mutex yields,
LEMMA YieldsLend ==
  ASSUME NEW H, Frames(H), Lending(k, call, q), NEW t \in Task, YieldsInCall(t)
  PROVE  LendingNext
<1>1. /\ Turns(H, t, 0, H) /\ Highest(k', H) /\ Continues(t, StepTo(call[t], "try"))
      /\ k'.prio = k.prio /\ k'.base = k.base /\ k'.waiting = k.waiting /\ q' = q
  BY YieldsInCallFrame
<1>2. k.running /\ call[t] \in AllCalls /\ "try" \in Steps
  BY InTheCall DEF YieldsInCall, Frames, Frame, Steps
<1>3. call'[t].op = call[t].op /\ call'[t].step = "try"
  BY <1>1, <1>2, ContinuesFacts, StepFields
<1>4. RemainsHeir(H, H, t) /\ Upward(H)
  BY <1>1, <1>3 DEF RemainsHeir, Upward
<1>5. QED
  BY <1>1, <1>4, LendingTurn

\* or when the mutex is found to be held.
LEMMA FailsLend ==
  ASSUME NEW H, Frames(H), Lending(k, call, q), NEW t \in Task, NEW op, Is(t, op, "try"),
         NEW why, TryFails(t, why), q.kind \in Mutexes => call[t].op # "send" /\ q.count = 0
  PROVE  LendingNext
<1>1. Turns(H, t, 0, H) /\ k' = k /\ q' = q
  BY TryFailsFrame
<1>2. IsMutex => q.holder # None
  BY DEF Frames, Frame, Owned, IsMutex
<1>3. Upward(H)
  BY <1>1 DEF Upward
<1>4. QED
  BY <1>1, <1>2, <1>3, LendingTurn

-----------------------------------------------------------------------------
\* A list is as much in order by values that are the same for all in it.
LEMMA OrderAgrees ==
  ASSUME NEW s \in Seq(Task), NEW w, NEW w1, InOrder(s, w),
         \A u \in Task : Contains(s, u) => w1[u] = w[u]
  PROVE  InOrder(s, w1)
<1>1. \A i \in 1 .. Len(s) : s[i] \in Task /\ Contains(s, s[i])
  BY ElementOfSeq DEF Contains
<1>2. QED
  BY <1>1 DEF InOrder

\* Nobody in a list comes before its head.
LEMMA HeadIsFirst ==
  ASSUME NEW s \in Seq(Task), NEW w \in [Task -> Int], InOrder(s, w), NEW u \in Task, Contains(s, u)
  PROVE  Head(s) \in Task /\ w[Head(s)] <= w[u]
<1>1. PICK i \in 1 .. Len(s) : s[i] = u
  BY DEF Contains
<1>2. Len(s) \in Nat /\ s # <<>> /\ 1 \in 1 .. Len(s)
  BY <1>1, LenProperties, EmptySeq
<1>3. Head(s) = s[1] /\ s[1] \in Task
  BY <1>2, HeadTailProperties, ElementOfSeq
<1>4. CASE i = 1
  BY <1>1, <1>3, <1>4
<1>5. CASE 1 < i
  BY <1>1, <1>2, <1>3, <1>5 DEF InOrder
<1>6. QED
  BY <1>2, <1>4, <1>5

\* The order of an event list is that of the priorities.
LEMMA ValueOf ==
  ASSUME NEW K \in Kernels, K.item = K.prio
  PROVE  /\ EventValue(K) \in [Task -> Int]
         /\ \A u \in Task : EventValue(K)[u] = Priorities - K.prio[u]
         /\ \A u, v \in Task : EventValue(K)[u] <= EventValue(K)[v] <=> K.prio[u] >= K.prio[v]
<1>1. \A u \in Task : K.prio[u] \in Int
  BY DEF Kernels, Prio
<1>2. Priorities \in Int
  BY KernelAssumption
<1>3. QED
  BY <1>1, <1>2 DEF EventValue

\* The current task waits for the mutex, and its holder is lent its priority.
LEMMA PlacedLends ==
  ASSUME NEW H, Frames(H), Lending(k, call, q), q' = q, IsMutex, q.holder \in Task,
         NEW t \in Task, call[t].op = "receive", q.holder # t, NEW l, NEW n, Placed(H, t, k', l, n),
         Good(k', Move(H, t, l))
  PROVE  LendingNext
<1> DEFINE h == q.holder
           s == k.waiting["receive"]
<1>1. /\ k \in Kernels /\ k' \in Kernels /\ Good(k, H) /\ "receive" \in EventList
      /\ ListOf("receive") = "receive" /\ k.item = k.prio
  BY TwoLists DEF Frames, Frame, Good, Working, ListOf
<1>2. k.prio \in [Task -> Prio] /\ k.base \in [Task -> Prio] /\ s \in Seq(Task)
  BY <1>1 DEF Kernels, Lists
<1>3. /\ \A u \in Task : k.prio[u] >= k.base[u] /\ (k.prio[u] # k.base[u] => h = u)
      /\ \A u \in Task : Contains(s, u) => k.prio[h] >= k.prio[u]
      /\ InOrder(s, EventValue(k))
  <2>1. q.holder # None
    BY KernelAssumption
  <2>2. QED
    BY <2>1 DEF Lending, IsMutex
<1>4. /\ k'.prio = [k.prio EXCEPT ![h] = MaxOf(k.prio[h], k.prio[t])] /\ k'.base = k.base
      /\ k'.item = k'.prio
      /\ \A u : Contains(k'.waiting["receive"], u) <=> Contains(s, u) \/ u = t
      /\ InOrder(s, EventValue(k')) => InOrder(k'.waiting["receive"], EventValue(k'))
  BY <1>1 DEF Placed
<1>5. \A u \in Task : k.prio[u] \in Int /\ k.base[u] \in Int
  BY <1>2 DEF Prio
<1>6. /\ k'.prio[h] >= k.prio[h] /\ k'.prio[h] >= k.prio[t] /\ k'.prio[h] \in Int
      /\ \A u \in Task \ {h} : k'.prio[u] = k.prio[u]
  BY <1>2, <1>4, <1>5 DEF MaxOf
<1>7. \A u \in Task : Contains(s, u) => u # h
  <2>1. ASSUME NEW u \in Task, Contains(s, u)
        PROVE  u # h
    <3>1. call[u].op # "none" /\ ListOf(call[u].op) = "receive"
      BY <1>1, <2>1, WaitersStand
    <3>2. call[u].op # "send" /\ call[u].op # "peek" /\ call[u] \in AllCalls
      BY <1>1, <3>1 DEF ListOf, Frames, Frame, Owned, IsMutex
    <3>3. call[u].op = "receive"
      BY <3>1, <3>2, CallFields
    <3>4. QED
      BY <3>3 DEF Frames, Frame, Owned, IsMutex
  <2>2. QED
    BY <2>1
<1>8. \A u \in Task : k'.prio[u] >= k'.base[u] /\ (k'.prio[u] # k'.base[u] => h = u)
  <2>1. \A u \in Task \ {h} : k'.prio[u] >= k'.base[u] /\ k'.prio[u] = k'.base[u]
    BY <1>3, <1>4, <1>6
  <2>2. k'.prio[h] >= k'.base[h]
    BY <1>3, <1>4, <1>5, <1>6
  <2>3. QED
    BY <2>1, <2>2
<1>9. ASSUME NEW u \in Task, Contains(k'.waiting["receive"], u)
      PROVE  k'.prio[h] >= k'.prio[u]
  <2>1. CASE u = t
    BY <1>6, <2>1
  <2>2. CASE Contains(s, u)
    BY <1>3, <1>5, <1>6, <1>7, <2>2
  <2>3. QED
    BY <1>4, <1>9, <2>1, <2>2
<1>10. InOrder(k'.waiting["receive"], EventValue(k'))
  <2>1. \A u \in Task : Contains(s, u) => EventValue(k')[u] = EventValue(k)[u]
    <3>1. \A u \in Task : EventValue(k)[u] = Priorities - k.prio[u]
      BY <1>1, ValueOf
    <3>2. \A u \in Task : EventValue(k')[u] = Priorities - k'.prio[u]
      BY <1>1, <1>4, ValueOf
    <3>3. QED
      BY <1>6, <1>7, <3>1, <3>2
  <2>2. QED
    BY <1>2, <1>3, <1>4, <2>1, OrderAgrees
<1>11. q'.holder # None
  BY KernelAssumption
<1>12. QED
  BY <1>8, <1>9, <1>10, <1>11 DEF LendingNext, Lending

-----------------------------------------------------------------------------
\* Who waits for a mutex, or is about to, receives, and does not hold it.
LEMMA WaitsToReceive ==
  ASSUME NEW H, Frames(H), IsMutex, NEW t \in Task, call[t].op \in Waiters, call[t].step # "try"
  PROVE  call[t].op = "receive" /\ q.holder # t
BY DEF Frames, Frame, Owned, IsMutex, Waiters

\* A task that waits lends its priority, with the scheduler suspended
LEMMA PlacesLend ==
  ASSUME NEW H, Frames(H), Lending(k, call, q), ChannelInvariant, NEW t \in Task, Places1(t)
  PROVE  LendingNext
<1>1. PICK l \in Stopped :
        /\ Turns(H, t, 0, Move(H, t, l)) /\ Placed(H, t, k', l, call[t].ticks)
        /\ IsMutex => q.holder \in Task
        /\ q' = q
  BY PlacesFrame
<1>2. call[t].op \in Waiters /\ call[t].step = "place"
  BY InTheCall DEF Places1
<1>3. CASE IsMutex
  <2>1. call[t].op = "receive" /\ q.holder # t
    BY <1>2, <1>3, WaitsToReceive
  <2>2. Good(k', Move(H, t, l))
    BY <1>1 DEF Turns, Frame
  <2>3. QED
    BY <1>1, <1>3, <2>1, <2>2, PlacedLends
<1>4. QED
  BY <1>1, <1>3, NoMutexLends

\* or in one critical section.
LEMMA BlocksLend ==
  ASSUME NEW H, Frames(H), Lending(k, call, q), ChannelInvariant, NEW t \in Task,
         BlocksAlternative(t)
  PROVE  LendingNext
<1>1. call[t].op \in Waiters /\ call[t].step = "block" /\ q' = q
  BY InTheCall, BlocksFrame DEF BlocksAlternative
<1>2. CASE k' = k /\ Turns(H, t, 0, H)
  <2>1. RemainsHeir(H, H, t) /\ Upward(H)
    BY <1>1, <1>2, NoHeir DEF Upward
  <2>2. QED
    BY <1>1, <1>2, <2>1, LendingTurn
<1>3. ASSUME IsMutex, q.holder \in Task,
             NEW l \in Stopped, Turns(H, t, 0, Move(H, t, l)),
             Placed(H, t, k', l, Deducted(t).ticks)
      PROVE  LendingNext
  <2>1. call[t].op = "receive" /\ q.holder # t
    BY <1>1, <1>3, WaitsToReceive
  <2>2. Good(k', Move(H, t, l))
    BY <1>3 DEF Turns, Frame
  <2>3. QED
    BY <1>1, <1>3, <2>1, <2>2, PlacedLends
<1>4. CASE ~IsMutex
  BY <1>1, <1>4, NoMutexLends
<1>5. QED
  BY <1>2, <1>3, <1>4, BlocksFrame

\* The task that takes a free mutex is not below those that wait.
LEMMA TryReceiveLends ==
  ASSUME NEW H, Frames(H), Lending(k, call, q), ChannelInvariant, NEW t \in Task, TryReceive(t)
  PROVE  LendingNext
<1>1. Is(t, {"receive"}, "try")
  BY DEF TryReceive
<1>2. k.running /\ k.current = t /\ call[t].op = "receive"
  BY <1>1, InTheCall
<1>3. /\ Good(k, H) /\ "receive" \in EventList /\ k.item = k.prio
      /\ k.prio \in [Task -> Prio] /\ None \notin Task
  BY TwoLists, KernelAssumption DEF Frames, Frame, Good, Kernels, Working
<1>4. CASE ~(q.count > 0)
  <2>1. TryFails(t, "empty") /\ q.count = 0
    BY <1>4, SupplyFacts DEF TryReceive
  <2>2. QED
    BY <1>1, <1>2, <2>1, FailsLend
<1>5. CASE q.count > 0 /\ ~IsMutex
  BY <1>5, TryReceiveFrame, NoMutexLends
<1>6. CASE q.count > 0 /\ IsMutex
  <2>1. q.holder = None /\ q'.holder = t
    BY <1>6, TryReceiveFrame
  <2>2. PICK H1 \in [Task -> Places] : Wakened(k, H, k', H1, "send")
    BY <1>6, TryReceiveFrame
  <2>3. /\ k'.prio = k.prio /\ k'.base = k.base /\ k'.item = k.item
        /\ \A u \in Task : Contains(k'.waiting["receive"], u) => Contains(k.waiting["receive"], u)
        /\ InOrder(k.waiting["receive"], EventValue(k)) => InOrder(k'.waiting["receive"], EventValue(k))
    BY <1>3, <2>2 DEF Wakened, Frees, Fixed
  <2>4. EventValue(k') = EventValue(k)
    BY <2>3 DEF EventValue
  <2>5. /\ \A u \in Task : k.prio[u] >= k.base[u] /\ k.prio[u] = k.base[u]
        /\ InOrder(k.waiting["receive"], EventValue(k))
        /\ k.waiting["receive"] # <<>> => \E w \in Task : Heir(k, call, w)
    BY <1>3, <1>6, <2>1 DEF Lending, IsMutex
  <2>6. ASSUME NEW u \in Task, Contains(k.waiting["receive"], u)
        PROVE  k.prio[t] >= k.prio[u]
    <3>1. PICK w \in Task : Heir(k, call, w)
      BY <1>3, <2>5, <2>6, SomeoneWaits
    <3>2. k.prio[t] >= k.prio[w] /\ k.prio[w] >= k.prio[u]
      BY <1>2, <2>6, <3>1 DEF Heir
    <3>3. k.prio[t] \in Int /\ k.prio[w] \in Int /\ k.prio[u] \in Int
      BY <1>3 DEF Prio
    <3>4. QED
      BY <3>2, <3>3
  <2>7. QED
    BY <1>3, <2>1, <2>3, <2>4, <2>5, <2>6 DEF LendingNext, Lending
<1>7. QED
  BY <1>4, <1>5, <1>6

\* Nobody peeks at a mutex.
LEMMA TryPeekLends ==
  ASSUME NEW H, Frames(H), Lending(k, call, q), ChannelInvariant, NEW t \in Task, TryPeek(t)
  PROVE  LendingNext
<1>1. Is(t, {"peek"}, "try")
  BY DEF TryPeek
<1>2. ~IsMutex
  BY <1>1, InTheCall DEF Frames, Frame, Owned, IsMutex
<1>3. q' = q
  BY <1>1, TryPeekFrame, TryFailsFrame, InTheCall DEF TryPeek
<1>4. QED
  BY <1>2, <1>3, NoMutexLends

-----------------------------------------------------------------------------
\* Who waits for a mutex while the scheduler runs has yielded, or is to.
LEMMA WaitsForMutex ==
  ASSUME NEW H, Frames(H), IsMutex, k.running, k.locks = 0,
         NEW w \in Task, Contains(k.waiting["receive"], w)
  PROVE  call[w].op = "receive" /\ call[w].step \in {"try", "yield"}
<1>1. "receive" \in EventList /\ call[w] \in AllCalls /\ Standing(k, at, call, H, w)
  BY TwoLists DEF Frames, Frame
<1>2. call[w].op # "none" /\ call[w].step \in After /\ ListOf(call[w].op) = "receive"
  BY <1>1, WaitersStand
<1>3. call[w].op # "send" /\ call[w].op # "peek"
  BY <1>2 DEF ListOf, Frames, Frame, Owned, IsMutex
<1>4. call[w].op = "receive"
  BY <1>1, <1>2, <1>3, CallFields
<1>5. at[w] = "call" /\ ~Holding(at, call, w)
  BY <1>1, <1>2 DEF Standing
<1>6. call[w].step \notin Inside
  BY <1>5 DEF Holding, InCall
<1>7. QED
  BY <1>2, <1>4, <1>6 DEF After, Inside

\* The first that waits is woken when the mutex is given, and will take it.
LEMMA GivingLends ==
  ASSUME NEW H, Frames(H), Lending(k, call, q), ChannelInvariant, NEW t \in Task, TrySend(t),
         q.count < q.length, IsMutex
  PROVE  LendingNext
<1> DEFINE s == k.waiting["receive"]
<1>1. Is(t, {"send"}, "try")
  BY DEF TrySend
<1>2. k.running /\ k.current = t /\ ~Waits(k, t)
  BY <1>1, InTheCall
<1>3. /\ k \in Kernels /\ Good(k, H) /\ "receive" \in EventList /\ k.item = k.prio
      /\ None \notin Task /\ k.prio \in [Task -> Prio] /\ k.base \in [Task -> Prio]
      /\ s \in Seq(Task)
  BY TwoLists, KernelAssumption DEF Frames, Frame, Good, Kernels, Working, Lists
<1>4. /\ q.holder = t /\ q'.holder = None /\ k.locks = 0 /\ q'.kind = q.kind
      /\ \E km : /\ Relent(H, km)
                 /\ km.prio = [k.prio EXCEPT ![t] = k.base[t]]
                 /\ \E H1 \in [Task -> Places] :
                      Turns(H, t, 0, H1) /\ Wakened(km, H, k', H1, "receive")
  BY TrySendFrame DEF IsMutex, Mutexes
<1>5. PICK km : /\ Relent(H, km)
                /\ km.prio = [k.prio EXCEPT ![t] = k.base[t]]
                /\ \E H1 \in [Task -> Places] :
                     Turns(H, t, 0, H1) /\ Wakened(km, H, k', H1, "receive")
  BY <1>4
<1>6. PICK H1 \in [Task -> Places] : Turns(H, t, 0, H1) /\ Wakened(km, H, k', H1, "receive")
  BY <1>5
<1>7. /\ km.waiting = k.waiting /\ km.base = k.base /\ km.item = km.prio /\ km.locks = 0
      /\ k'.prio = km.prio /\ k'.base = k.base /\ k'.item = k'.prio /\ Good(k', H1)
      /\ k' \in Kernels
  BY <1>4, <1>5, <1>6 DEF Relent, Wakened, Fixed, Good
<1>8. /\ \A u \in Task : Contains(k'.waiting["receive"], u) => Contains(s, u)
      /\ \A w : InOrder(s, w) => InOrder(k'.waiting["receive"], w)
  BY <1>3, <1>6, <1>7 DEF Wakened, Frees
<1>9. /\ \A u \in Task : k.prio[u] # k.base[u] => u = t
      /\ InOrder(s, EventValue(k))
  BY <1>4 DEF Lending, IsMutex
<1>10. \A u \in Task : k'.prio[u] = k'.base[u] /\ k'.prio[u] >= k'.base[u] /\ k'.prio[u] \in Int
  <2>1. \A u \in Task : k'.prio[u] = k.base[u]
    BY <1>3, <1>5, <1>7, <1>9
  <2>2. \A u \in Task : k.base[u] \in Int
    BY <1>3 DEF Prio
  <2>3. QED
    BY <1>7, <2>1, <2>2
<1>11. \A u \in Task : Contains(s, u) => u # t /\ k'.prio[u] = k.prio[u]
  BY <1>2, <1>3, <1>5, <1>7 DEF Waits
<1>12. InOrder(k'.waiting["receive"], EventValue(k'))
  <2>1. \A u \in Task : EventValue(k)[u] = Priorities - k.prio[u]
    BY <1>3, ValueOf
  <2>2. \A u \in Task : EventValue(k')[u] = Priorities - k'.prio[u]
    BY <1>7, ValueOf
  <2>3. \A u \in Task : Contains(s, u) => EventValue(k')[u] = EventValue(k)[u]
    BY <1>11, <2>1, <2>2
  <2>4. QED
    BY <1>3, <1>8, <1>9, <2>3, OrderAgrees
<1>13. ASSUME k'.waiting["receive"] # <<>>
       PROVE  \E w \in Task : Heir(k', call', w)
  <2>1. s # <<>>
    BY <1>3, <1>7, <1>8, <1>13, SomeoneWaits
  <2>2. PICK w \in Task :
          /\ Contains(s, w) /\ w = Head(s)
          /\ H1[w] = "ready" /\ k'.prio[k'.current] >= k'.prio[w]
    BY <1>6, <1>7, <2>1 DEF Wakened
  <2>3. call[w].op = "receive" /\ call[w].step \in {"try", "yield"}
    BY <1>2, <1>4, <2>2, WaitsForMutex
  <2>4. call'[w] = call[w]
    BY <1>6, <1>11, <2>2 DEF Turns
  <2>5. IsReady(k', w, k'.prio[w])
    BY <1>7, <2>2, ReadyIs
  <2>6. ASSUME NEW u \in Task, Contains(k'.waiting["receive"], u)
        PROVE  k'.prio[w] >= k'.prio[u]
    <3>1. Contains(s, u)
      BY <1>8, <2>6
    <3>2. EventValue(k) \in [Task -> Int]
      BY <1>3, ValueOf
    <3>3. EventValue(k)[w] <= EventValue(k)[u]
      BY <1>3, <1>9, <2>2, <3>1, <3>2, HeadIsFirst
    <3>4. k.prio[w] >= k.prio[u]
      BY <1>3, <3>3, ValueOf
    <3>5. QED
      BY <1>11, <2>2, <3>1, <3>4
  <2>7. QED
    BY <2>2, <2>3, <2>4, <2>5, <2>6 DEF Heir
<1>14. QED
  BY <1>4, <1>10, <1>12, <1>13 DEF LendingNext, Lending

\* Who sends gives the mutex, or sends to what is no mutex.
LEMMA TrySendLends ==
  ASSUME NEW H, Frames(H), Lending(k, call, q), ChannelInvariant, NEW t \in Task, TrySend(t)
  PROVE  LendingNext
<1>1. CASE q.count < q.length /\ IsMutex
  BY <1>1, GivingLends
<1>2. CASE q.count < q.length /\ ~IsMutex
  BY <1>2, TrySendFrame, NoMutexLends
<1>3. CASE ~(q.count < q.length)
  <2>1. TryFails(t, "full") /\ Is(t, {"send"}, "try") /\ (q.kind \in Mutexes => call[t].op # "send")
    BY <1>3, TrySendFails
  <2>2. ~IsMutex /\ q' = q
    BY <2>1, InTheCall, TryFailsFrame DEF IsMutex
  <2>3. QED
    BY <2>2, NoMutexLends
<1>4. QED
  BY <1>1, <1>2, <1>3

-----------------------------------------------------------------------------
\* Interrupts do not use mutexes.
LEMMA InterruptsLend ==
  ASSUME NEW H, Frames(H), ChannelInvariant, InterruptStep
  PROVE  LendingNext
<1>1. ~IsMutex /\ q'.kind = q.kind
  BY SendFromISRFrame, ReceiveFromISRFrame DEF InterruptStep
<1>2. QED
  BY <1>1, NoMutexLends

\* Every step keeps the lending.
LEMMA EveryStepLends ==
  ASSUME NEW H, Frames(H), Lending(k, call, q), ChannelInvariant, program \in Programs,
         QueuesNext
  PROVE  LendingNext
<1>1. CASE TaskStep
  BY <1>1, TasksLend
<1>2. CASE InterruptStep
  BY <1>2, InterruptsLend
<1>3. ASSUME NEW t \in Task, QueueStep(t)
      PROVE  LendingNext
  <2>1. CASE \/ CallsSend(t) \/ CallsGive(t) \/ CallsReceive(t) \/ CallsPeek(t)
             \/ TakesRecursive(t) \/ GivesRecursive(t)
    BY <2>1, CallsLend
  <2>2. CASE TrySend(t)
    BY <2>2, TrySendLends
  <2>3. CASE TryReceive(t)
    BY <2>3, TryReceiveLends
  <2>4. CASE TryPeek(t)
    BY <2>4, TryPeekLends
  <2>5. CASE Suspends(t) \/ Locks(t) \/ Looks(t)
    BY <2>5, QuietsLend
  <2>6. CASE Places1(t)
    BY <2>6, PlacesLend
  <2>7. CASE UnlocksTx(t) \/ UnlocksRx(t)
    BY <2>7, UnlocksLend
  <2>8. CASE Resumes(t)
    BY <2>8, ResumesLend
  <2>9. CASE YieldsInCall(t)
    BY <2>9, YieldsLend
  <2>10. CASE BlocksAlternative(t)
    BY <2>10, BlocksLend
  <2>11. QED
    BY <1>3, <2>1, <2>2, <2>3, <2>4, <2>5, <2>6, <2>7, <2>8, <2>9, <2>10
    DEF QueueStep, CallStep
<1>4. QED
  BY <1>1, <1>2, <1>3 DEF QueuesNext

-----------------------------------------------------------------------------
\* With Lending: who holds the mutex has the priority of all who wait for it.
LentInvariant == TimedInvariant /\ Lending(k, call, q)

\* It holds when the program begins,
LEMMA LentBegins == QueuesInit => LentInvariant
<1> SUFFICES ASSUME QueuesInit PROVE LentInvariant
  OBVIOUS
<1>1. TimedInvariant
  BY TimedBegins
<1>2. /\ k.waiting["receive"] = <<>> /\ \A u \in Task : k.prio[u] = 0 /\ k.base[u] = 0
  BY TwoLists DEF QueuesInit, Init, Kernel0
<1>3. \A u, w : ~Contains(<<>>, u) /\ InOrder(<<>>, w)
  BY EmptyList
<1>4. QED
  BY <1>1, <1>2, <1>3 DEF LentInvariant, Lending

\* and after every step,
LEMMA LentStep == LentInvariant /\ [QueuesNext]_qvars => LentInvariant'
<1>1. ASSUME LentInvariant, QueuesNext
      PROVE  LentInvariant'
  <2>1. TimedInvariant'
    BY <1>1, TimedStep DEF LentInvariant
  <2>2. PICK H \in [Task -> Places] : Frames(H)
    BY <1>1 DEF LentInvariant, TimedInvariant
  <2>3. ChannelInvariant /\ program \in Programs /\ Lending(k, call, q)
    BY <1>1 DEF LentInvariant, TimedInvariant
  <2>4. LendingNext
    BY <1>1, <2>2, <2>3, EveryStepLends
  <2>5. QED
    BY <2>1, <2>4 DEF LentInvariant, LendingNext
<1>2. ASSUME LentInvariant, UNCHANGED qvars
      PROVE  LentInvariant'
  <2>1. TimedInvariant'
    BY <1>2, TimedStep DEF LentInvariant
  <2>2. k' = k /\ call' = call /\ q' = q
    BY <1>2 DEF qvars, vars
  <2>3. QED
    BY <1>2, <2>1, <2>2 DEF LentInvariant
<1>3. QED
  BY <1>1, <1>2

\* and says who inherits.
LEMMA LentInherits == LentInvariant => Inheritance
BY DEF LentInvariant, Lending, Inheritance, IsMutex, WaitsOn

\* The holder of a mutex has the priority of all who wait for it, and only it has been
\* lent one (Inheritance), although it may itself be away, and calls give up.
THEOREM AlwaysInherits == QueuesSpec => []Inheritance
<1>1. QueuesSpec => []LentInvariant
  BY LentBegins, LentStep, PTL DEF QueuesSpec
<1>2. QED
  BY <1>1, LentInherits, PTL
=============================================================================
