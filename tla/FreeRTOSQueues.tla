--------------------------- MODULE FreeRTOSQueues ---------------------------
(***************************************************************************)
(* A FreeRTOS queue (queue.c) and the tasks and interrupts that use it: as *)
(* a queue of items, as a semaphore, or as a mutex that lends its holder   *)
(* the priority of those who wait.                                         *)
(*                                                                         *)
(* A call that may block tries in a critical section.  If it cannot go on  *)
(* it suspends the scheduler, locks the queue, looks whether its time is   *)
(* over and whether the queue is still full or empty, places itself on the *)
(* event list, unlocks the queue, first for what was sent and then for     *)
(* what was received meanwhile, resumes the scheduler, yields and tries    *)
(* again.  Interrupts come between any two of these steps.                 *)
(***************************************************************************)
EXTENDS FreeRTOSTasks, FiniteSets

CONSTANTS Item,        (* the items sent                                   *)
          Length,      (* uxLength, or the limit of the semaphore          *)
          Programs,    (* the programs that use the queue                  *)
          MaxLocked,   (* messages through interrupts while it is locked   *)
          MaxDepth     (* how often a recursive mutex is taken             *)

Interrupt == "isr"

\* What a user does: it sends to the back or the front, receives or peeks (gives
\* and takes what is no queue), or delays for a tick.
Uses == {"send", "front", "receive", "peek", "nap"}

\* A program is a record: the kind of queue, whether it is used by the alternative
\* API, the priorities of the tasks, what each user does, and the ticks calls wait.
\* The tasks can be counted, the interrupt is none of them, and no answer of a call
\* is taken for an item.
ASSUME QueuesAssumption ==
  /\ EventList = {"send", "receive"} /\ IsFiniteSet(Task) /\ Interrupt \notin Task
  /\ Length \in Nat \ {0} /\ None \notin Item
  /\ \A x \in Item \cup {None} : x \notin {"sent", "full", "empty"}
  /\ \A u \in Task, why \in {"full", "empty"} : None # [to |-> u, says |-> why]
  /\ \A p \in Programs :
       /\ p.kind \in {"queue", "semaphore", "mutex", "recursive"}
       /\ p.alternative \in BOOLEAN /\ p.priority \in [Task -> Prio]
       /\ p.waits \subseteq 0 .. MaxDelay
       /\ \A u \in Task \cup {Interrupt} : p.uses[u] \subseteq Uses

VARIABLES program,     (* the program that runs                            *)
          q,           (* the queue                                        *)
          call,        (* the call each task is in, or NoCall              *)
          answer,      (* what the last step told its user, or None: a     *)
                       (* record of the user and what it was told          *)
          age          (* history: the ticks counted since the call of     *)
                       (* each task first found that it had to wait, Ticks *)
                       (* for as many or more                              *)

qvars == <<vars, program, q, call, answer, age>>

Index     == 0 .. Length - 1
Unlocked  == -1                                           (* queueUNLOCKED *)

Mutexes == {"mutex", "recursive"}

NoCall == [op |-> "none", step |-> "none", item |-> None, front |-> FALSE,
           ticks |-> 0, asked |-> 0, entered |-> FALSE, time |-> 0, overflows |-> 0]

\* xQueueCreate, xQueueCreateCountingSemaphore or xQueueCreateMutex
NewQueue(kind, count) ==
  [kind        |-> kind,
   items       |-> [i \in Index |-> None],   \* what pcHead points to
   write       |-> 0,                        \* pcWriteTo
   read        |-> Length - 1,               \* pcReadFrom
   count       |-> count,                    \* uxMessagesWaiting
   length      |-> IF kind \in Mutexes THEN 1 ELSE Length,
   rxLock      |-> Unlocked,
   txLock      |-> Unlocked,
   holder      |-> None,                     \* pxMutexHolder
   depth       |-> 0]                        \* uxRecursiveCallCount

QueuesInit ==
  /\ Init
  /\ program \in Programs
  /\ q = NewQueue(program.kind, IF program.kind \in Mutexes THEN 1 ELSE 0)
  /\ call = [t \in Task |-> NoCall]
  /\ answer = None
  /\ age  = [t \in Task |-> 0]

-----------------------------------------------------------------------------
IsMutex == q.kind \in Mutexes

\* Plausible bug: an item sent to the front overwrites the first one.
Insert_AtReadPosition(x, front) ==
  IF front
  THEN [q EXCEPT !.items[q.read] = x, !.count = @ + 1]
  ELSE [q EXCEPT !.items[q.write] = x, !.write = (@ + 1) % Length, !.count = @ + 1]

\* prvCopyDataToQueue, of an item: pcReadFrom is before the first item.
Insert(x, front) ==
  IF front
  THEN [q EXCEPT !.items[q.read] = x, !.read = (@ - 1) % Length, !.count = @ + 1]
  ELSE [q EXCEPT !.items[q.write] = x, !.write = (@ + 1) % Length, !.count = @ + 1]

\* prvCopyDataToQueue; a queue without items only counts, and a mutex has no holder.
prvCopyDataToQueue(x, front) ==
  IF q.kind = "queue" THEN Insert(x, front)
                      ELSE [q EXCEPT !.count = @ + 1, !.holder = None]

NextToRead == (q.read + 1) % Length

\* prvCopyDataFromQueue: the item that is copied out
FirstItem == IF q.kind = "queue" THEN q.items[NextToRead] ELSE None

\* The queue without it; a mutex is now held by the current task.
Remove1(t) ==
  [q EXCEPT !.read   = IF q.kind = "queue" THEN NextToRead ELSE @,
            !.items  = IF q.kind = "queue" THEN [@ EXCEPT ![NextToRead] = None] ELSE @,
            !.count  = @ - 1,
            !.holder = IF IsMutex THEN t ELSE @]

\* Plausible bug: a holder that is not ready to run inherits nothing.
vTaskPriorityInherit_IfReady(k0, h) ==
  LET p == k0.prio[k0.current]
  IN  IF k0.prio[h] >= p \/ ~IsReady(k0, h, k0.prio[h]) THEN k0
      ELSE prvAddTaskToReadyQueue(
             [RemoveGenericItem(k0, h) EXCEPT !.item[h] = p, !.prio[h] = p], h)

\* vTaskPriorityInherit: the holder runs at the priority of the current task, if higher.
vTaskPriorityInherit(k0, h) ==
  LET p  == k0.prio[k0.current]
      k1 == [k0 EXCEPT !.item[h] = p, !.prio[h] = p]
  IN  IF k0.prio[h] >= p THEN k0
      ELSE IF IsReady(k0, h, k0.prio[h])
           THEN prvAddTaskToReadyQueue(RemoveGenericItem(k1, h), h) ELSE k1

\* vTaskPriorityDisinherit: the former holder is at its own priority again.
vTaskPriorityDisinherit(k0, h) ==
  IF h = None \/ k0.prio[h] = k0.base[h] THEN k0
  ELSE prvAddTaskToReadyQueue(
         [RemoveGenericItem(k0, h) EXCEPT !.prio[h] = k0.base[h], !.item[h] = k0.base[h]], h)

\* What a critical section leaves that wakes the first task on the event list e
\* and yields if that is not below the current one.
WakeOne(k0, e) ==
  IF k0.waiting[e] = <<>> THEN k0
  ELSE IF HeadOutranks(k0, e) THEN vTaskSwitchContext(xTaskRemoveFromEventList(k0, e))
  ELSE xTaskRemoveFromEventList(k0, e)

-----------------------------------------------------------------------------
Is(t, op, step) == Runs(t, "call") /\ call[t].op \in op /\ call[t].step = step

Tells(u, x) == answer' = [to |-> u, says |-> x]
TellsNobody == answer' = None

Goes(t, step) ==
  /\ call' = [call EXCEPT ![t].step = step]
  /\ TellsNobody /\ UNCHANGED <<at, lastWake>>

Returns(t, x) ==
  /\ call' = [call EXCEPT ![t] = NoCall]
  /\ Tells(t, x) /\ GoesTo(t, "task") /\ UNCHANGED lastWake

Begins(t, op, x, front, n) ==
  /\ call' = [call EXCEPT ![t] = [NoCall EXCEPT !.op = op, !.step = "try", !.item = x,
                                                !.front = front, !.ticks = n, !.asked = n]]
  /\ TellsNobody /\ GoesTo(t, "call") /\ UNCHANGED <<k, since, lastWake, q>>

\* xQueueSendToBack or xQueueSendToFront
CallsSend(t) ==
  /\ Calls(t) /\ q.kind = "queue"
  /\ \E x \in Item, n \in program.waits :
       \/ "send"  \in program.uses[t] /\ Begins(t, "send", x, FALSE, n)
       \/ "front" \in program.uses[t] /\ Begins(t, "send", x, TRUE, n)

\* xSemaphoreGive: a mutex is given by its holder
CallsGive(t) ==
  /\ Calls(t) /\ q.kind \in {"semaphore", "mutex"} /\ (IsMutex => q.holder = t)
  /\ "send" \in program.uses[t]
  /\ Begins(t, "send", None, FALSE, 0)

\* xQueueReceive, or xSemaphoreTake: a mutex is not taken by its holder
CallsReceive(t) ==
  /\ Calls(t) /\ q.kind # "recursive" /\ q.holder # t
  /\ "receive" \in program.uses[t]
  /\ \E n \in program.waits : Begins(t, "receive", None, FALSE, n)

\* xQueuePeek
CallsPeek(t) ==
  /\ Calls(t) /\ q.kind = "queue" /\ "peek" \in program.uses[t]
  /\ \E n \in program.waits : Begins(t, "peek", None, FALSE, n)

\* xQueueTakeMutexRecursive: the holder has it at once.
TakesRecursive(t) ==
  /\ Calls(t) /\ q.kind = "recursive" /\ q.depth < MaxDepth
  /\ "receive" \in program.uses[t]
  /\ IF q.holder = t
     THEN /\ q' = [q EXCEPT !.depth = @ + 1]
          /\ TellsNobody /\ UNCHANGED <<k, at, lastWake, since, call>>
     ELSE \E n \in program.waits : Begins(t, "receive", None, FALSE, n)

\* xQueueGiveMutexRecursive: the last give lets it go, the others only count.
GivesRecursive(t) ==
  /\ Calls(t) /\ q.kind = "recursive" /\ q.holder = t
  /\ q' = [q EXCEPT !.depth = @ - 1]
  /\ IF q.depth = 1
     THEN /\ call' = [call EXCEPT ![t] = [NoCall EXCEPT !.op = "send", !.step = "try"]]
          /\ TellsNobody /\ GoesTo(t, "call") /\ UNCHANGED <<k, since, lastWake>>
     ELSE TellsNobody /\ UNCHANGED <<k, at, lastWake, since, call>>

-----------------------------------------------------------------------------
\* The attempt has failed: without ticks to wait for the call is over, else the
\* time is noted (vTaskSetTimeOutState) and it prepares to block.
TryFails(t, why) ==
  /\ UNCHANGED <<k, since, q>>
  /\ IF call[t].ticks = 0 THEN Returns(t, why)
     ELSE /\ call' = [call EXCEPT ![t].step = IF program.alternative THEN "block" ELSE "suspend",
                        ![t].entered   = TRUE,
                        ![t].time      = IF call[t].entered THEN @ ELSE k.tick,
                        ![t].overflows = IF call[t].entered THEN @ ELSE k.overflows]
          /\ TellsNobody /\ UNCHANGED <<at, lastWake>>

\* Plausible bug: the waiting receiver is not woken.
TrySend_WakesNobody(t) ==
  /\ Is(t, {"send"}, "try")
  /\ IF q.count < q.length
     THEN /\ q' = prvCopyDataToQueue(call[t].item, call[t].front)
          /\ KernelBecomes(k) /\ Returns(t, "sent")
     ELSE TryFails(t, "full")

\* The first critical section of xQueueGenericSend.
TrySend(t) ==
  /\ Is(t, {"send"}, "try")
  /\ IF q.count < q.length
     THEN LET k1 == IF IsMutex THEN vTaskPriorityDisinherit(k, q.holder) ELSE k
          IN  /\ q' = prvCopyDataToQueue(call[t].item, call[t].front)
              /\ KernelBecomes(WakeOne(k1, "receive"))
              /\ Returns(t, "sent")
     ELSE TryFails(t, "full")

\* The first critical section of xQueueGenericReceive; a recursive mutex counts.
TryReceive(t) ==
  /\ Is(t, {"receive"}, "try")
  /\ IF q.count > 0
     THEN /\ q' = [Remove1(t) EXCEPT !.depth = IF q.kind = "recursive" THEN 1 ELSE @]
          /\ KernelBecomes(WakeOne(k, "send"))
          /\ Returns(t, FirstItem)
     ELSE TryFails(t, "empty")

\* Its peeking variant: the item remains, for another that waits to receive.
TryPeek(t) ==
  /\ Is(t, {"peek"}, "try")
  /\ IF q.count > 0
     THEN /\ KernelBecomes(WakeOne(k, "receive"))
          /\ Returns(t, FirstItem) /\ UNCHANGED q
     ELSE TryFails(t, "empty")

-----------------------------------------------------------------------------
ListOf(op) == IF op = "send" THEN "send" ELSE "receive"

Waiters == {"send", "receive", "peek"}

\* prvIsQueueFull for a sender, prvIsQueueEmpty for a receiver
MustWait(t) == IF call[t].op = "send" THEN q.count = q.length ELSE q.count = 0

\* Plausible bug: each wait is for all the ticks again.
IsOver_Restarts(t) == FALSE

\* xTaskCheckForTimeOut: whether the time of the call is over
IsOver(t) ==
  /\ call[t].ticks # MaxDelay
  /\ TimedOut(k.overflows # call[t].overflows, call[t].time, k.tick, call[t].ticks, Ticks)

\* xTaskCheckForTimeOut: the ticks that have passed are deducted
Deducted(t) ==
  IF call[t].ticks = MaxDelay THEN call[t]
  ELSE [call[t] EXCEPT !.ticks     = @ - Elapsed(call[t].time, k.tick, Ticks),
                       !.time      = k.tick,
                       !.overflows = k.overflows]

\* The current task, in the kernel k0, waits for the queue.
Blocked(t, k0, ticks) ==
  LET k1 == IF IsMutex THEN vTaskPriorityInherit(k0, q.holder) ELSE k0
  IN  vTaskPlaceOnEventList(k1, ListOf(call[t].op), ticks)

Suspends(t) ==
  /\ Is(t, Waiters, "suspend")
  /\ KernelBecomes(vTaskSuspendAll(k)) /\ Goes(t, "lock") /\ UNCHANGED q

\* prvLockQueue and xTaskCheckForTimeOut
Locks(t) ==
  /\ Is(t, Waiters, "lock")
  /\ q' = [q EXCEPT !.rxLock = IF @ = Unlocked THEN 0 ELSE @,
                    !.txLock = IF @ = Unlocked THEN 0 ELSE @]
  /\ call' = [call EXCEPT ![t] = IF IsOver(t) THEN [@ EXCEPT !.step = "unlockTx", !.ticks = 0]
                                 ELSE [Deducted(t) EXCEPT !.step = "look"]]
  /\ TellsNobody /\ UNCHANGED <<k, at, lastWake, since>>

\* prvIsQueueFull or prvIsQueueEmpty
Looks(t) ==
  /\ Is(t, Waiters, "look")
  /\ Goes(t, IF MustWait(t) THEN "place" ELSE "unlockTx") /\ UNCHANGED <<k, since, q>>

Places1(t) ==
  /\ Is(t, Waiters, "place")
  /\ KernelBecomes(Blocked(t, k, call[t].ticks)) /\ Goes(t, "unlockTx") /\ UNCHANGED q

\* The first n tasks that wait on e are woken, while the scheduler is suspended;
\* vTaskMissedYield if one of them is not below the current task.
WakeUpTo(n, e) ==
  LET m == IF n < Len(k.waiting[e]) THEN n ELSE Len(k.waiting[e])
      woken[i \in 0 .. m] == IF i = 0 THEN k ELSE xTaskRemoveFromEventList(woken[i - 1], e)
  IN  [woken[m] EXCEPT !.missedYield =
         @ \/ \E i \in 1 .. m : k.prio[k.waiting[e][i]] >= k.prio[k.current]]

\* Plausible bug: what interrupts sent while the queue was locked wakes nobody.
UnlocksTx_WakesNobody(t) ==
  /\ Is(t, Waiters, "unlockTx")
  /\ q' = [q EXCEPT !.txLock = Unlocked]
  /\ Goes(t, "unlockRx") /\ UNCHANGED <<k, since>>

\* prvUnlockQueue, for the messages sent by interrupts while it was locked
UnlocksTx(t) ==
  /\ Is(t, Waiters, "unlockTx")
  /\ KernelBecomes(WakeUpTo(q.txLock, "receive"))
  /\ q' = [q EXCEPT !.txLock = Unlocked] /\ Goes(t, "unlockRx")

\* prvUnlockQueue, for those received by interrupts
UnlocksRx(t) ==
  /\ Is(t, Waiters, "unlockRx")
  /\ KernelBecomes(WakeUpTo(q.rxLock, "send"))
  /\ q' = [q EXCEPT !.rxLock = Unlocked] /\ Goes(t, "resume")

\* Whether the current task has placed itself on an event list.
HasBlocked(t) == ~IsReady(k, t, k.prio[t])

\* xTaskResumeAll: a call whose time was over returns, the others try again, one
\* that has blocked when it has yielded.
Resumes(t) ==
  /\ Is(t, Waiters, "resume")
  /\ KernelBecomes(xTaskResumeAll(k)) /\ UNCHANGED q
  /\ IF call[t].ticks = 0 THEN Returns(t, IF call[t].op = "send" THEN "full" ELSE "empty")
     ELSE Goes(t, IF HasBlocked(t) /\ ~AlreadyYielded(k) THEN "yield" ELSE "try")

YieldsInCall(t) ==
  /\ Is(t, Waiters, "yield")
  /\ KernelBecomes(vTaskSwitchContext(k)) /\ Goes(t, "try") /\ UNCHANGED q

\* The alternative API looks at the time and the queue, and blocks, in one
\* critical section.
BlocksAlternative(t) ==
  /\ Is(t, Waiters, "block")
  /\ UNCHANGED q
  /\ IF IsOver(t)
     THEN Returns(t, IF call[t].op = "send" THEN "full" ELSE "empty") /\ UNCHANGED <<k, since>>
     ELSE /\ call' = [call EXCEPT ![t] = [Deducted(t) EXCEPT !.step = "try"]]
          /\ KernelBecomes(IF MustWait(t)
                           THEN vTaskSwitchContext(Blocked(t, k, Deducted(t).ticks)) ELSE k)
          /\ TellsNobody /\ UNCHANGED <<at, lastWake>>

-----------------------------------------------------------------------------
\* What an interrupt leaves that wakes the first task on e, and switches the
\* context if that is not below the current one; or counts, on a locked queue.
InterruptWakes(lock, e) == KernelBecomes(IF lock = Unlocked THEN WakeOne(k, e) ELSE k)

xQueueSendFromISR(x, front) ==
  /\ k.running /\ ~IsMutex /\ q.count < q.length /\ q.txLock < MaxLocked
  /\ (IF front THEN "front" ELSE "send") \in program.uses[Interrupt]
  /\ q' = [prvCopyDataToQueue(x, front) EXCEPT
             !.txLock = IF @ = Unlocked THEN @ ELSE @ + 1]
  /\ InterruptWakes(q.txLock, "receive")
  /\ Tells(Interrupt, "sent")
  /\ UNCHANGED <<at, call, lastWake>>

xQueueReceiveFromISR ==
  /\ k.running /\ ~IsMutex /\ q.count > 0 /\ q.rxLock < MaxLocked
  /\ "receive" \in program.uses[Interrupt]
  /\ q' = [Remove1(None) EXCEPT !.rxLock = IF @ = Unlocked THEN @ ELSE @ + 1]
  /\ InterruptWakes(q.rxLock, "send")
  /\ Tells(Interrupt, FirstItem)
  /\ UNCHANGED <<at, call, lastWake>>

-----------------------------------------------------------------------------
CallStep(t) ==
  \/ TrySend(t) \/ TryReceive(t) \/ TryPeek(t)
  \/ Suspends(t) \/ Locks(t) \/ Looks(t) \/ Places1(t)
  \/ UnlocksTx(t) \/ UnlocksRx(t) \/ Resumes(t) \/ YieldsInCall(t)
  \/ BlocksAlternative(t)

\* The operations of tasks.c that the users of the queue make.
TaskStep ==
  /\ \/ \E t \in Task : MainCreates(t, program.priority[t])
     \/ vTaskStartScheduler \/ vTick
     \/ \E t \in Task : \/ "nap" \in program.uses[t] /\ vTaskDelay(t, 1)
                        \/ EndsDelay(t) \/ Yields(t)
  /\ TellsNobody /\ UNCHANGED <<q, call>>

QueueStep(t) ==
  \/ CallsSend(t) \/ CallsGive(t) \/ CallsReceive(t) \/ CallsPeek(t)
  \/ TakesRecursive(t) \/ GivesRecursive(t)
  \/ CallStep(t)

InterruptStep ==
  xQueueReceiveFromISR \/ \E x \in Item, front \in BOOLEAN : xQueueSendFromISR(x, front)

\* The history: every call that waits grows older by the ticks that are counted.
Ages ==
  age' = [t \in Task |->
            IF ~call'[t].entered THEN 0
            ELSE LET a == age[t] + ((k'.tick - k.tick) % Ticks)
                 IN  IF a > Ticks THEN Ticks ELSE a]

QueuesNext ==
  (TaskStep \/ InterruptStep \/ \E t \in Task : QueueStep(t)) /\ Ages /\ UNCHANGED program

QueuesSpec == QueuesInit /\ [][QueuesNext]_qvars

-----------------------------------------------------------------------------
InQueue(i) == (q.read + i) % Length

\* What the queue holds, the first item first; a queue that only counts holds
\* that many of nothing.
Contents ==
  [i \in 1 .. q.count |-> IF q.kind = "queue" THEN q.items[InQueue(i)] ELSE None]

\* However calls of tasks, their waits and interrupts interleave, the ring is a
\* channel: nothing is lost, invented, given out twice or out of order.
C == INSTANCE Channel WITH
  User <- Task \cup {Interrupt}, Item <- Item \cup {None}, Nothing <- None,
  size <- q.length, contents <- Contents

ImplementsChannel == C!Spec

WaitsOn(t, e) == Contains(k.waiting[e], t)

\* Nothing to do is left: the idle task runs, and no other is ready or about to be.
Quiet ==
  /\ k.running /\ k.current = Idle /\ k.locks = 0
  /\ \A t \in Task \ {Idle} : ~IsReady(k, t, k.prio[t])

\* No wake-up is lost: when all is quiet no task waits to receive what is there,
\* or to send where there is room, although items come and go through interrupts
\* between the moment it found that it had to wait and the moment it waited, and
\* while the queue was locked.
NoStrandedWaiter ==
  Quiet => /\ q.count > 0 => k.waiting["receive"] = <<>>
           /\ q.count < q.length => k.waiting["send"] = <<>>

\* The holder of a mutex is not below any task that waits for it, and only a
\* holder has more than its own priority.
Inheritance ==
  IsMutex =>
    \A t \in Task :
      /\ WaitsOn(t, "receive") /\ q.holder # None => k.prio[q.holder] >= k.prio[t]
      /\ k.prio[t] # k.base[t] => q.holder = t

\* A task that waits for at most asked ticks will have waited for exactly these
\* when it is woken, however often it was woken and waited again, and wherever
\* the counter wraps.
WaitsForTheRest ==
  \A t \in Task :
    Sleeps(t) /\ at[t] = "call" /\ age[t] < Ticks =>
      age[t] + Left(t) + k.missed = call[t].asked

\* No call gives up before its time, and one that waits for ever never does.
NeverGivesUpEarly ==
  [][\A t \in Task : \A why \in {"full", "empty"} :
       answer' = [to |-> t, says |-> why] /\ call[t].asked > 0 =>
         /\ age[t] >= call[t].asked
         /\ call[t].asked # MaxDelay]_qvars

\* queue.c says of a task that sends or receives: "To be running we must be the
\* highest priority task wanting to access the queue."
RunningIsHighest ==
  \A t, u \in Task :
    /\ Is(t, {"send", "receive"}, "try") /\ k.locks = 0
    /\ call[u].op \in {"send", "receive"} /\ IsReady(k, u, k.prio[u])
    => k.prio[u] <= k.prio[t]
=============================================================================
