--------------------------- MODULE FreeRTOSKernel ---------------------------
(***************************************************************************)
(* The data of the FreeRTOS scheduler (tasks.c over list.c) as a record k, *)
(* and what each piece of code of the kernel makes of it, as an operator   *)
(* from k to the record it leaves.  The modules that extend this one       *)
(* decide which of these operators form one step.                          *)
(*                                                                         *)
(* A list is the sequence of its tasks.  A list that is used in turn, the  *)
(* ready lists, begins after pxIndex and ends with it: vListInsertEnd is   *)
(* then Append, listGET_OWNER_OF_NEXT_ENTRY moves the first to the end,    *)
(* and vListRemove leaves the order of the others.  In the other lists     *)
(* pxIndex stays at the end marker, and the sequence begins at the head.   *)
(* The tick counter has Ticks values.                                      *)
(***************************************************************************)
EXTENDS TickArithmetic, SequencesExt

CONSTANTS Task,        (* the tasks that may exist                         *)
          Idle,        (* the idle task                                    *)
          None,        (* no task, no list                                 *)
          EventList,   (* the event lists of the queues                    *)
          Priorities,  (* configMAX_PRIORITIES                             *)
          Ticks,       (* the tick counter counts modulo Ticks             *)
          Overflows    (* xNumOfOverflows counts modulo Overflows          *)

ASSUME KernelAssumption ==
  /\ Idle \in Task /\ None \notin Task
  /\ Priorities \in Nat \ {0} /\ Ticks \in Nat \ {0, 1} /\ Overflows \in Nat \ {0}

Prio     == 0 .. Priorities - 1
MaxDelay == Ticks - 1                                    (* portMAX_DELAY *)

\* A list has an item of a task at most once.
Without(s, t) == IF Contains(s, t) THEN RemoveAt(s, CHOOSE i \in 1 .. Len(s) : s[i] = t) ELSE s
MaxOf(a, b)   == IF a < b THEN b ELSE a

-----------------------------------------------------------------------------
Kernel0 ==
  [running     |-> FALSE,                        \* xSchedulerRunning
   current     |-> None,                         \* pxCurrentTCB
   tick        |-> 0,                            \* xTickCount
   overflows   |-> 0,                            \* xNumOfOverflows
   ready       |-> [p \in Prio |-> <<>>],        \* pxReadyTasksLists
   delayed     |-> <<>>,                         \* pxDelayedTaskList
   overflow    |-> <<>>,                         \* pxOverflowDelayedTaskList
   wake        |-> [t \in Task |-> 0],           \* value of xGenericListItem
   suspended   |-> {},                           \* xSuspendedTaskList
   pending     |-> <<>>,                         \* xPendingReadyList
   terminated  |-> <<>>,                         \* xTasksWaitingTermination
   waiting     |-> [e \in EventList |-> <<>>],   \* the event lists
   item        |-> [t \in Task |-> 0],           \* value of xEventListItem
   prio        |-> [t \in Task |-> 0],           \* uxPriority
   base        |-> [t \in Task |-> 0],           \* uxBasePriority
   top         |-> 0,                            \* uxTopReadyPriority
   next        |-> MaxDelay,                     \* xNextTaskUnblockTime
   locks       |-> 0,                            \* uxSchedulerSuspended
   missed      |-> 0,                            \* uxMissedTicks
   missedYield |-> FALSE]                        \* xMissedYield

-----------------------------------------------------------------------------
\* vListInsert: before the first task whose value is greater.
vListInsert(s, t, value) ==
  LET after == {i \in 1 .. Len(s) : value[s[i]] > value[t]}
  IN  IF after = {} THEN Append(s, t) ELSE InsertAt(s, Min(after), t)

\* vListRemove of xGenericListItem, from whichever list holds it.
RemoveGenericItem(k, t) ==
  [k EXCEPT !.ready      = [p \in Prio |-> Without(@[p], t)],
            !.delayed    = Without(@, t),
            !.overflow   = Without(@, t),
            !.suspended  = @ \ {t},
            !.terminated = Without(@, t),
            !.wake[t]    = 0]

\* vListRemove of xEventListItem, if a list holds it.
RemoveEventItem(k, t) ==
  [k EXCEPT !.waiting = [e \in EventList |-> Without(@[e], t)],
            !.pending = Without(@, t)]

prvAddTaskToReadyQueue(k, t) ==
  [k EXCEPT !.top               = MaxOf(@, k.prio[t]),
            !.ready[k.prio[t]] = Append(@, t)]

IsReady(k, t, p) == Contains(k.ready[p], t)

WakeTime(k, s) == IF s = <<>> THEN MaxDelay ELSE k.wake[Head(s)]

Unblock(k, t) ==
  prvAddTaskToReadyQueue(RemoveEventItem(RemoveGenericItem(k, t), t), t)

\* The head of the delayed list is woken if its time has come.
Wake(k) ==
  IF k.delayed # <<>> /\ k.wake[Head(k.delayed)] <= k.tick THEN Unblock(k, Head(k.delayed)) ELSE k

\* The loop ends when that is no more the case, after Len(k.delayed) turns at last.
prvCheckDelayedTasks(k) ==
  IF k.tick < k.next THEN k
  ELSE LET woken[n \in 0 .. Len(k.delayed)] == IF n = 0 THEN k ELSE Wake(woken[n - 1])
           k1 == woken[Len(k.delayed)]
       IN  [k1 EXCEPT !.next = WakeTime(k1, k1.delayed)]

SwapLists(k) ==
  [k EXCEPT !.delayed   = k.overflow,
            !.overflow  = k.delayed,
            !.overflows = (@ + 1) % Overflows,
            !.next      = WakeTime(k, k.overflow)]

vTaskIncrementTick(k) ==
  IF k.locks > 0 THEN [k EXCEPT !.missed = @ + 1]
  ELSE LET k1 == [k EXCEPT !.tick = (@ + 1) % Ticks]
       IN  prvCheckDelayedTasks(IF k1.tick = 0 THEN SwapLists(k1) ELSE k1)

\* Plausible bug: the first task of the list is always the one that runs.
vTaskSwitchContext_NotRotating(k) ==
  IF k.locks > 0 THEN [k EXCEPT !.missedYield = TRUE]
  ELSE LET top == Max({p \in 0 .. k.top : k.ready[p] # <<>>})
       IN  [k EXCEPT !.top = top, !.current = Head(k.ready[top])]

\* The next task in turn of the highest priority that has one is made current.
vTaskSwitchContext(k) ==
  IF k.locks > 0 THEN [k EXCEPT !.missedYield = TRUE]
  ELSE LET top  == Max({p \in 0 .. k.top : k.ready[p] # <<>>})
           turn == Head(k.ready[top])
       IN  [k EXCEPT !.top        = top,
                     !.ready[top] = Append(Tail(@), turn),
                     !.current    = turn]

vTaskSuspendAll(k) == [k EXCEPT !.locks = @ + 1]

\* What xTaskResumeAll returns: whether it has already yielded.
AlreadyYielded(k) ==
  /\ k.locks = 1
  /\ \/ k.missedYield
     \/ k.missed > 0
     \/ \E i \in 1 .. Len(k.pending) : k.prio[k.pending[i]] >= k.prio[k.current]

\* The head of the pending list is moved, if there is one.
MoveHead(k) == IF k.pending # <<>> THEN Unblock(k, Head(k.pending)) ELSE k

\* The tasks that were made ready meanwhile are moved.
UnblockPending(k) ==
  LET moved[n \in 0 .. Len(k.pending)] == IF n = 0 THEN k ELSE MoveHead(moved[n - 1])
  IN  moved[Len(k.pending)]

\* The missed ticks are counted.
CountMissed(k) ==
  LET counted[n \in 0 .. k.missed] ==
        IF n = 0 THEN k ELSE vTaskIncrementTick(counted[n - 1])
  IN  counted[k.missed]

\* Plausible bug: the ticks missed while the scheduler was suspended are lost.
CatchUp_LosesTicks(k) == [UnblockPending(k) EXCEPT !.missed = 0, !.missedYield = FALSE]

CatchUp(k) == [CountMissed(UnblockPending(k)) EXCEPT !.missed = 0, !.missedYield = FALSE]

xTaskResumeAll(k) ==
  LET k1 == [k EXCEPT !.locks = @ - 1]
  IN  IF k1.locks > 0 THEN k1
      ELSE IF AlreadyYielded(k) THEN vTaskSwitchContext(CatchUp(k1)) ELSE CatchUp(k1)

-----------------------------------------------------------------------------
\* A task that was created, in a kernel that has initialised its TCB.
NewTask(k, t, p) ==
  prvAddTaskToReadyQueue([k EXCEPT !.prio[t] = p, !.base[t] = p, !.item[t] = p], t)

\* A new task replaces the current one if it is not below it and the
\* scheduler has not started.
CreateBeforeStart(k, t, p) ==
  LET k1 == NewTask(k, t, p)
  IN  IF k.current = None \/ k.prio[k.current] <= p
      THEN [k1 EXCEPT !.current = t] ELSE k1

\* The scheduler starts, after it has created the idle task.
Started(k) == [CreateBeforeStart(k, Idle, 0) EXCEPT !.running = TRUE, !.tick = 0]

-----------------------------------------------------------------------------
\* Plausible bug: a wake time past the wrap goes to the list of this turn.
prvAddCurrentTaskToDelayedList_NoOverflow(k, time) ==
  LET wake == [k.wake EXCEPT ![k.current] = time]
  IN  [k EXCEPT !.wake = wake, !.delayed = vListInsert(@, k.current, wake),
                !.next = IF time < @ THEN time ELSE @]

prvAddCurrentTaskToDelayedList(k, time) ==
  LET wake == [k.wake EXCEPT ![k.current] = time]
  IN  IF time < k.tick
      THEN [k EXCEPT !.wake = wake, !.overflow = vListInsert(@, k.current, wake)]
      ELSE [k EXCEPT !.wake = wake, !.delayed = vListInsert(@, k.current, wake),
                     !.next = IF time < @ THEN time ELSE @]

\* The current task leaves the ready list until the tick counter is at time.
DelayCurrent(k, time) ==
  prvAddCurrentTaskToDelayedList(RemoveGenericItem(k, k.current), time)

\* The values of the event items order a list by falling priority.
EventValue(k) == [t \in Task |-> Priorities - k.item[t]]

vTaskPlaceOnEventList(k, e, ticksToWait) ==
  LET k1 == [k EXCEPT !.waiting[e] = vListInsert(@, k.current, EventValue(k))]
  IN  IF ticksToWait = MaxDelay
      THEN [RemoveGenericItem(k1, k.current) EXCEPT !.suspended = @ \cup {k.current}]
      ELSE DelayCurrent(k1, (k.tick + ticksToWait) % Ticks)

\* Whether the task at the head of e is of the priority of the current one, or above.
HeadOutranks(k, e) == k.prio[Head(k.waiting[e])] >= k.prio[k.current]

xTaskRemoveFromEventList(k, e) ==
  LET t  == Head(k.waiting[e])
      k1 == RemoveEventItem(k, t)
  IN  IF k.locks = 0 THEN prvAddTaskToReadyQueue(RemoveGenericItem(k1, t), t)
                     ELSE [k1 EXCEPT !.pending = Append(@, t)]
=============================================================================
