---------------------------- MODULE FreeRTOSTasks ----------------------------
(***************************************************************************)
(* The task control of FreeRTOS (tasks.c, on the port of ex5): main        *)
(* creates tasks and starts the scheduler, and tasks of any program then   *)
(* create, delay, suspend, resume, reprioritise and delete one another     *)
(* while the tick interrupt, and other interrupts that resume tasks, come  *)
(* at any moment they are enabled.                                         *)
(*                                                                         *)
(* A critical section is one step, and so is a context switch that the     *)
(* code asks for inside it.  A delay is three: the task moves itself to a  *)
(* delayed list with the scheduler suspended, resumes the scheduler, and   *)
(* yields if that did not.                                                 *)
(***************************************************************************)
EXTENDS FreeRTOSKernel

CONSTANTS Periodic,    (* the tasks that use vTaskDelayUntil               *)
          MaxMissed    (* ticks that may come while the scheduler is       *)
                       (* suspended                                        *)

ASSUME TasksAssumption == Periodic \subseteq Task /\ MaxMissed \in 0 .. Ticks - 2

VARIABLES k,           (* the data of the kernel                           *)
          at,          (* where each task is: "nowhere" (it does not       *)
                       (* exist), "task" (in its own code), "delay" (in a  *)
                       (* delay, with the scheduler suspended), "yield"    *)
                       (* (about to yield at the end of a delay), "locked" *)
                       (* (it has suspended the scheduler), "reap" (the    *)
                       (* idle task is about to free a deleted task)       *)
          lastWake,    (* the variable behind pxPreviousWakeTime           *)
          since        (* history: the ticks counted since lastWake, < 0   *)
                       (* while it is to come; Ticks for as many or more,  *)
                       (* and after a call that was not on time            *)

vars == <<k, at, lastWake, since>>

Init ==
  /\ k        = Kernel0
  /\ at       = [t \in Task |-> "nowhere"]
  /\ lastWake = [t \in Periodic |-> 0]
  /\ since    = [t \in Periodic |-> 0]

-----------------------------------------------------------------------------
Exists(t) == at[t] # "nowhere"

\* The handle of t may be passed to the API: t exists and is not deleted.
Valid(t) == Exists(t) /\ ~Contains(k.terminated, t)

Runs(t, place) == k.running /\ k.current = t /\ at[t] = place

\* t is about to call the API from its own code.
Calls(t) == t # Idle /\ Runs(t, "task")

\* The kernel goes on to k1, and the history counts the ticks it has counted.
KernelBecomes(k1) ==
  /\ k'     = k1
  /\ since' = [t \in Periodic |->
                 LET s == since[t] + ((k1.tick - k.tick) % Ticks)
                 IN  IF s > Ticks THEN Ticks ELSE s]

GoesTo(t, place) == at' = [at EXCEPT ![t] = place]

\* main: xTaskCreate
MainCreates(t, p) ==
  /\ ~k.running /\ t # Idle /\ ~Exists(t)
  /\ KernelBecomes(CreateBeforeStart(k, t, p))
  /\ GoesTo(t, "task") /\ UNCHANGED lastWake

\* main: vTaskStartScheduler, which creates the idle task
vTaskStartScheduler ==
  /\ ~k.running
  /\ KernelBecomes(Started(k))
  /\ GoesTo(Idle, "task") /\ UNCHANGED lastWake

-----------------------------------------------------------------------------
\* xTaskGenericCreate: it yields to a task of higher priority.
xTaskCreate(t, u, p) ==
  /\ Calls(t) /\ ~Exists(u)
  /\ KernelBecomes(IF k.prio[t] < p THEN vTaskSwitchContext(NewTask(k, u, p))
                                    ELSE NewTask(k, u, p))
  /\ GoesTo(u, "task") /\ UNCHANGED lastWake

\* vTaskDelete: the idle task will free the TCB.
vTaskDelete(t, u) ==
  /\ Calls(t) /\ u # Idle /\ Valid(u)
  /\ LET k1 == [RemoveEventItem(RemoveGenericItem(k, u), u)
                  EXCEPT !.terminated = Append(@, u)]
     IN  KernelBecomes(IF u = t THEN vTaskSwitchContext(k1) ELSE k1)
  /\ UNCHANGED <<at, lastWake>>

vTaskSuspend(t, u) ==
  /\ Calls(t) /\ u # Idle /\ Valid(u)
  /\ LET k1 == [RemoveEventItem(RemoveGenericItem(k, u), u)
                  EXCEPT !.suspended = @ \cup {u}]
     IN  KernelBecomes(IF u = t THEN vTaskSwitchContext(k1) ELSE k1)
  /\ UNCHANGED <<at, lastWake>>

\* A task in the suspended list that neither waits for an event nor is pending.
xTaskIsTaskSuspended(u) ==
  /\ u \in k.suspended
  /\ ~Contains(k.pending, u)
  /\ \A e \in EventList : ~Contains(k.waiting[e], u)

Resumed(u) == prvAddTaskToReadyQueue(RemoveGenericItem(k, u), u)

\* Plausible bug: the resumed task is not given the processor.
vTaskResume_NoYield(t, u) ==
  /\ Calls(t) /\ u # t /\ Valid(u)
  /\ KernelBecomes(IF xTaskIsTaskSuspended(u) THEN Resumed(u) ELSE k)
  /\ UNCHANGED <<at, lastWake>>

vTaskResume(t, u) ==
  /\ Calls(t) /\ u # t /\ Valid(u)
  /\ KernelBecomes(IF ~xTaskIsTaskSuspended(u) THEN k
                   ELSE IF k.prio[u] >= k.prio[t] THEN vTaskSwitchContext(Resumed(u))
                   ELSE Resumed(u))
  /\ UNCHANGED <<at, lastWake>>

\* The base priority changes; the priority too, unless it is inherited.  A
\* task in the ready list of its former priority moves to the new one.
WithPriority(u, p) ==
  LET k1 == [k EXCEPT !.prio[u] = IF @ = k.base[u] THEN p ELSE @,
                      !.base[u] = p, !.item[u] = p]
  IN  IF IsReady(k, u, k.base[u]) THEN prvAddTaskToReadyQueue(RemoveGenericItem(k1, u), u)
                                  ELSE k1

vTaskPrioritySet(t, u, p) ==
  /\ Calls(t) /\ u # Idle /\ Valid(u)
  /\ LET yields == IF p > k.base[u] THEN u # t ELSE u = t
     IN  KernelBecomes(IF p = k.base[u] THEN k
                       ELSE IF yields THEN vTaskSwitchContext(WithPriority(u, p))
                       ELSE WithPriority(u, p))
  /\ UNCHANGED <<at, lastWake>>

\* taskYIELD
taskYIELD(t) ==
  /\ Calls(t)
  /\ KernelBecomes(vTaskSwitchContext(k))
  /\ UNCHANGED <<at, lastWake>>

\* vTaskSuspendAll, by a task that wants to run undisturbed
SuspendsScheduler(t) ==
  /\ Calls(t)
  /\ KernelBecomes(vTaskSuspendAll(k))
  /\ GoesTo(t, "locked") /\ UNCHANGED lastWake

\* xTaskResumeAll, by that task
ResumesScheduler(t) ==
  /\ Runs(t, "locked")
  /\ KernelBecomes(xTaskResumeAll(k))
  /\ GoesTo(t, "task") /\ UNCHANGED lastWake

-----------------------------------------------------------------------------
\* vTaskDelay, up to xTaskResumeAll; a delay of 0 ticks only yields.
vTaskDelay(t, n) ==
  /\ Calls(t)
  /\ IF n = 0
     THEN KernelBecomes(vTaskSwitchContext(k)) /\ UNCHANGED at
     ELSE KernelBecomes(DelayCurrent(vTaskSuspendAll(k), (k.tick + n) % Ticks))
          /\ GoesTo(t, "delay")
  /\ UNCHANGED lastWake

\* vTaskDelayUntil, up to xTaskResumeAll
vTaskDelayUntil(t, n) ==
  /\ t \in Periodic /\ Calls(t)
  /\ LET toWake == (lastWake[t] + n) % Ticks
         k1     == vTaskSuspendAll(k)
     IN  /\ lastWake' = [lastWake EXCEPT ![t] = toWake]
         /\ since' = [since EXCEPT ![t] = IF @ \in 0 .. MaxDelay THEN @ - n ELSE Ticks]
         /\ k' = IF ShouldDelay(lastWake[t], toWake, k.tick) THEN DelayCurrent(k1, toWake) ELSE k1
  /\ GoesTo(t, "delay")

\* xLastWakeTime = xTaskGetTickCount(), which vTaskDelayUntil asks for first
xTaskGetTickCount(t) ==
  /\ t \in Periodic /\ Calls(t)
  /\ lastWake' = [lastWake EXCEPT ![t] = k.tick]
  /\ since'    = [since EXCEPT ![t] = 0]
  /\ UNCHANGED <<k, at>>

\* xTaskResumeAll at the end of a delay
EndsDelay(t) ==
  /\ Runs(t, "delay")
  /\ KernelBecomes(xTaskResumeAll(k))
  /\ GoesTo(t, IF AlreadyYielded(k) THEN "task" ELSE "yield")
  /\ UNCHANGED lastWake

\* portYIELD_WITHIN_API, if xTaskResumeAll has not yielded
Yields(t) ==
  /\ Runs(t, "yield")
  /\ KernelBecomes(vTaskSwitchContext(k))
  /\ GoesTo(t, "task") /\ UNCHANGED lastWake

-----------------------------------------------------------------------------
\* The idle task suspends the scheduler to look for deleted tasks.
IdleLooks ==
  /\ Runs(Idle, "task") /\ k.terminated # <<>>
  /\ KernelBecomes(vTaskSuspendAll(k))
  /\ GoesTo(Idle, "locked") /\ UNCHANGED lastWake

IdleHasLooked ==
  /\ Runs(Idle, "locked")
  /\ KernelBecomes(xTaskResumeAll(k))
  /\ GoesTo(Idle, "reap") /\ UNCHANGED lastWake

\* The first deleted task leaves the list, and prvDeleteTCB frees it.
IdleFrees ==
  /\ Runs(Idle, "reap")
  /\ LET u == Head(k.terminated)
     IN  /\ KernelBecomes([k EXCEPT !.terminated = Tail(@),
                                    !.prio[u] = 0, !.base[u] = 0, !.item[u] = 0])
         /\ at' = [at EXCEPT ![u] = "nowhere", ![Idle] = "task"]
  /\ UNCHANGED lastWake

\* The idle task yields to another one of its priority.
IdleYields ==
  /\ Runs(Idle, "task") /\ k.terminated = <<>> /\ Len(k.ready[0]) > 1
  /\ KernelBecomes(vTaskSwitchContext(k))
  /\ UNCHANGED <<at, lastWake>>

-----------------------------------------------------------------------------
\* vTick counts and switches the context.
vTick ==
  /\ k.running /\ (k.locks > 0 => k.missed < MaxMissed)
  /\ KernelBecomes(vTaskSwitchContext(vTaskIncrementTick(k)))
  /\ UNCHANGED <<at, lastWake>>

\* An interrupt that resumes u, and switches the context if told to.
xTaskResumeFromISR(u) ==
  /\ k.running /\ Valid(u) /\ xTaskIsTaskSuspended(u)
  /\ KernelBecomes(
       IF k.locks > 0 THEN [k EXCEPT !.pending = Append(@, u)]
       ELSE IF k.prio[u] >= k.prio[k.current] THEN vTaskSwitchContext(Resumed(u))
       ELSE Resumed(u))
  /\ UNCHANGED <<at, lastWake>>

-----------------------------------------------------------------------------
Step(t) ==
  \/ \E u \in Task, p \in Prio : xTaskCreate(t, u, p) \/ vTaskPrioritySet(t, u, p)
  \/ \E u \in Task : vTaskDelete(t, u) \/ vTaskSuspend(t, u) \/ vTaskResume(t, u)
  \/ taskYIELD(t) \/ SuspendsScheduler(t) \/ ResumesScheduler(t)
  \/ \E n \in 0 .. MaxDelay : vTaskDelay(t, n)
  \/ \E n \in 1 .. MaxDelay : vTaskDelayUntil(t, n)
  \/ xTaskGetTickCount(t) \/ EndsDelay(t) \/ Yields(t)

IdleStep == IdleLooks \/ IdleHasLooked \/ IdleFrees \/ IdleYields

Next ==
  \/ \E t \in Task, p \in Prio : MainCreates(t, p)
  \/ vTaskStartScheduler
  \/ \E t \in Task \ {Idle} : Step(t)
  \/ IdleStep
  \/ vTick
  \/ \E u \in Task : xTaskResumeFromISR(u)

\* The running task is in a call that it will finish; the idle task always is,
\* unless it has nothing to do.
Finishes == \E t \in Task \ {Idle} : ResumesScheduler(t) \/ EndsDelay(t) \/ Yields(t)

IsIn(t, places) == k.running /\ k.current = t /\ at[t] \in places

CanTick     == k.running /\ (k.locks > 0 => k.missed < MaxMissed)
IsInCall    == \E t \in Task \ {Idle} : IsIn(t, {"locked", "delay", "yield"})
IdleHasWork == \/ IsIn(Idle, {"locked", "reap"})
               \/ IsIn(Idle, {"task"}) /\ (k.terminated # <<>> \/ Len(k.ready[0]) > 1)

\* The tick interrupt comes again and again; a task does not keep the scheduler
\* suspended for ever, and the processor executes the running task.  This is
\* WF_vars of the three actions, with ENABLED replaced by what it amounts to.
Spec == /\ Init /\ [][Next]_vars
        /\ []<>~CanTick     \/ []<><<vTick>>_vars
        /\ []<>~IsInCall    \/ []<><<Finishes>>_vars
        /\ []<>~IdleHasWork \/ []<><<IdleStep>>_vars

-----------------------------------------------------------------------------
\* The record has its types, and outside vTaskSuspendAll ... xTaskResumeAll
\* nothing is left to be caught up with.
TypeOK ==
  /\ DOMAIN k = DOMAIN Kernel0
  /\ k.running \in BOOLEAN /\ k.current \in Task \cup {None}
  /\ k.tick \in 0 .. MaxDelay /\ k.next \in 0 .. MaxDelay
  /\ k.overflows \in 0 .. Overflows - 1
  /\ k.ready \in [Prio -> Seq(Task)]
  /\ {k.delayed, k.overflow, k.pending, k.terminated} \subseteq Seq(Task)
  /\ k.suspended \subseteq Task /\ k.waiting \in [EventList -> Seq(Task)]
  /\ k.wake \in [Task -> 0 .. MaxDelay]
  /\ {k.item, k.prio, k.base} \subseteq [Task -> Prio] /\ k.top \in Prio
  /\ k.locks \in {0, 1} /\ k.missed \in 0 .. MaxMissed /\ k.missedYield \in BOOLEAN
  /\ k.locks = 0 => k.pending = <<>> /\ k.missed = 0 /\ ~k.missedYield
  /\ at \in [Task -> {"nowhere", "task", "delay", "yield", "locked", "reap"}]
  /\ lastWake \in [Periodic -> 0 .. MaxDelay]
  /\ since \in [Periodic -> -MaxDelay .. Ticks]

\* l is the one list that the generic list item of t is in; "none" if there is none.
Home == {"ready", "delayed", "overflow", "suspended", "terminated", "none"}

IsAt(t, l) ==
  /\ \A p \in Prio : IsReady(k, t, p) <=> l = "ready" /\ p = k.prio[t]
  /\ Contains(k.delayed, t)    <=> l = "delayed"
  /\ Contains(k.overflow, t)   <=> l = "overflow"
  /\ Contains(k.terminated, t) <=> l = "terminated"
  /\ t \in k.suspended         <=> l = "suspended"

Sorted(s) == \A i, j \in 1 .. Len(s) : i < j => k.wake[s[i]] <= k.wake[s[j]]

\* Every task is in one list, once; a ready list holds the tasks of its
\* priority; no task above uxTopReadyPriority is ready.  Who is pending is still
\* in the suspended list.  The delayed lists are
\* in the order of the wake times, those of this turn of the counter apart
\* from those of the next, and xNextTaskUnblockTime is not after the first, so
\* that no wake-up is passed over and the list is empty when the counter wraps.
ListsConsistent ==
  /\ TypeOK
  /\ \A t \in Task : \E l \in Home : IsAt(t, l) /\ (Exists(t) <=> l # "none")
  /\ \A s \in {k.delayed, k.overflow, k.terminated, k.pending} : IsInjective(s)
  /\ \A p \in Prio : IsInjective(k.ready[p]) /\ (k.ready[p] # <<>> => p <= k.top)
  /\ \A t \in Task : Contains(k.pending, t) => t \in k.suspended
  /\ Sorted(k.delayed) /\ Sorted(k.overflow)
  /\ \A i \in 1 .. Len(k.delayed)  : k.wake[k.delayed[i]] > k.tick
  /\ \A i \in 1 .. Len(k.overflow) : k.wake[k.overflow[i]] < k.tick
  /\ k.next <= WakeTime(k, k.delayed)

\* Whenever the scheduler runs and the running task is not about to yield, no
\* task of a higher priority is ready: every call that readies a task, changes
\* a priority or stops the running task switches the context if it must.
RunsHighest ==
  k.running /\ k.locks = 0 /\ at[k.current] # "yield" =>
    /\ IsReady(k, k.current, k.prio[k.current])
    /\ \A p \in Prio : p > k.prio[k.current] => k.ready[p] = <<>>

Sleeps(t) == Contains(k.delayed, t) \/ Contains(k.overflow, t)

\* A task that calls vTaskDelayUntil in time, within a turn of the counter from
\* its last wake time, sleeps for exactly what remains of the period, and not
\* at all if nothing does, wherever the counter wraps.
Punctual ==
  [][\A t \in Periodic, n \in 1 .. MaxDelay :
       vTaskDelayUntil(t, n) /\ since[t] \in 0 .. MaxDelay =>
         IF n > since[t]
         THEN Sleeps(t)' /\ (k'.wake[t] - k.tick) % Ticks = n - since[t]
         ELSE ~Sleeps(t)']_vars

\* The ticks that t has left to sleep, those that are missed deducted.
Left(t) == IF Sleeps(t) THEN ((k.wake[t] - k.tick) % Ticks) - k.missed ELSE 0

\* The wrapping counter, the two lists and the missed ticks together keep every
\* sleep to the tick: the scheduler implements Alarm.
Alarms == INSTANCE Alarm WITH
  MaxSleep <- MaxDelay,
  asleep   <- {t \in Task : Sleeps(t)},
  left     <- [t \in Task |-> Left(t)],
  held     <- k.locks > 0,
  stopped  <- {t \in Task : ~Valid(t) \/ t \in k.suspended}

ImplementsAlarm == Alarms!Spec

\* Tasks of equal priority take turns: one that stays ready while none above it
\* is runs again and again.
AtTop(t) == \E p \in Prio : IsReady(k, t, p) /\ \A q \in Prio : q > p => k.ready[q] = <<>>

TakesTurns ==
  \A t \in Task : <>[](k.running /\ AtTop(t)) => []<>(k.current = t)
=============================================================================
