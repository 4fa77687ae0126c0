# Models and proofs of the TTK4147 exercises

The repository holds the exercises of a course in real-time programming: small
C programs for Linux, Xenomai and FreeRTOS, and the vendored code that the
firmware of ex4 and ex5 is built from. Two kinds of code carry logic of their
own, and nearly all of it is about what concurrent threads, tasks, interrupts
and hosts may do to each other:

* the programs of the exercises (ex2, ex3, ex4, ex5, ex6, ex8);
* the parts of the firmware under them: the FreeRTOS scheduler and queues, and
  the USB serial port through which the board prints.

They are modelled here in TLA+, checked with TLC on small instances and, for the
programs with parameters, proved with TLAPS for all values of the parameters.

Paths: `ex5/main.c` stands for `ex5/AVR32 FreeRTOS Template/src/main.c`, and the
FreeRTOS and USB sources for those under `ex5/AVR32 FreeRTOS Template/src/asf`.
The template of ex4 has the same USB sources.

## 1. Inventory

| component | state | operations | what is hard, and what makes it correct |
|---|---|---|---|
| ex3/taskF dining philosophers | five fork mutexes, the mutex `waiter`, each thread's position, `i`, `just_ate` | `eat`, `eat_waiter`, `eat_safe`, main's join and destroy | deadlock and unfair mutexes; neighbours never eat together; a fork is put back on every path; main destroys only free mutexes |
| ex3/taskA, taskB counter (one source, built twice), ex3/taskC with a semaphore | `global_var`, loop counters, `sem` | `fn` in two threads, main's join, print, destroy | the increment is not atomic: how much can be lost; with the semaphore nothing is |
| ex3/taskD, taskE singleton (one source, built twice) | `g_singleton`, its members, `g_singletonInitSem` | `getSingleton`, `singletonUser` | publication before initialisation; a second creation; unchecked `malloc` |
| ex8, ex8/taskA–E Xenomai programs | semaphores, mutexes, priorities, task states | the tasks of six programs and their mains | a broadcast is not remembered; inversion and inheritance; opposite lock orders; nested ceilings; deletion after a time |
| ex2/taskB, C, D growing array | `data`, `front`, `back`, `capacity` | everything in array.c | reallocation after pops, indices beyond the block, copies that share the block |
| ex4 deferred interrupt handling | pin interrupt flags, `FLAG_A..C`, response pins | `interrupt_J3`, the loop of main | an edge between the response and the reset of the flag; the handler's preference for pin A |
| ex5 response tasks | task states, test and response pins | `responseTask`, `C`, `D`, `E`, main | polling tasks starve others; time slices; deadlines |
| FreeRTOS scheduler: tasks.c, list.c, port.c | ready, delayed, suspended, pending and terminated lists, tick count, current task, suspension depth, missed ticks and yields | create, delete, delay, delay until, suspend, resume, priority, tick, context switch, idle task, suspension of the scheduler | the wrapping counter and the swap of the delayed lists; ticks and interrupts while the scheduler is suspended; a yield wherever one is due |
| FreeRTOS queues: queue.c | ring of items, two positions, two event lists, lock counts, mutex holder | send, send to front, receive, peek, their alternative and interrupt versions, semaphores, mutexes, recursive mutexes | interrupts between looking and waiting; time-outs over retries; inheritance |
| USB serial port: udi_cdc.c, stdio_usb.c | two buffers per direction, positions, flags of transfers under way, the serial state | `putc`, `getc`, `write_buf`, `read_buf`, `signal`, the callbacks of transfers and frames | tasks against interrupts; configuration, reset, detachment and halts in the middle of anything |
| USB core and driver: udc.c, usbb_device.c | jobs, halts and banks of the endpoints; the control endpoint's state, payload and callback | the interrupt handlers; requests of the host | events in any order; requests given up half-way; data that fill their packets |
| ex6 periodic threads | wake time | `taskD_periodic`, `periodic_task` | carries of the nanoseconds; late rounds; a clock that is set |
| ex1, ex6 timespec arithmetic | | `timespec_normalized`, `timespec_add` | the range of the nanoseconds |
| ex7 periodic tasks, io.c, ex1 measurements, ex0 sort, ex2/taskA matrix, FreeRTOS timers and co-routines, other drivers | | | not modelled: section 7 |

How they interact. POSIX threads share variables and meet in mutexes,
semaphores and joins (ex3). Xenomai tasks on one CPU share semaphores and
mutexes and preempt each other by priority (ex8). An interrupt handler and the
main loop share volatile flags (ex4). The tasks of ex5 call the scheduler;
queues call the scheduler and share its lists; the serial port is shared by
tasks, by the handlers of frames and of transfers, and by the requests that the
control endpoint receives. The exercises do not call each other.

## 2. Modules

Each module says in its head what it translates. What has the name of a C
function is that function; a name of its own marks a part of one, or something
external. Names of the form `Operation_Bug` are deliberately wrong variants that
show that a property can fail; no specification uses them.

### Programs of ex2, ex3 and ex8

* `Philosophers` (over `DiningTable`) is ex3/taskF: one action per call on a mutex
  with the assignments up to the next one; `pc[p]` names the next call, `forks[f]`
  the owner. `strategy` says which function main has given the threads: the
  file keeps all three, and passes `eat_safe`. It implements `Dining`: neighbours do
  not eat together. `meals` is a history variable. Prints and sleeps take any time.
* `Counter` is ex3/taskA–C. With the flags of the Makefiles an increment is a load, an
  addition and a store, and the other thread may run in between; taskC puts it
  between `sem_wait` and `sem_post`. It implements `SharedCounter`.
* `Singleton` has one action per access to shared memory: both checks, the `malloc`,
  which may fail, each store of a member, each load of a user. The
  memory clobbers of `nonOptimizedBusyWait` and x86 keep the stores in order; the
  loads are unordered, since C leaves the evaluation of arguments open. It
  implements `Once`. `path` and `stale` are history variables.
* `XenoKernel` is the external kernel as ex8 uses it: one CPU, the highest ready task
  runs, hand-over to the first waiter, mutexes that lend priorities. A program
  is, for each task, the sequence of its calls: `BroadcastStart`,
  `PrioritySemaphore`, `PriorityInversion`, `PriorityInheritance`, `MutexDeadlock`,
  `CeilingProtocol`. A task's sleep may end at any time; main's sleeps are a hundred
  times longer than all the work and end when nothing else is ready or asleep.
* `DynamicArray` is array.c in its three versions, by the growth `factor`: `<<1,1>>`
  (taskB), `<<2,1>>` (taskC), `<<3,2>>` rounded down (taskD). `saved` is a copy of the
  struct, as `array_save` and the iterations make it. A write beyond the block ends
  the behaviour; until then the array implements `Deque`.

### The programs that answer the tester (ex4, ex5, ex6)

* `DeferredInterrupt` is ex4: the handler serves the first pin with its flag set, as
  one step; `Test`, `SetLow`, `SetHigh` and `Clear` are main's loop. The tester repeats an
  edge only if no response can come any more. `owed` and `late` are history variables.
* `ResponseTasks` is ex5 over the operators of `FreeRTOSKernel`: the real ready and
  delayed lists, the real context switch and `vTaskDelay`. Time is what the tick
  counts: a tick comes while the processor is busy waiting, looks at a pin that
  waits for no response, or is idle; all other code is short, so that at most
  one tick comes before the processor is back in such a place, but anywhere in it.
  `due` counts the ticks since a signal.
* `Timespec` and `PeriodicThread` are ex6: the thread adds the period to its wake time
  and sleeps by `CLOCK_REALTIME`, which goes on while it works and can be set.

### FreeRTOS

* `TickArithmetic`: the comparisons of `vTaskDelayUntil` and `xTaskCheckForTimeOut` as
  functions of the counter values.
* `FreeRTOSKernel`: the scheduler's data as one record, `k`, and each piece of tasks.c
  and list.c as an operator from record to record (`vListInsert`,
  `prvAddTaskToReadyQueue`, `vTaskIncrementTick`, `vTaskSwitchContext`,
  `xTaskResumeAll`, `vTaskPriorityInherit`, ...). A list is a sequence; a ready list
  begins after `pxIndex`.
* `FreeRTOSTasks` makes them the steps of tasks that use all of tasks.c against one
  another. A critical section is one step, together with the context switch it asks
  for; a delay is three, with interrupts between them. It implements `Alarm`: a
  sleep of n ticks ends at the n-th tick, or when the scheduler is released after it.
* `FreeRTOSQueues` adds a queue. A blocking call tries, suspends the scheduler, locks
  the queue, looks at its time and at the queue, waits, unlocks for what was sent
  and then for what was received, resumes the scheduler, yields and tries again,
  with interrupts between any two of these. It implements `Channel`.

The configuration options that the modelled code depends on are taken as set:
preemption, suspension, deletion, priorities, mutexes, recursive mutexes,
counting semaphores, the alternative API.

### USB

* `UsbEndpoints` (usbb_device.c): each endpoint with its job, its halt, the request for
  one, its banks and the interrupt of the empty bank. `udd_ep_alloc` acts on two kinds
  of endpoints: the one it allocates (`Allocated`), and every enabled one of a higher
  number, which it switches off and on again (`Reallocated`): so setting the data
  interface (endpoints 1 and 2) does that to the comm endpoint (3).
* `UsbCdc` (udi_cdc.c with the parts of udc.c and stdio_usb.c that act on it): the two
  buffers of each direction, the switch between them by tasks, frames and ends of
  transfers, the serial state and its message; configuration, SET_INTERFACE, reset,
  detachment, halt and its end. An interrupt handler is one step; so is a section
  of a task with interrupts disabled; in front of every other access of a task to
  shared variables an interrupt may come. It implements `SerialLine`: bytes come out
  in order, once each, until the line is cut. Three flaws of the code are part of
  that specification, each with its own condition: bytes of an older session after
  a configuration (`udi_cdc_data_enable` resets one length of two, udi_cdc.c:269);
  a byte nobody sent after an empty packet (the comparison of two variables that
  an interrupt changes together, udi_cdc.c:587); anything at all for a reader that
  was reading while the line was cut.
* `UsbControl` (usbb_device.c with `udc_process_setup`): the control endpoint's states,
  one action for each event that `udd_ctrl_interrupt` can find, in its order, and a
  host that gives requests up, goes to their end early, or moves too much. It
  implements `ControlPipe`: the data of a request come whole and in order, what is
  known is not refused, and an address is taken only after the answer.

Abstractions: nine data bits and the line coding are left out (so of the
callbacks of requests only `udc_valid_address` has an effect); the `udd_ep_run` of a
task is one step; a disabled endpoint loses its banks, its stall and its
interrupts, and its job, if nothing aborts it, goes on when it is enabled again; a start of frame is served before the next one; in `UsbCdc` a
configuration request is one step, and its packets are in `UsbControl`. The serial
states that a message reports once (parity, framing) and that are raised during
a message are cleared unsent (udi_cdc.c:408); `HostKnowsState` is about the
lasting ones. A message that waits in the bank of the comm endpoint when the host sets the
data interface is lost; `upset` remembers that until the next message has been sent. `udi_cdc_read_buf` copies out of the transmit buffers
(udi_cdc.c:629); the model says so, and promises nothing of what it reads.

## 3. Runs

| run | module | distinct states | bounds |
|---|---|---|---|
| philosophers | `Philosophers` | 315,609 | 4 philosophers, 3 rounds, each strategy |
| counter | `Counter` | 5,574 | 5 iterations, with and without semaphore |
| singleton | `Singleton` | 74,372 | 3 threads, 3 members |
| xenomai | `MCXenomai` | 1,041 | the six programs as they are |
| ceiling_protocol_doc | `CeilingProtocol` | | the program as it is |
| dynamic_array | `MCDynamicArray` | 407,260 | capacities 1 and 2, 5 insertions, 2 elements |
| scheduler | `FreeRTOSTasks` | 475,721 | 2 tasks and the idle task, 3 priorities, 4 counter values, 2 missed ticks |
| queue | `MCFreeRTOSQueues` | 527,476 (up to symmetry of the items) | 2 tasks, the idle task and an interrupt; 6 programs; 4 counter values; 2 items |
| queue_doc | `MCFreeRTOSQueues` | | the program with a mutex |
| responses | `MCResponses` | 258,839 | 3 pins in ex4; 4 set-ups in ex5, answers followed for 6 ticks; a second of 5, a period of 2 and 12 units of time in ex6 |
| cdc | `MCUsbCdc` | 159,585 | 2 tasks; buffers, packets of 2 bytes; 3 frames; 3 values of a byte; 9 control requests |
| cdc_doc | `MCUsbCdc` | | one writer and a host that halts |

What they show:

* **philosophers**: `WaitsOnlyForEaters` (with the waiter's permission nobody waits for
  someone who waits), `StuckOnlyInCircle` (the full circle of `eat` is the only
  deadlock), `DestroyedUnused`, `ImplementsDining`, `ProgramReturns` (unless the circle
  closes, main returns, and every due meal is eaten, although no mutex is fair).
* **counter**: `AtLeastTwo` (of all increments at least two survive any race),
  `ImplementsSharedCounter` (exact with the semaphore; without it nothing is invented).
* **singleton**: `StaleOnlyOnEarlyFastPath` (only who passes the first check during the
  initialisation can read an unset member), `ImplementsOnce`; no deadlock.
* **xenomai**: `LocksSound`, `NoInversion` (with inheritance), `StuckOnlyInCircle` (taskD),
  `BlocksOnlyAfterInnerUnlock` (taskE), `ExitsWithWorkDone`.
* **dynamic_array**: `OverflowOnlyWhenShifted` (a write leaves the block only after a pop
  at the front, or if the growth does not grow), `SavedReadable` (a copy may be read
  while the capacity is the same), `ImplementsDeque`.
* **scheduler**: `ListsConsistent`, `RunsHighest` (every call that must switch the context
  does), `Punctual` (`vTaskDelayUntil` over wraps), `ImplementsAlarm` (every sleep is
  exact to the tick), `TakesTurns` (equal priorities share the processor).
* **queue**: `NoStrandedWaiter` (no wake-up is lost between looking and waiting),
  `Inheritance`, `WaitsForTheRest` and `NeverGivesUpEarly` (time-outs are exact over
  retries and wraps), `ImplementsChannel`.
* **responses**: `LostOnlyIfLate`, `NoPhantomResponse`, `EdgesAnswered` for ex4; `InTime` and
  `SignalsAnswered` for ex5; `KeepsPace` for ex6. With main's priorities tasks A and B
  answer within 1 tick and C, which waits for 3 ms first, within 5; with equal
  priorities A and B need up to 3. Tasks that poll without sleeping answer at last
  if they share a priority, and starve those below them.
* **cdc**: `OngoingHasJob` (a direction is never marked busy without a job that will
  free it, but after named upsets), `OverrunOnlyByRivals` (only two tasks in `putc` at
  once write behind a buffer), `HostKnowsState` (a host that polls has been told the
  serial state, or will be, if one task signals; between a message lost by SET_INTERFACE
  and the next one it has not been), `ImplementsSerialLine`, `Flushed`
  (everything written gets to a host that polls, and no writer waits for ever),
  `ImplementsControlPipe`, `Answered` (a host that does not give a request up comes to
  its end, unless it goes to the end of an OUT request early).

Why the bounds are enough. Four philosophers have neighbours of neighbours that
are not neighbours, and three rounds a first, a next and a last iteration. Three
threads are one that initialises, one that overtakes it and one that waits. Five
insertions make an array of capacity 2 grow twice by half (2, 3, 4) and one of
capacity 1 twice by two, with pops at both ends before and after. The programs
of ex8 and the handler of ex4 have no bound. With four values of the tick
counter every sleep (1 to 3 ticks) can cross the wrap at each of its ticks, and
with two tasks both delayed lists can hold one, or one of them both; three
priorities put a task above, at and below another. A queue
of two items is empty, partly full and full, and its positions wrap; each
blocking call can be woken in vain and retry until its time is over. Buffers of
two bytes have the packet that fills them and the shorter one, and two buffers
per direction are all there are; three values of a byte tell order, loss and
doubling apart; a scene has up to five calls, two cuts, and a host that halts.
The control requests have data that are shorter than a packet, fill it, fill it
and are all that the host asked for, or need two.

Three MC modules hold systems that do not meet: a behaviour of `MCXenomai`,
`MCResponses` or `MCUsbCdc` is one of them, chosen in the initial state.

Named bounds: `MaxMissed` (ticks while the scheduler is suspended), `MaxLocked`
(sends and receives from interrupts while the queue is locked), `MaxDepth`
(recursive takes), `Overflows` (values of the overflow count), `MaxDue` (ticks
that `due` is followed), `MaxTime` and `MaxSets` (the clock of ex6), `MaxBytes`
(values of a byte), `Frames`; the calls and cuts of a scene. `Focus` in
`MCUsbCdc` keeps endpoints that no task of the scene uses at rest.
`CHECK_DEADLOCK FALSE` is set where a program may really stop, or the model ends
at a bound; each .cfg says which.

## 4. Fairness

* POSIX threads: weak fairness of each thread's steps. Mutexes and semaphores are
  not fair, and nothing needs them to be: every overtaker runs out of iterations.
* `XenoKernel`: the CPU runs some ready task and timers expire: weak fairness of the
  whole relation. `DeferredInterrupt`: the processor does not stop; the tester may.
* `FreeRTOSTasks`: the tick goes on, a suspended scheduler is resumed, and a task that
  has to yield does: weak fairness, written out with the condition in place of
  ENABLED.
* `ResponseTasks`: a tick may take the processor away before a task has made a step, at
  every turn. In the code it makes many instructions in a turn, so that a task
  which gets the processor again and again goes on: strong fairness of each task's
  steps, weak fairness of the tick.
* `UsbCdc`: frames start, the DMA and a host that is attached go on, tasks go on with
  their calls; the host need never send, configure or disturb. Contending
  writers are excluded from `Flushed` and from `SerialLine`: they can switch the
  buffers twice.
* `UsbControl`: interrupts are served, and a host that has been answered by NAK tries
  again. It may give up, and break off, at any time.

## 5. Findings

Runs that end in a violation, each against a statement of the source:

1. **queue_doc**: "To be running we must be the highest priority task wanting to
   access the queue" (queue.c:866). `vTaskPriorityDisinherit` takes a lent priority
   back without a yield; the task can take the mutex again while a task above it,
   whose wait has timed out, is ready and wants it.
2. **ceiling_protocol_doc**: `icpp_unlock` (ex8/taskE/main.c:58) restores the base
   priority also under an outer lock, so that a task blocks in `icpp_lock`. The
   recorded run in taskE.md shows it. `BlocksOnlyAfterInnerUnlock` says that nothing
   worse follows.
3. **cdc_doc**: the assertion at usbb_device.c:1548. Clearing a halt that waits for the
   banks to be empty leaves their interrupt enabled; without assertions the
   endpoint is stalled although the host has cleared the halt.

Seen on the way, and stated by the models rather than by runs of their own: the
flaws of the serial line above; a write behind the buffer by two tasks that print
(udi_cdc.c:670), as those of ex5 do; a message of the serial state that ends before
its flag is set leaves it set for ever (udi_cdc.c:391); SET_INTERFACE with a setting that
does not exist disables the interface first (udc.c:858); SET_INTERFACE of the data
interface switches the comm endpoint off and on (usbb_device.c:733-751), so that a message
of the serial state that the host has not read yet is lost, while the driver has
counted it as sent: the host does not know the state until it changes again; the callback of a request
that was given up runs at the next SETUP, so that an address is taken although the
handshake never came (usbb_device.c:1076; udd.h:91 has it "after reception of ZLP");
and a host that goes to the end of an OUT request early, after a packet has been
answered by NAK, waits for ever (usbb_device.c:1424: the older NAK is served
first, with both interrupts disabled).

## 6. Proofs

Eight modules `...Proofs` hold what is proved for all values of the constants:

* `PhilosophersProofs`: `TypeCorrect`, `Ownership`, `Pauses`, `SafeCleanup`,
  `NoWaitingChains`, `OnlyDeadlock`, `Implementation`. The inductive invariant is the types, that
  mutexes agree with program counters (otherwise an unlock might free
  somebody else's fork), the pause after a meal, and that main has joined whom it
  has passed. Who is stuck with a fork makes the right neighbour stuck, so the
  stuck are closed under `Right`; such a set is the whole table, or the positions
  outside it would have a least element.
* `CounterProofs`: `ExactCount`, `LowerBound`, `SafeDestroy`, `Implementation`. For the lower
  bound: once a thread has stored, the counter, and whatever that thread has
  loaded since, is at least one; so its next store leaves at least two.
* `SingletonProofs`: `StaleReads`, `NoNull`, `Implementation`.
* `DynamicArrayProofs`: `SafeInsertion`, `SafeIteration`, `Implementation`. The invariant adds
  that every element is written and that capacities only grow, so that an equal
  capacity means the same block.
* `ResponsesProofs`: `LossOnlyInWindow`, `OnlyEdgesAnswered`, for the handler of ex4. The
  invariant adds that a pin which is owed a response while main answers it has a late
  edge: that is why `Clear` may reset the flag without looking. And `PaceOfAll`, for the
  periodic thread of ex6: the invariant is that its next wake time is the start and a
  whole number of periods, and normalised, so that the comparison of a `timespec` is the
  comparison of the times; it asks of the period only that it is a number
  (`PeriodAssumption`).
* `FreeRTOSTasksProofs`, about the kernel: one lemma per operator, what it does to the
  lists and to the record (`ReadyAdded`, `Slept`, `Woken`, `Ticked`, `ResumedAll`, ...). And
  for a counter of any width, `ShouldDelayIsRight` (the decision of `vTaskDelayUntil`,
  within a turn of the last wake time), `TimedOutIsRight` and `DeductionIsRight` (the
  decision of `xTaskCheckForTimeOut`, if less than a turn more than the time has passed,
  and the rest of the wait). They rest on one lemma: the remainder of a difference of
  less than a turn is the difference or a turn more.
* The same, about the task control: `SchedulerInvariant`, `ListsAlwaysConsistent` (`ListsConsistent`),
  `HighestAlwaysRuns` (`RunsHighest`), `AlwaysPunctual` (`Punctual`) and `SchedulerIsAlarm`
  (`ImplementsAlarm`), for any tasks, priorities, width of the counter and number of
  missed ticks. The lists alone are
  not inductive: a step removes a task from the list it is in, and every other list must be
  known not to hold it. So `IInv` says that there is a function `H` from tasks to
  places (ready, delayed, overflow, suspended, terminated, none) such that every list holds
  exactly the tasks it is the place of, once each (`Good`), and the two delayed lists are
  sorted and hold the wake times of this and of the next turn of the counter (`Times`). `Base` adds
  what the calls rest on: no priority is lent, only the running task suspends the
  scheduler, the idle task is always ready and frees a task only when there is
  one. `InCharge` is `RunsHighest` with what it needs in the middle of a delay and before
  the start. `WakeTimes` ties the last wake time of a periodic task to the counter, for
  `AlwaysPunctual`. The loops of `prvCheckDelayedTasks` and `xTaskResumeAll` are
  recursive functions of the number of turns; what holds after any number of them
  follows from the well-foundedness of `<` on the numbers (`Induction`). TLC has checked
  `IInv` on all states of the run `scheduler` before.

  For the refinement, `Rest` is what a task has left to sleep, reckoned from its list and
  wake time without a modulus. Each lemma about a kernel operator says what becomes of it:
  nothing changes (`Alike`) or n ticks pass (`Later`, over the wrap, where the lists
  change their roles). So each step has one of six effects (`Effect`): none, a task
  goes another way than to sleep, the scheduler is held, a task falls asleep, the missed
  ticks pass as it is released, a tick passes or is missed. Each effect is a step of
  `Alarm`, or none (`AlarmStep`).

* `FreeRTOSQueuesProofs`, the queue as data: `QueueIsChannel` (`ImplementsChannel`), for any
  items, length, tasks and programs. The invariant is that `pcWriteTo` is as many slots
  after `pcReadFrom` as there are items, and one, around the ring. The contents are
  then the slots from the one after `pcReadFrom` on, and each way to copy an item
  is a sequence operation on them (`BackHeld`, `FrontHeld`, `RemovedHeld`). It
  holds whatever the scheduler does, because each attempt is one critical section;
  of the calls it uses that the item a task brings is one.
* The same, on waiting and waking: `QueueTimes`, `AlwaysWaitsForTheRest` (`WaitsForTheRest`),
  `NoneGivesUpEarly` (`NeverGivesUpEarly`), `NobodyIsStranded` (`NoStrandedWaiter`) and
  `AlwaysInherits` (`Inheritance`), for any tasks, programs, items, length of the queue,
  priorities, width of the counter, missed ticks and depth of recursion. The four
  properties rest on one another's ground:

  `Frame` is what holds between any two steps of calls, ticks and interrupts. To the places
  of the tasks (`Good`, `Times`) it adds, for each task, how its place, the step of its
  call and the lists of events agree (`Standing`): who waits at a queue or was woken while the
  scheduler was suspended is in the middle of a call, on the list that the call uses; who has
  suspended the scheduler is the current task. `Working` is about the kernel as a whole,
  `Latched` says that the locks of the queue belong to a call between `prvLockQueue` and
  `prvUnlockQueue`, `Owned` that a mutex is full when it has no holder and that only its holder gives it.

  `Timing` ties the age of each call, counted by the model, to what the code keeps of it: the
  ticks it still has, the time of its last attempt, and what its sleep has left. They
  add up to what was asked, until a turn of the counter is over. `TimedInvariant` is both.

  `Fed` (`Met`, for each list of events): as long as somebody waits at the queue or
  is about to, what they wait for is at most as much as there are tasks that will yet look
  (`Trying`), and what interrupts have left to the task that has locked the queue (`Saved`).
  A task that counts itself out, because it found nothing, must have looked after the last
  item came, or that item is saved in the lock: this is the race between looking and
  waiting. When all is quiet nobody tries and nothing is saved. The tasks that
  try are counted, which is why the set of tasks has to be finite.

  `Lending`: only the holder of a mutex has more than its own priority, it has that of every
  waiter, and the list of those is in the order of priorities. What makes it inductive is the moment after
  a mutex was given: until it is taken, there is an `Heir`, ready and about to take it,
  whom no waiter exceeds and below whom nobody runs. So whoever takes the mutex
  first has at least the priority of every waiter. That needs waiters: when the last one has
  given up, a task below others may run on and take the mutex again, and this is the finding
  about queue.c:866 in section 5.

  The lemmas about the lists of events that they need (`vTaskPlaceOnEventList`,
  `xTaskRemoveFromEventList`, inheritance) are about the kernel's record alone and
  are in `FreeRTOSTasksProofs`.
* `UsbProofs`, for `UsbCdc`: `TypeCorrect`, `FlagsHaveJobs` (`OngoingHasJob`), `NoOverrun`
  (`OverrunOnlyByRivals`) and `HostIsTold` (`HostKnowsState`), for any tasks, calls, and sizes
  of buffers and packets. The inductive invariant has three parts above the types.
  `JobInv`: each flag belongs to a job or to a request for one, and each job to the
  buffer it was started with; an upset is the only way out of that. `RoomInv`: a task
  that has found room in a buffer is the only one past the test, or another one is
  in `putc` too, so the room is still there when it writes. `StateInv`: what the
  host has not been told is in a message that is under way, or in the hands of the
  task that signals, unless the last message has been lost with no other after it (`Kept`);
  with two such tasks each may leave the message to the other,
  which is why the property asks for one.

  `PortIsSerialLine` is the refinement of `SerialLine` (`ImplementsSerialLine`). Its
  invariant has a half for each direction. `WriterInv`: the buffers and banks
  toward the host, in the order in which the host will see them, are in the order in which the
  bytes were made, and a task that switches the buffers switches each only once.
  `ReaderInv` has three layers, one for each state of `trust`. Whatever befalls the line a
  reader stays inside its buffer (`InBuffer`), which is what a cut under its hands leaves. While
  there is trust in the line, jobs fill the buffer that is not read, and a reader starts the
  job that it has claimed (`InTurn`, `Orderly`). While it is firm, no packet was empty and
  a reader reads only what is there (`Exact`). The line itself is a concatenation of any number of
  packets. What that is for every number of them (`FlattenHead`, `FlattenAppend`) is an
  induction, done with a least counterexample: the library's theorem that the natural numbers
  are well founded needs no operator for a parameter. The theorem asks for at most one
  reader (`OneReaderEver`): `udi_cdc_getc` looks and reads in separate steps, and two readers
  are promised nothing; there may be any number of writers, and those that contend are
  promised nothing either. The attempt to prove it showed that `Cut` had been too strict: a
  reset (`udc_reset`) that ends a line on which an empty packet has come leaves trust as it is,
  "weak", until a configuration begins a new line; no scene of the run gets that far.
* `UsbProofs`, for `UsbControl`: `ControlInvariant` and `ControlPipeKept`
  (`ImplementsControlPipe`), the refinement of `ControlPipe`, for any requests and any packet size above one. The invariant `Inv` says for each
  state of the driver what the host is doing, how much has moved, and what the
  packet that waits holds (`DataIn`, `WaitOut`, `DataOut`, `WaitIn`), in the time between
  a SETUP packet that was handled and the next. In `DataIn` the last packet is the
  one that does not fill its bank, or the one that follows data that fill theirs;
  it rests on `PacketFacts`, about the remainder by the packet size. An address
  request has no data (`udc_req_std_dev_set_address` refuses others), so that
  the callback of `udc_valid_address` lives only in `wait_in`.

The assumptions are the named ASSUMEs: at least two philosophers, at least two
iterations, positive capacities and rounds, an idle task, values distinct
from the null pointer, fewer ticks missed while the scheduler is suspended than the
counter has values but one; of a queue, that it has two lists of events and finitely
many tasks, that an interrupt is no task, and that what a call answers is no item;
of the serial port, that there are finitely many tasks and that the host counts its bytes to a bound;
and `ControlAssumption`, that a request has data in one
direction and not more than the host asked for (udc.c:722), that an address has none,
and that a packet has more than one byte. TLC evaluates them in the runs.

Only model-checked:

* liveness under fairness (`ProgramReturns`, `ExitsWithWorkDone`, `EdgesAnswered`,
  `SignalsAnswered`, `TakesTurns`, `Flushed`, `Answered`), which the prover does not support;
* ex8 (`MCXenomai`), whose programs have no parameters: TLC sees every schedule of
  them, and a proof would say no more;
* `InTime` of the response tasks, a bound on the ticks from a signal to its answer: the
  tasks and their delays are those of ex5, so here too the instance is the program.

## 7. Plan, and what is not modelled

Next, in order:

1. The line coding of udi_cdc.c, whose payload is the live variable; the nine data bits.
2. ex7, if its periods are to be followed into Xenomai.

Limits of what is modelled:

* Queues: `vTaskPrioritySet` on a task that waits leaves the event list unordered
  (tasks.c:875), so the tasks of `FreeRTOSQueues` keep their base priorities. A wait that is
  only resumed after two wraps of the counter is taken for not yet over
  (tasks.c:1908): `WaitsForTheRest` ends after a turn. A woken task that is deleted or
  suspended before it runs strands the item it was woken for; tasks there delete
  and suspend nobody.
* `malloc` failing in array.c, and overflow of `long`; `rt_mutex_delete` under a
  deadlock (ex8/taskD), which wakes a waiter that ignores the error; what happens
  after a write beyond a buffer or after a failed assertion.
* USB: the data toggles, and a DMA transfer whose endpoint is switched off and on in its
  middle; a SETUP packet of a wrong length, the contents of descriptors, requests that
  only report, remote wake-up, suspend and resume, isochronous endpoints.
* How long delays and loops take, but for what sections 2 and 4 say.

Not modelled:

* ex7: its periods are kept by `rt_task_wait_period`, outside the repository. io.c of ex6
  and ex7: calls of the comedi library (a failed read returns 0, the active level;
  who cannot read the card answers signals that are not there).
* ex1: programs that call a clock in a loop and print; of their arithmetic only what
  ex6 uses. ex0 and ex2/taskA: sequential, without state to speak of.
* FreeRTOS timers, co-routines, trace and statistics: not part of the configuration.
* `taskA` of ex5, which blinks and prints and is not started; its printing is `UsbCdc`'s.
* The other drivers, board support and start-up code: register accesses.
