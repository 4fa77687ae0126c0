-------------------------- MODULE MCFreeRTOSQueues --------------------------
(***************************************************************************)
(* Two tasks, the idle task and an interrupt use a queue of two items, a   *)
(* counting semaphore, a mutex or a recursive mutex, by both APIs, with    *)
(* the sender below the receiver or above it, and with finite, no and      *)
(* endless waits (3 ticks are portMAX_DELAY).                              *)
(***************************************************************************)
EXTENDS FreeRTOSQueues

CONSTANTS t1, t2, idle

\* d1, d2 and isr are what t1, t2 and the interrupt do.
Runs2(kind, alternative, p1, p2, waits, d1, d2, isr) ==
  [kind |-> kind, alternative |-> alternative, waits |-> waits,
   priority |-> (t1 :> p1 @@ t2 :> p2 @@ idle :> 0),
   uses     |-> (t1 :> d1 @@ t2 :> d2 @@ idle :> {} @@ Interrupt :> isr)]

All == {"send", "receive", "nap"}

\* The receiver is above the sender, an interrupt sends too.
Receiving == Runs2("queue", FALSE, 1, 2, {2}, {"send"}, {"receive"}, {"send"})

\* The sender is above the receiver, an interrupt receives too.
Sending == Runs2("queue", FALSE, 2, 1, {2}, {"send"}, {"receive"}, {"receive"})

\* Items are sent to both ends and peeked at.
Peeking ==
  Runs2("queue", TRUE, 1, 2, {0, 2}, {"send", "front"}, {"peek", "receive"}, {"front"})

Signalling ==
  Runs2("semaphore", FALSE, 1, 2, {0, 3}, {"send"}, {"receive", "nap"}, {"send", "receive"})

Excluding == Runs2("mutex", FALSE, 1, 2, {0, 2}, All, All, {})

Nesting == Runs2("recursive", TRUE, 1, 2, {2, 3}, All, All, {})

AllPrograms == {Receiving, Sending, Peeking, Signalling, Excluding, Nesting}

Mutual == {Excluding}

\* The items are alike to the queue.
Symmetry == Permutations(Item)
=============================================================================
