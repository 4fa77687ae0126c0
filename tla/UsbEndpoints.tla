----------------------------- MODULE UsbEndpoints -----------------------------
(***************************************************************************)
(* usbb_device.c: the transfer jobs of the bulk and interrupt endpoints.   *)
(* A job is a buffer that the DMA moves to or from the banks of the        *)
(* endpoint; the host empties and fills the banks.  An endpoint can be     *)
(* halted by the host, at once when its banks are empty and otherwise when *)
(* they have become so.                                                    *)
(*                                                                         *)
(* The hardware: a bank holds one packet, a USB reset switches the         *)
(* endpoints off, and an endpoint that is switched off loses its banks,    *)
(* its stall and its interrupts.  The memory of the endpoints is allotted  *)
(* in the order of their numbers, 1 for in, 2 for out and 3 for comm.      *)
(***************************************************************************)
EXTENDS Integers, SequencesExt

CONSTANT Banks       (* the banks of an endpoint; UDD_BULK_NB_BANK          *)

ASSUME BanksAssumption == Banks \in Nat \ {0}

EPs == {"in", "out", "comm"}

VARIABLES ep,        (* the state of each endpoint and of its job          *)
          bank,      (* the packets in the banks of each endpoint          *)
          failed     (* an Assert has failed                                *)

epVars == <<ep, bank, failed>>

\* on: enabled; stalled: it answers STALL; wanted: stall_requested; watch: the
\* interrupt of an empty bank is enabled; busy, job: the job and what it moves.
Off == [on |-> FALSE, stalled |-> FALSE, wanted |-> FALSE, watch |-> FALSE,
        busy |-> FALSE, job |-> <<>>]

\* Whether udd_ep_run accepts a job, and the endpoint after the call.
Accepts(x) == x.on /\ ~x.stalled /\ ~x.wanted /\ ~x.busy
Run(x, j) == IF Accepts(x) THEN [x EXCEPT !.busy = TRUE, !.job = j] ELSE x

Finished(x) == [x EXCEPT !.busy = FALSE]

\* udd_ep_free, and udd_ep_alloc.  Nothing withdraws the request to stall.
Freed(x) == [Off EXCEPT !.wanted = x.wanted]
Allocated(x) == [x EXCEPT !.on = TRUE]

\* What udd_ep_alloc does to an endpoint of a higher number than the one that it
\* allocates: an enabled one is switched off and on again.  Its job goes on.
Reallocated(x) == IF x.on THEN [x EXCEPT !.stalled = FALSE, !.watch = FALSE] ELSE x

Drained(B) == [e \in EPs |-> IF e \in B THEN <<>> ELSE bank[e]]

-----------------------------------------------------------------------------
\* SET_FEATURE(ENDPOINT_HALT).  An endpoint with a job is not halted.
SetHalt(e) ==
  /\ ~ep[e].busy
  /\ ep' = [ep EXCEPT ![e] = IF bank[e] # <<>>
                               THEN [@ EXCEPT !.wanted = TRUE, !.watch = TRUE]
                               ELSE [@ EXCEPT !.stalled = TRUE]]
  /\ UNCHANGED <<bank, failed>>

\* CLEAR_FEATURE(ENDPOINT_HALT).  The interrupt of an empty bank stays enabled.
ClearHalt(e) ==
  /\ ep[e].stalled \/ ep[e].wanted
  /\ ep' = [ep EXCEPT ![e].stalled = FALSE, ![e].wanted = FALSE]
  /\ UNCHANGED <<bank, failed>>

\* udd_ep_interrupt: the banks are empty, and the endpoint is stalled now.  The
\* code asserts that this has been requested.
BankEmpty(e) ==
  /\ ep[e].watch /\ bank[e] = <<>>
  /\ ep' = [ep EXCEPT ![e].watch = FALSE, ![e].wanted = FALSE, ![e].stalled = TRUE]
  /\ failed' = ~ep[e].wanted
  /\ UNCHANGED bank

\* The host reads a packet from an endpoint, or writes one to it.
HostReads(e) ==
  /\ ep[e].on /\ ~ep[e].stalled /\ bank[e] # <<>>
  /\ bank' = [bank EXCEPT ![e] = Tail(@)]
  /\ UNCHANGED <<ep, failed>>

HostWrites(e, p) ==
  /\ ep[e].on /\ ~ep[e].stalled /\ Len(bank[e]) < Banks
  /\ bank' = [bank EXCEPT ![e] = Append(@, p)]
  /\ UNCHANGED <<ep, failed>>
=============================================================================
