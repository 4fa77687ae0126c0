------------------------------ MODULE ControlPipe ------------------------------
(***************************************************************************)
(* What the control pipe promises a USB host.  The host asks for one       *)
(* request at a time; data move in their order; and a request that the     *)
(* device knows is done, not refused, and is done only when all its data   *)
(* have moved, unless the host itself breaks off.  The device takes a new  *)
(* address only after the host has had the answer or has broken off, and   *)
(* before it answers anything else.                                        *)
(***************************************************************************)
EXTENDS Integers

CONSTANTS Requests, None, MostMoved

VARIABLES asked,      (* the request of the host                            *)
          got,        (* the bytes of it that have moved                    *)
          end,        (* "no", or how it ended: "done" or "refused"         *)
          broken,     (* the host has not kept to the request               *)
          address,    (* the address of the device                          *)
          owed,       (* the address that it is going to take, or None      *)
          due         (* the host has had the answer to that, or broken off *)

vars == <<asked, got, end, broken, address, owed, due>>

Init ==
  /\ asked = None /\ got = 0 /\ end = "done" /\ broken = FALSE
  /\ address = 0 /\ owed = None /\ due = FALSE

\* What the device has to say or to be told, and whether it knows the request.
Bytes(r) == IF r.in THEN r.payload ELSE r.length
Known(r) == r.kind # "unknown" /\ (r.kind = "configure" => address # 0)

Ask(r) ==
  /\ asked' = r /\ got' = 0 /\ end' = "no" /\ broken' = FALSE
  /\ due' = (owed # None)
  /\ UNCHANGED <<address, owed>>

Accept ==
  /\ end = "no" /\ asked.kind = "address" /\ (owed # None => due)
  /\ address' = IF owed # None THEN owed ELSE address
  /\ owed' = asked.value /\ due' = broken
  /\ UNCHANGED <<asked, got, end, broken>>

Move(n) ==
  /\ end = "no" /\ (due => broken)
  /\ got + n <= Bytes(asked) /\ got' = got + n
  /\ UNCHANGED <<asked, end, broken, address, owed, due>>

\* The host has got the answer, and the device its data.
Done ==
  /\ end = "no" /\ (due => broken)
  /\ broken \/ got = Bytes(asked)
  /\ asked.kind = "address" => owed = asked.value
  /\ end' = "done" /\ due' = (owed # None)
  /\ UNCHANGED <<asked, got, broken, address, owed>>

Refuse ==
  /\ end = "no" /\ (due => broken)
  /\ broken \/ ~Known(asked)
  /\ end' = "refused"
  /\ UNCHANGED <<asked, got, broken, address, owed, due>>

BreakOff ==
  /\ end = "no" /\ broken' = TRUE
  /\ due' = (owed # None)
  /\ UNCHANGED <<asked, got, end, address, owed>>

TakeAddress ==
  /\ owed # None /\ due
  /\ address' = owed /\ owed' = None /\ due' = FALSE
  /\ UNCHANGED <<asked, got, end, broken>>

Forget ==
  /\ owed # None /\ broken /\ end # "done"
  /\ owed' = None /\ due' = FALSE
  /\ UNCHANGED <<asked, got, end, broken, address>>

Reset ==
  /\ end' = "done" /\ got' = 0 /\ asked' = None /\ broken' = FALSE
  /\ address' = 0 /\ owed' = None /\ due' = FALSE

Next ==
  \/ \E r \in Requests : Ask(r)
  \/ Accept \/ Done \/ Refuse \/ BreakOff \/ TakeAddress \/ Forget \/ Reset
  \/ \E n \in 1 .. MostMoved : Move(n)

Spec == Init /\ [][Next]_vars
=============================================================================
