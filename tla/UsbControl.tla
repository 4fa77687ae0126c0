------------------------------ MODULE UsbControl ------------------------------
(***************************************************************************)
(* usbb_device.c: the control endpoint, through which a USB host configures *)
(* the device, with the requests that udc.c and udi_cdc.c answer.          *)
(*                                                                         *)
(* A request is a SETUP packet, data packets in one direction and an empty *)
(* packet in the other.  The controller answers NAK to what the driver is  *)
(* not ready for, and STALL when it has been told to; a SETUP packet is    *)
(* always received, and withdraws a packet for the host and the STALL.     *)
(* The host may give a request up at any time with a new SETUP packet, and *)
(* may go to the end of a request too early, or send or ask for more than  *)
(* there is.                                                               *)
(*                                                                         *)
(* An interrupt is one step.  No request of this device has an             *)
(* over_under_run callback.  The only other callback with an effect is     *)
(* udc_valid_address.                                                      *)
(***************************************************************************)
EXTENDS Integers

CONSTANTS ControlRequests,  (* what the host may ask for                 *)
          CtrlSize,         (* USB_DEVICE_EP_CTRL_SIZE; 64               *)
          None

\* What udc.c makes of requests: data for the host are cut to what it asks for,
\* and an address comes without data.  A control endpoint has 8 to 64 bytes.
ControlAssumption ==
  /\ CtrlSize \in Nat /\ CtrlSize > 1
  /\ None \notin ControlRequests /\ None \notin [of : ControlRequests, from : Nat, size : Nat]
  /\ \A r \in ControlRequests :
       /\ r.in \in BOOLEAN /\ r.length \in Nat /\ r.payload \in Nat /\ r.value # None
       /\ r.in => r.payload <= r.length
       /\ r.kind = "address" => ~r.in /\ r.length = 0

VARIABLES ep0,         (* the driver's variables and the controller's flags *)
          address,     (* the address of the device                        *)
          asked,       (* the request of the host, or None                 *)
          stage,       (* where the host is in it                          *)
          put,         (* the bytes that the host has sent for it          *)
          got,         (* history: the bytes that have come to where they  *)
                       (* should; -1 after a wrong one                     *)
          broken       (* history: the host did not keep to the request    *)

controlVars == <<ep0, address, asked, stage, put, got, broken>>

hostVars == <<asked, stage, put>>

\* Some bytes of a request; Nothing is an empty packet.
Packet(r, from, n) == [of |-> r, from |-> from, size |-> n]
Nothing(r) == Packet(r, 0, 0)

Lesser(a, b) == IF a < b THEN a ELSE b

\* state, req, moved, size, zlp and callback are udd_ep_control_state,
\* udd_g_ctrlreq.req, udd_ctrl_payload_nb_trans, udd_g_ctrlreq.payload_size,
\* udd_ctrl_payload_need_in_zlp and whether udd_g_ctrlreq.callback is
\* udc_valid_address.  setup, out and in are the packets that wait, and sends,
\* watchIn and watchOut the interrupts that are enabled on the end of in and on
\* NAKs that have been sent; nakIn and nakOut say that one has been.
AfterReset ==
  [state |-> "setup", req |-> None, moved |-> 0, size |-> 0, zlp |-> FALSE,
   callback |-> FALSE, setup |-> None, out |-> None, in |-> None, sends |-> FALSE,
   watchIn |-> FALSE, watchOut |-> FALSE, nakIn |-> FALSE, nakOut |-> FALSE,
   stall |-> FALSE]

ControlInit ==
  /\ ep0 = AfterReset /\ address = 0
  /\ asked = None /\ stage = "done" /\ put = 0 /\ got = 0 /\ broken = FALSE

-----------------------------------------------------------------------------
(* The driver *)

udd_ctrl_init(x) ==
  [x EXCEPT !.sends = FALSE, !.out = None, !.callback = FALSE, !.size = 0,
            !.state = "setup"]

udd_ctrl_stall_data(x) == [x EXCEPT !.state = "stall", !.stall = TRUE]

udd_ctrl_send_zlp_in(x) ==
  [x EXCEPT !.state = "wait_in", !.in = Nothing(x.req), !.sends = TRUE,
            !.nakOut = FALSE, !.watchOut = TRUE]

udd_ctrl_send_zlp_out(x) ==
  [x EXCEPT !.state = "wait_out", !.nakIn = FALSE, !.watchIn = TRUE]

\* udd_ctrl_endofrequest, with udc_valid_address: the address after it.
EndOfRequest(x) == IF x.callback THEN x.req.value ELSE address

\* Plausible bug: the length of the data alone decides about an empty packet.
SendData_NoZlp(x) ==
  LET left == x.size - x.moved
      n    == Lesser(left, CtrlSize)
  IN  IF left = 0 THEN udd_ctrl_send_zlp_out([x EXCEPT !.sends = FALSE])
      ELSE IF x.out # None THEN [x EXCEPT !.state = "wait_out", !.sends = FALSE]
      ELSE [x EXCEPT !.in = Packet(x.req, x.moved, n), !.moved = @ + n, !.sends = TRUE]

\* The next packet of an IN request: data, or an empty one after data that fill
\* their packets.  There is none when the host has gone to the end already.
SendData(x) ==
  LET left == x.size - x.moved
      n    == Lesser(left, CtrlSize)
      y    == [x EXCEPT !.sends = FALSE, !.zlp = @ /\ left > 0]
  IN  IF left = 0 /\ ~x.zlp THEN udd_ctrl_send_zlp_out(y)
      ELSE IF x.out # None THEN [y EXCEPT !.state = "wait_out"]
      ELSE [y EXCEPT !.in = Packet(x.req, x.moved, n), !.moved = @ + n, !.sends = TRUE]

\* udc_process_setup: whether the request is known when the address is a.
Known(r, a) == r.kind # "unknown" /\ (r.kind = "configure" => a # 0)

\* What follows the decoding of request r.
Decoded(x, r) ==
  LET y == [x EXCEPT !.req = r, !.setup = None, !.callback = r.kind = "address",
                     !.size = IF r.in THEN r.payload ELSE r.length]
  IN  IF r.in THEN SendData([y EXCEPT !.zlp = y.size % CtrlSize = 0, !.moved = 0,
                                      !.state = "data_in"])
      ELSE IF r.length = 0 THEN udd_ctrl_send_zlp_in(y)
      ELSE [y EXCEPT !.moved = 0, !.state = "data_out", !.nakIn = FALSE, !.watchIn = TRUE]

Refused(x, r) ==
  udd_ctrl_stall_data([x EXCEPT !.req = r, !.setup = None, !.callback = FALSE, !.size = 0])

-----------------------------------------------------------------------------
(* udd_ctrl_interrupt: each of these is the handling of one event.  The      *)
(* interrupts on NAKs are disabled first.                                    *)

Entered == [ep0 EXCEPT !.watchIn = FALSE, !.watchOut = FALSE]

Sent     == ep0.in = None /\ ep0.sends
ControlSignal ==
  \/ ep0.setup # None \/ Sent \/ ep0.out # None
  \/ (ep0.nakIn /\ ep0.watchIn)
  \/ (ep0.nakOut /\ ep0.watchOut)

\* Plausible bug: the new request is in place when the old one is ended.
SetupReceived_EndsLate ==
  /\ ep0.setup # None
  /\ LET x == IF ep0.state # "setup" THEN udd_ctrl_init(Entered) ELSE Entered
     IN  /\ address' = IF ep0.callback THEN ep0.setup.value ELSE address
         /\ ep0' = IF Known(ep0.setup, address') THEN Decoded(x, ep0.setup)
                                                 ELSE Refused(x, ep0.setup)
  /\ UNCHANGED <<hostVars, got, broken>>

\* A request that has not come to its end is ended as if it had.
SetupReceived ==
  /\ ep0.setup # None
  /\ address' = IF ep0.state # "setup" THEN EndOfRequest(ep0) ELSE address
  /\ LET x == IF ep0.state # "setup" THEN udd_ctrl_init(Entered) ELSE Entered
     IN  ep0' = IF Known(ep0.setup, address') THEN Decoded(x, ep0.setup)
                                              ELSE Refused(x, ep0.setup)
  /\ UNCHANGED <<hostVars, got, broken>>

InSent ==
  /\ ep0.setup = None /\ Sent
  /\ IF ep0.state = "wait_in"
       THEN ep0' = udd_ctrl_init(Entered) /\ address' = EndOfRequest(ep0)
       ELSE ep0' = SendData(Entered) /\ UNCHANGED address
  /\ UNCHANGED <<hostVars, got, broken>>

\* A packet in the data phase of an OUT request
OutData ==
  /\ ep0.setup = None /\ ~Sent /\ ep0.out # None /\ ep0.state = "data_out"
  /\ LET n == Lesser(ep0.out.size, ep0.size - ep0.moved)
         x == [Entered EXCEPT !.out = None, !.moved = @ + n]
     IN  /\ ep0' = IF n # CtrlSize \/ ep0.req.length <= x.moved THEN udd_ctrl_send_zlp_in(x)
                   ELSE IF x.moved = x.size THEN udd_ctrl_stall_data(x)
                   ELSE [x EXCEPT !.nakIn = FALSE, !.watchIn = TRUE]
         /\ got' = IF ep0.out.of = asked /\ ep0.out.from = got THEN got + n ELSE -1
  /\ UNCHANGED <<hostVars, address, broken>>

\* A packet that ends an IN request, or comes when none should
OutEnds ==
  /\ ep0.setup = None /\ ~Sent /\ ep0.out # None /\ ep0.state # "data_out"
  /\ IF ep0.state \in {"data_in", "wait_out"}
       THEN ep0' = udd_ctrl_init(Entered) /\ address' = EndOfRequest(ep0)
       ELSE ep0' = udd_ctrl_init(udd_ctrl_stall_data(Entered)) /\ UNCHANGED address
  /\ UNCHANGED <<hostVars, got, broken>>

\* udd_ctrl_overflow and udd_ctrl_underflow: the host asks for the wrong direction.
Overflow ==
  /\ ControlSignal /\ ep0.setup = None /\ ~Sent /\ ep0.out = None
  /\ ep0.nakOut
  /\ ep0' = [Entered EXCEPT !.nakOut = FALSE,
                            !.stall = @ \/ (ep0.state = "wait_in" /\ ep0.in # None)]
  /\ UNCHANGED <<hostVars, address, got, broken>>

Underflow ==
  /\ ControlSignal /\ ep0.setup = None /\ ~Sent /\ ep0.out = None
  /\ ep0.nakIn /\ ~ep0.nakOut
  /\ LET x == [Entered EXCEPT !.nakIn = FALSE]
     IN  ep0' = IF ep0.state = "data_out" THEN udd_ctrl_send_zlp_in(x)
                ELSE [x EXCEPT !.stall = @ \/ ep0.state = "wait_out"]
  /\ UNCHANGED <<hostVars, address, got, broken>>

udd_ctrl_interrupt ==
  SetupReceived \/ InSent \/ OutData \/ OutEnds \/ Overflow \/ Underflow

-----------------------------------------------------------------------------
(* The host and the controller *)

Setup(r) ==
  /\ ep0' = [ep0 EXCEPT !.setup = r, !.in = None, !.stall = FALSE]
  /\ asked' = r /\ put' = 0 /\ got' = 0 /\ broken' = FALSE
  /\ stage' = IF r.in \/ r.length > 0 THEN "data" ELSE "status"
  /\ UNCHANGED address

Open == stage \in {"data", "status"}

\* The directions of the packets that the host reads and writes.
Reads  == Open /\ asked.in = (stage = "data")
Writes == Open /\ ~Reads

Stalled ==
  /\ Open /\ ep0.setup = None /\ ep0.stall
  /\ stage' = "refused"
  /\ UNCHANGED <<ep0, address, asked, put, got, broken>>

\* A packet from the device
ReadsData ==
  /\ Reads /\ ep0.setup = None /\ ~ep0.stall /\ ep0.in # None
  /\ ep0' = [ep0 EXCEPT !.in = None]
  /\ got' = IF stage = "data" /\ ep0.in.of = asked /\ (ep0.in.size > 0 => ep0.in.from = got)
              THEN got + ep0.in.size
            ELSE IF stage = "status" /\ ep0.in.size = 0 THEN got
            ELSE -1
  /\ stage' = IF stage = "status" THEN "done"
              ELSE IF ep0.in.size < CtrlSize \/ got' = asked.length THEN "status" ELSE "data"
  /\ UNCHANGED <<address, asked, put, broken>>

\* A packet to the device
WritesData ==
  /\ Writes /\ ep0.setup = None /\ ~ep0.stall /\ ep0.out = None
  /\ LET n == IF stage = "data" THEN Lesser(CtrlSize, asked.length - put) ELSE 0
     IN  /\ ep0' = [ep0 EXCEPT !.out = Packet(asked, put, n)]
         /\ put' = put + n
         /\ stage' = IF stage = "status" THEN "done"
                     ELSE IF put' = asked.length THEN "status" ELSE "data"
  /\ UNCHANGED <<address, asked, got, broken>>

NakIn ==
  /\ Reads /\ (ep0.setup # None \/ (~ep0.stall /\ ep0.in = None))
  /\ ep0' = [ep0 EXCEPT !.nakIn = TRUE]
  /\ UNCHANGED <<address, hostVars, got, broken>>

NakOut ==
  /\ Writes /\ (ep0.setup # None \/ (~ep0.stall /\ ep0.out # None))
  /\ ep0' = [ep0 EXCEPT !.nakOut = TRUE]
  /\ UNCHANGED <<address, hostVars, got, broken>>

\* The host goes to the end before all data have moved.
GoesToEnd ==
  /\ stage = "data" /\ stage' = "status" /\ broken' = TRUE
  /\ UNCHANGED <<ep0, address, asked, put, got>>

\* The host asks for more data, or sends more, than there are.
ReadsMore ==
  /\ stage = "status" /\ asked.in /\ ep0.setup = None /\ ~ep0.stall
  /\ ep0' = IF ep0.in = None THEN [ep0 EXCEPT !.nakIn = TRUE] ELSE [ep0 EXCEPT !.in = None]
  /\ broken' = TRUE
  /\ UNCHANGED <<address, hostVars, got>>

WritesMore ==
  /\ stage = "status" /\ ~asked.in /\ ep0.setup = None /\ ~ep0.stall
  /\ \/ ep0' = [ep0 EXCEPT !.nakOut = TRUE]
     \/ ep0.out = None /\ ep0' = [ep0 EXCEPT !.out = Packet(asked, put, 1)]
  /\ broken' = TRUE
  /\ UNCHANGED <<address, hostVars, got>>

ControlReset ==
  /\ ep0' = AfterReset /\ address' = 0
  /\ asked' = None /\ stage' = "done" /\ put' = 0 /\ got' = 0 /\ broken' = FALSE

HostGoesOn == Stalled \/ ReadsData \/ WritesData

ControlNext ==
  \/ udd_ctrl_interrupt \/ HostGoesOn
  \/ NakIn \/ NakOut \/ GoesToEnd \/ ReadsMore \/ WritesMore \/ ControlReset
  \/ \E r \in ControlRequests : Setup(r)

\* Interrupts are handled, and the host tries again what has been answered by NAK.
ControlFairness ==
  /\ WF_controlVars(udd_ctrl_interrupt) /\ WF_controlVars(HostGoesOn)
  /\ WF_controlVars(NakIn /\ ~ep0.nakIn) /\ WF_controlVars(NakOut /\ ~ep0.nakOut)

ControlSpec == ControlInit /\ [][ControlNext]_controlVars /\ ControlFairness

-----------------------------------------------------------------------------
Pipe == INSTANCE ControlPipe WITH
  Requests <- ControlRequests, MostMoved <- CtrlSize,
  end  <- IF stage \in {"done", "refused"} THEN stage ELSE "no",
  owed <- IF ep0.callback THEN ep0.req.value ELSE None,
  due  <- ep0.callback /\ (ep0.setup # None \/ broken \/ stage # "status")

\* The control endpoint of usbb_device.c keeps the promises of ControlPipe, with
\* data that fill their packets or do not, and a host that gives requests up,
\* goes to their end early, or moves too much.
ImplementsControlPipe == Pipe!Spec

\* A host that does not give its request up comes to an end with it, whatever it
\* has done before, and even if it reads too much or goes to the end of an IN
\* request early.  A host that goes to the end of an OUT request early may wait for
\* ever: the NAK of an earlier packet is then served first, and the interrupt
\* on the NAK that would tell the driver stays disabled.
Answered ==
  \/ []<>(~Open \/ (broken /\ ~asked.in))
  \/ []<><<\E r \in ControlRequests : Setup(r)>>_controlVars
=============================================================================
