-------------------------------- MODULE UsbCdc --------------------------------
(***************************************************************************)
(* udi_cdc.c: the serial port that the board shows to a USB host, with     *)
(* udc.c, which configures it when the host asks for that, and             *)
(* stdio_usb.c, through which printf and getchar use it.                   *)
(*                                                                         *)
(* Each direction has two buffers.  The writers fill one while the other   *)
(* is sent: udi_cdc_tx_send is called at each start of frame and at the    *)
(* end of each transfer.  The reader empties one while the other is        *)
(* filled: udi_cdc_rx_start is called at the end of each transfer and      *)
(* after each read.  The interrupt handlers are single steps, and so are   *)
(* the sections of a task between cpu_irq_save and cpu_irq_restore; in     *)
(* front of every other access of a task to the shared variables an        *)
(* interrupt can come.  A task that waits in a loop for a variable is      *)
(* blocked here.                                                           *)
(*                                                                         *)
(* Left out: nine data bits and the settings of the line.  udd_ep_run is   *)
(* one step when a task calls it.  Memory behind a buffer is not modelled: *)
(* the model stops when a byte has been written there.                     *)
(***************************************************************************)
EXTENDS UsbEndpoints

CONSTANTS Task,       (* the tasks that use the port                        *)
          Scenes,     (* what the tasks and the host are to do              *)
          Size,       (* UDI_CDC_TX_BUFFERS and UDI_CDC_RX_BUFFERS; 64      *)
          Frames,     (* the frame number is counted modulo this; 2048      *)
          Chunk,      (* the bytes of a call of write_buf and read_buf      *)
          MaxBytes    (* the bytes that the host sends                      *)

ASSUME CdcAssumption ==
  /\ Size \in Nat \ {0} /\ Frames \in Nat \ {0} /\ Chunk \in Nat \ {0}
  /\ MaxBytes \in Nat /\ IsFiniteSet(Task)
  /\ \A s \in Scenes :
       /\ s.job \in [Task -> {"putc", "write_buf", "getc", "read_buf", "signal", "none"}]
       /\ s.calls \in Nat /\ s.cuts \in Nat /\ s.halts \in BOOLEAN

VARIABLES
  scene,       (* the job of each task and the number of its calls, and how *)
               (* often and in which ways the host disturbs the line        *)
  pc, todo,    (* where in its call a task is; the bytes it still has to move *)
  calls,       (* the calls that a task still makes                         *)
  seen,        (* what a reader has read of the variables it compares       *)
  tx, rx,      (* the udi_cdc_tx_ and udi_cdc_rx_ variables                 *)
  running,     (* udi_cdc_running                                           *)
  stdio,       (* stdio_usb_interface_enable                                *)
  configured,  (* udc_num_configuration                                     *)
  frame,       (* the frame number                                          *)
  plugged,     (* the device is attached to the bus                         *)
  msg,         (* the serial state, and the message about it                *)
  made, sent,  (* the bytes that the writers have put, and the host has sent *)
  host,        (* the last packet and the serial state that the host has got *)
  delivered,   (* the byte that getc has read last                          *)
  taken,       (* what read_buf has read last, and what it should have read *)
  cuts,        (* the configurations, resets and detachments so far         *)
  upset,       (* what the host has done that the port does not get over: a *)
               (* halt, a setting that does not exist, a state message lost *)
  trust        (* how well the reader may trust the line                    *)

taskVars == <<pc, todo, calls, seen>>
lineVars == <<running, stdio, configured, plugged>>
histVars == <<host, delivered, taken, cuts, upset, trust>>
vars == <<scene, taskVars, tx, rx, lineVars, frame, msg, made, sent, histVars, epVars>>

Other(b) == 1 - b
Least(a, b) == IF a < b THEN a ELSE b

Job(t)  == scene.job[t]
Writers == {t \in Task : Job(t) \in {"putc", "write_buf"}}
Readers == {t \in Task : Job(t) \in {"getc", "read_buf"}}
Signallers == {t \in Task : Job(t) = "signal"}

Irregular == {"parity", "framing"}

Init ==
  /\ scene \in Scenes
  /\ pc = [t \in Task |-> "idle"] /\ todo = [t \in Task |-> 0]
  /\ calls = [t \in Task |-> IF Job(t) = "none" THEN 0 ELSE scene.calls]
  /\ seen = [t \in Task |-> <<"none", 0>>]
  /\ tx = [ongoing |-> FALSE, both |-> FALSE, sel |-> 0, sof |-> 0,
           buf |-> [b \in 0..1 |-> <<>>]]
  /\ rx = [ongoing |-> FALSE, sel |-> 0, pos |-> 0, nb |-> [b \in 0..1 |-> 0],
           buf |-> [b \in 0..1 |-> [i \in 1..Size |-> 0]]]
  /\ running = FALSE /\ stdio = FALSE /\ configured = FALSE /\ plugged = TRUE
  /\ frame = 0
  /\ msg = [ongoing |-> FALSE, state |-> {}, value |-> {}]
  /\ made = 0 /\ sent = 0
  /\ host = [last |-> <<>>, state |-> {}]
  /\ delivered = 0 /\ taken = [got |-> <<>>, due |-> <<>>]
  /\ cuts = 0 /\ upset = {} /\ trust = "firm"
  /\ ep = [e \in EPs |-> Off] /\ bank = [e \in EPs |-> <<>>] /\ failed = FALSE

-----------------------------------------------------------------------------
(* udi_cdc_tx_send and udi_cdc_rx_start: the variables of the direction, and *)
(* the endpoint, after the call.                                             *)

TxSend(t, x, now) ==
  LET b == IF t.both THEN Other(t.sel) ELSE t.sel IN
  IF t.ongoing \/ t.sof = now
    THEN <<t, x>>
    ELSE <<[t EXCEPT !.ongoing = TRUE, !.sel = Other(b),
                     !.sof = IF Len(t.buf[b]) # Size THEN now ELSE 0],
           Run(x, t.buf[b])>>

Unread(r) == r.pos < r.nb[r.sel]

Switched(r) == [r EXCEPT !.pos = 0, !.sel = Other(@), !.ongoing = TRUE]

\* Plausible bug: the buffers are switched although one has not been read.
RxStart_NotRead(r, x) ==
  IF r.ongoing THEN <<r, x>> ELSE <<Switched(r), Run(x, <<r.sel>>)>>

RxStart(r, x) ==
  IF r.ongoing \/ Unread(r) THEN <<r, x>> ELSE <<Switched(r), Run(x, <<r.sel>>)>>

\* udi_cdc_ctrl_state_notify as the interrupt handlers call it.
Notify(m, x) ==
  IF m.ongoing \/ m.state = m.value
    THEN <<m, x>>
    ELSE <<[m EXCEPT !.value = m.state, !.ongoing = Accepts(x)], Run(x, <<m.state>>)>>

\* Plausible bug: a change during the transfer is not looked for.
MsgSent_NoNotify(m, x) ==
  <<[ongoing |-> FALSE, state |-> m.state \ Irregular, value |-> m.value \ Irregular], x>>

\* udi_cdc_serial_state_msg_sent
MsgSent(m, x) ==
  Notify([ongoing |-> FALSE, state |-> m.state \ Irregular, value |-> m.value \ Irregular], x)

-----------------------------------------------------------------------------
(* The interrupts of the USB. *)

\* Plausible bug: nothing is sent at a start of frame.
Sof_NoSend ==
  /\ plugged
  /\ frame' = (frame + 1) % Frames
  /\ UNCHANGED <<scene, taskVars, tx, rx, lineVars, msg, made, sent, histVars, epVars>>

\* A start of frame: udc_sof_notify, udi_cdc_data_sof_notify.
Sof ==
  /\ plugged
  /\ frame' = (frame + 1) % Frames
  /\ LET r == IF configured THEN TxSend(tx, ep["in"], frame') ELSE <<tx, ep["in"]>>
     IN  tx' = r[1] /\ ep' = [ep EXCEPT !["in"] = r[2]]
  /\ UNCHANGED <<scene, taskVars, rx, lineVars, msg, made, sent, histVars, bank, failed>>

\* The DMA has moved a buffer into a bank: udi_cdc_data_sent.
DataSent ==
  /\ ep["in"].busy /\ Len(bank["in"]) < Banks
  /\ bank' = [bank EXCEPT !["in"] = Append(@, ep["in"].job)]
  /\ LET done == [tx EXCEPT !.buf[Other(tx.sel)] = <<>>, !.both = FALSE, !.ongoing = FALSE]
         r    == TxSend(done, Finished(ep["in"]), frame)
     IN  tx' = r[1] /\ ep' = [ep EXCEPT !["in"] = r[2]]
  /\ UNCHANGED <<scene, taskVars, rx, lineVars, frame, msg, made, sent, histVars, failed>>

\* The DMA has moved a packet from a bank to a buffer: udi_cdc_data_recevied.
DataReceived ==
  /\ ep["out"].busy /\ bank["out"] # <<>>
  /\ bank' = [bank EXCEPT !["out"] = Tail(@)]
  /\ LET p    == Head(bank["out"])
         b    == ep["out"].job[1]
         done == [rx EXCEPT !.nb[Other(rx.sel)] = Len(p), !.ongoing = FALSE,
                            !.buf[b] = [i \in 1..Size |-> IF i <= Len(p) THEN p[i] ELSE @[i]]]
         r    == RxStart(done, Finished(ep["out"]))
     IN  rx' = r[1] /\ ep' = [ep EXCEPT !["out"] = r[2]]
  /\ UNCHANGED <<scene, taskVars, tx, lineVars, frame, msg, made, sent, histVars, failed>>

\* The message about the serial state is in its bank.  It makes up for one that
\* has been lost.
StateSent ==
  /\ ep["comm"].busy /\ Len(bank["comm"]) < Banks
  /\ bank' = [bank EXCEPT !["comm"] = Append(@, ep["comm"].job[1])]
  /\ LET r == MsgSent(msg, Finished(ep["comm"]))
     IN  msg' = r[1] /\ ep' = [ep EXCEPT !["comm"] = r[2]]
  /\ upset' = upset \ {"lost"}
  /\ UNCHANGED <<scene, taskVars, tx, rx, lineVars, frame, made, sent, host, delivered, taken,
                 cuts, trust, failed>>

BankInterrupt ==
  /\ \E e \in EPs : BankEmpty(e)
  /\ UNCHANGED <<scene, taskVars, tx, rx, lineVars, frame, msg, made, sent, histVars>>

-----------------------------------------------------------------------------
(* The requests that configure the port.  An endpoint is freed, which aborts *)
(* its job, when its interface is disabled.                                  *)

\* The serial state and the comm endpoint after udd_ep_free.
CommFreed ==
  IF ep["comm"].busy THEN MsgSent(msg, Freed(ep["comm"])) ELSE <<msg, Freed(ep["comm"])>>

\* udi_cdc_comm_enable, which leaves the flag of an ongoing message as it is.
Fresh(m) == [m EXCEPT !.state = {}, !.value = {}]

\* Plausible bug: the flag of an aborted transfer is not reset.
DataEnable_KeepOngoing(in, out, comm) ==
  LET t == TxSend([ongoing |-> tx.ongoing, both |-> FALSE, sel |-> 0, sof |-> 0,
                   buf |-> [b \in 0..1 |-> <<>>]], in, frame)
      r == RxStart([rx EXCEPT !.ongoing = FALSE, !.sel = 0, !.nb[0] = 0, !.pos = 0], out)
  IN  /\ tx' = t[1] /\ rx' = r[1]
      /\ ep' = [in |-> t[2], out |-> r[2], comm |-> comm]
      /\ running' = Accepts(out)

\* udi_cdc_data_enable, which leaves the length of the second buffer as it is.
DataEnable(in, out, comm) ==
  LET t == TxSend([ongoing |-> FALSE, both |-> FALSE, sel |-> 0, sof |-> 0,
                   buf |-> [b \in 0..1 |-> <<>>]], in, frame)
      r == RxStart([rx EXCEPT !.ongoing = FALSE, !.sel = 0, !.nb[0] = 0, !.pos = 0], out)
  IN  /\ tx' = t[1] /\ rx' = r[1]
      /\ ep' = [in |-> t[2], out |-> r[2], comm |-> comm]
      /\ running' = Accepts(out)

\* What becomes of the trust in the line when it is enabled anew: none is left
\* when a reader is between two accesses to the variables of its direction.
Renewed ==
  IF \E t \in Readers : pc[t] \in {"compare", "read", "advance", "run"} THEN "none" ELSE "firm"

\* udc_reset: after a reset of the bus, after the device has been attached, and
\* as the first part of SET_CONFIGURATION.
Unconfigure ==
  /\ configured' = FALSE /\ running' = FALSE /\ stdio' = FALSE
  /\ msg' = CommFreed[1]
  /\ ep' = [in |-> Freed(ep["in"]), out |-> Freed(ep["out"]), comm |-> CommFreed[2]]
  /\ bank' = Drained(EPs)
  /\ host' = [host EXCEPT !.state = {}]
  /\ UNCHANGED <<scene, taskVars, tx, rx, frame, made, sent, delivered, taken, upset,
                 trust, failed>>

BusReset == plugged /\ cuts < scene.cuts /\ cuts' = cuts + 1 /\ Unconfigure /\ UNCHANGED plugged
Attach   == ~plugged /\ plugged' = TRUE /\ Unconfigure /\ UNCHANGED cuts

\* udc_detach: nothing but the pull-up changes.
Detach ==
  /\ plugged /\ cuts < scene.cuts
  /\ plugged' = FALSE /\ cuts' = cuts + 1
  /\ UNCHANGED <<scene, taskVars, tx, rx, running, stdio, configured, frame, msg, made, sent,
                 host, delivered, taken, upset, trust, epVars>>

\* SET_CONFIGURATION(1).  The comm interface is enabled first, and its endpoint
\* allocated anew with those of the data interface.
SetConfiguration ==
  /\ plugged /\ cuts < scene.cuts /\ cuts' = cuts + 1
  /\ configured' = TRUE /\ stdio' = TRUE
  /\ msg' = Fresh(CommFreed[1])
  /\ DataEnable(Allocated(Freed(ep["in"])), Allocated(Freed(ep["out"])),
                Reallocated(Allocated(CommFreed[2])))
  /\ bank' = Drained(EPs)
  /\ host' = [host EXCEPT !.state = {}]
  /\ trust' = Renewed
  /\ upset' = upset \ {"comm", "setting", "lost"}
  /\ UNCHANGED <<scene, taskVars, plugged, frame, made, sent, delivered, taken, failed>>

\* SET_INTERFACE for the comm interface, which the communication class has but
\* whose enabling does not set udi_cdc_running again.  A setting that does not
\* exist is refused after the interface has been disabled.
SetCommInterface(exists) ==
  /\ plugged /\ configured /\ cuts < scene.cuts /\ cuts' = cuts + 1
  /\ running' = FALSE /\ stdio' = exists
  /\ msg' = IF exists THEN Fresh(CommFreed[1]) ELSE CommFreed[1]
  /\ ep' = [ep EXCEPT !["comm"] = IF exists THEN Allocated(CommFreed[2]) ELSE CommFreed[2]]
  /\ bank' = Drained({"comm"})
  /\ host' = [host EXCEPT !.state = {}]
  /\ upset' = upset \cup {"comm"}
  /\ UNCHANGED <<scene, taskVars, tx, rx, configured, plugged, frame, made, sent, delivered,
                 taken, trust, failed>>

\* SET_INTERFACE for the data interface.  Allocating its endpoints switches the
\* comm endpoint off and on, which loses a message in its bank.
SetDataInterface(exists) ==
  /\ plugged /\ configured /\ cuts < scene.cuts /\ cuts' = cuts + 1
  /\ LET in == Freed(ep["in"])  out == Freed(ep["out"])
     IN  IF exists
           THEN DataEnable(Allocated(in), Allocated(out), Reallocated(ep["comm"]))
           ELSE /\ ep' = [ep EXCEPT !["in"] = in, !["out"] = out]
                /\ UNCHANGED <<tx, rx, running>>
  /\ bank' = Drained(IF exists THEN EPs ELSE {"in", "out"})
  /\ trust' = Renewed
  /\ upset' = upset \cup (IF ~exists THEN {"setting"}
                           ELSE IF bank["comm"] # <<>> THEN {"lost"} ELSE {})
  /\ UNCHANGED <<scene, taskVars, stdio, configured, plugged, frame, msg, made, sent, host,
                 delivered, taken, failed>>

\* The requests about the feature ENDPOINT_HALT.
HaltEndpoint ==
  /\ scene.halts /\ plugged /\ configured /\ \E e \in EPs : SetHalt(e)
  /\ upset' = upset \cup {"halt"}
  /\ UNCHANGED <<scene, taskVars, tx, rx, lineVars, frame, msg, made, sent, host, delivered,
                 taken, cuts, trust>>

ReleaseEndpoint ==
  /\ plugged /\ configured /\ \E e \in EPs : ClearHalt(e)
  /\ UNCHANGED <<scene, taskVars, tx, rx, lineVars, frame, msg, made, sent, histVars>>

-----------------------------------------------------------------------------
(* The host moves packets. *)

HostGetsData ==
  /\ plugged /\ HostReads("in")
  /\ host' = [host EXCEPT !.last = Head(bank["in"])]
  /\ UNCHANGED <<scene, taskVars, tx, rx, lineVars, frame, msg, made, sent, delivered, taken,
                 cuts, upset, trust>>

HostGetsState ==
  /\ plugged /\ HostReads("comm")
  /\ host' = [host EXCEPT !.state = Head(bank["comm"])]
  /\ UNCHANGED <<scene, taskVars, tx, rx, lineVars, frame, msg, made, sent, delivered, taken,
                 cuts, upset, trust>>

HostSendsData(n) ==
  /\ plugged /\ sent + n <= MaxBytes
  /\ HostWrites("out", [i \in 1..n |-> sent + i])
  /\ sent' = sent + n
  /\ trust' = IF n = 0 /\ trust = "firm" THEN "weak" ELSE trust
  /\ UNCHANGED <<scene, taskVars, tx, rx, lineVars, frame, msg, made, host, delivered, taken,
                 cuts, upset>>

-----------------------------------------------------------------------------
(* The tasks.  Each step of a task goes from one label to the next. *)

At(t, l) == pc[t] = l
GoTo(t, l) == pc' = [pc EXCEPT ![t] = l]

\* A call begins, or comes to its end.
Begin(t, l, n) ==
  /\ At(t, "idle") /\ calls[t] > 0
  /\ calls' = [calls EXCEPT ![t] = @ - 1]
  /\ todo' = [todo EXCEPT ![t] = n] /\ GoTo(t, l)

Abandon(t) ==
  /\ todo' = [todo EXCEPT ![t] = 0] /\ GoTo(t, "idle")
  /\ UNCHANGED <<calls, seen>>

\* stdio_usb_putchar, udi_cdc_putc and udi_cdc_write_buf
Put(t) ==
  /\ t \in Writers
  /\ IF Job(t) = "putc"
       THEN IF stdio THEN Begin(t, "test", 1) ELSE Begin(t, "idle", 0)
       ELSE Begin(t, "test", Chunk)
  /\ UNCHANGED <<seen, tx, rx, msg, made, delivered, taken, upset, ep>>

\* udi_cdc_is_tx_ready in three parts.
Room == Len(tx.buf[tx.sel]) # Size

TestRoom(t) ==
  /\ At(t, "test")
  /\ GoTo(t, IF Room THEN "write" ELSE IF tx.both THEN "full" ELSE "switch")
  /\ UNCHANGED <<todo, calls, seen, tx, rx, msg, made, delivered, taken, upset, ep>>

SwitchBuffer(t) ==
  /\ At(t, "switch") /\ GoTo(t, "again")
  /\ tx' = IF tx.ongoing THEN tx ELSE [tx EXCEPT !.both = TRUE, !.sel = Other(@)]
  /\ UNCHANGED <<todo, calls, seen, rx, msg, made, delivered, taken, upset, ep>>

\* Plausible bug: the other buffer is taken to be free.
TestRoomAgain_Assume(t) ==
  /\ At(t, "again") /\ GoTo(t, "write")
  /\ UNCHANGED <<todo, calls, seen, tx, rx, msg, made, delivered, taken, upset, ep>>

TestRoomAgain(t) ==
  /\ At(t, "again") /\ GoTo(t, IF Room THEN "write" ELSE "full")
  /\ UNCHANGED <<todo, calls, seen, tx, rx, msg, made, delivered, taken, upset, ep>>

Full(t) ==
  /\ At(t, "full")
  /\ IF running THEN GoTo(t, "test") /\ UNCHANGED <<todo, calls, seen>> ELSE Abandon(t)
  /\ UNCHANGED <<tx, rx, msg, made, delivered, taken, upset, ep>>

\* udi_cdc_putc does not look again whether there is room.
Write(t) ==
  LET n == IF Job(t) = "putc" THEN 1 ELSE Least(Size - Len(tx.buf[tx.sel]), todo[t])
  IN  /\ At(t, "write")
      /\ tx' = [tx EXCEPT !.buf[tx.sel] = @ \o [i \in 1..n |-> made + i]]
      /\ made' = made + n
      /\ todo' = [todo EXCEPT ![t] = @ - n]
      /\ GoTo(t, IF todo[t] = n THEN "idle" ELSE "test")
      /\ UNCHANGED <<calls, seen, rx, msg, delivered, taken, upset, ep>>

\* stdio_usb_getchar, udi_cdc_getc and udi_cdc_read_buf
Get(t) ==
  /\ t \in Readers
  /\ IF Job(t) = "getc"
       THEN IF stdio THEN Begin(t, "look", 1) ELSE Begin(t, "idle", 0)
       ELSE Begin(t, "look", Chunk)
  /\ UNCHANGED <<seen, tx, rx, msg, made, delivered, taken, upset, ep>>

\* The position and the selected buffer are read one after the other, in an
\* order that the language leaves open.
Look(t) ==
  /\ At(t, "look") /\ GoTo(t, "compare")
  /\ seen' = [seen EXCEPT ![t] = <<"sel", rx.sel>>] \/ seen' = [seen EXCEPT ![t] = <<"pos", rx.pos>>]
  /\ UNCHANGED <<todo, calls, tx, rx, msg, made, delivered, taken, upset, ep>>

Compare(t) ==
  LET sel == IF seen[t][1] = "sel" THEN seen[t][2] ELSE rx.sel
      pos == IF seen[t][1] = "pos" THEN seen[t][2] ELSE rx.pos
  IN  /\ At(t, "compare") /\ GoTo(t, IF pos < rx.nb[sel] THEN "read" ELSE "empty")
      /\ UNCHANGED <<todo, calls, seen, tx, rx, msg, made, delivered, taken, upset, ep>>

Empty(t) ==
  /\ At(t, "empty")
  /\ IF running THEN GoTo(t, "look") /\ UNCHANGED <<todo, calls, seen>> ELSE Abandon(t)
  /\ UNCHANGED <<tx, rx, msg, made, delivered, taken, upset, ep>>

\* udi_cdc_getc reads a byte; udi_cdc_read_buf copies from udi_cdc_tx_buf.
Read(t) ==
  /\ At(t, "read") /\ GoTo(t, "advance")
  /\ IF Job(t) = "getc"
       THEN /\ seen' = [seen EXCEPT ![t] = <<"byte", rx.buf[rx.sel][rx.pos + 1]>>]
            /\ UNCHANGED taken
       ELSE LET n == Least(rx.nb[rx.sel] - rx.pos, todo[t])
                b == tx.buf[rx.sel]
            IN  /\ seen' = [seen EXCEPT ![t] = <<"count", n>>]
                /\ taken' = [got |-> [i \in 1..n |-> IF rx.pos + i <= Len(b) THEN b[rx.pos + i]
                                                                            ELSE 0],
                             due |-> SubSeq(rx.buf[rx.sel], rx.pos + 1, rx.pos + n)]
  /\ UNCHANGED <<todo, calls, tx, rx, msg, made, delivered, upset, ep>>

\* The line is up when the data interface is enabled.
Up == ep["in"].on

Advance(t) ==
  LET n == IF Job(t) = "getc" THEN 1 ELSE seen[t][2]
  IN  /\ At(t, "advance") /\ GoTo(t, "claim")
      /\ rx' = [rx EXCEPT !.pos = @ + n]
      /\ todo' = [todo EXCEPT ![t] = @ - n]
      /\ delivered' = IF Job(t) = "getc" /\ Up THEN seen[t][2] ELSE delivered
      /\ UNCHANGED <<calls, seen, tx, msg, made, taken, upset, ep>>

\* udi_cdc_rx_start as a task calls it, in two parts.
Claim(t) ==
  /\ At(t, "claim")
  /\ IF rx.ongoing \/ Unread(rx)
       THEN /\ GoTo(t, IF todo[t] = 0 THEN "idle" ELSE "look")
            /\ UNCHANGED <<seen, rx>>
       ELSE /\ GoTo(t, "run")
            /\ seen' = [seen EXCEPT ![t] = <<"buf", rx.sel>>]
            /\ rx' = Switched(rx)
  /\ UNCHANGED <<todo, calls, tx, msg, made, delivered, taken, upset, ep>>

RunReception(t) ==
  /\ At(t, "run") /\ GoTo(t, IF todo[t] = 0 THEN "idle" ELSE "look")
  /\ ep' = [ep EXCEPT !["out"] = Run(@, <<seen[t][2]>>)]
  /\ UNCHANGED <<todo, calls, seen, tx, rx, msg, made, delivered, taken, upset>>

\* udi_cdc_ctrl_signal_dcd, udi_cdc_signal_parity_error, ...framing_error
Signal(t) ==
  /\ t \in Signallers /\ Begin(t, "notify", 0)
  /\ \E s \in {msg.state \ {"dcd"}} \cup {msg.state \cup {b} : b \in Irregular \cup {"dcd"}} :
       msg' = [msg EXCEPT !.state = s]
  /\ UNCHANGED <<seen, tx, rx, made, delivered, taken, upset, ep>>

\* udi_cdc_ctrl_state_notify as a task calls it: the flag is set from what
\* udd_ep_run returns, when the message may have been sent already.
NotifyHost(t) ==
  /\ At(t, "notify")
  /\ IF msg.ongoing \/ msg.state = msg.value
       THEN GoTo(t, "idle") /\ UNCHANGED msg
       ELSE GoTo(t, "raise") /\ msg' = [msg EXCEPT !.value = msg.state]
  /\ UNCHANGED <<todo, calls, seen, tx, rx, made, delivered, taken, upset, ep>>

RunMessage(t) ==
  /\ At(t, "raise") /\ GoTo(t, "assign")
  /\ seen' = [seen EXCEPT ![t] = <<"ok", IF Accepts(ep["comm"]) THEN 1 ELSE 0>>]
  /\ ep' = [ep EXCEPT !["comm"] = Run(@, <<msg.value>>)]
  /\ UNCHANGED <<todo, calls, tx, rx, msg, made, delivered, taken, upset>>

AssignOngoing(t) ==
  /\ At(t, "assign") /\ GoTo(t, "idle")
  /\ msg' = [msg EXCEPT !.ongoing = (seen[t][2] = 1)]
  /\ upset' = IF seen[t][2] = 1 /\ ~ep["comm"].busy THEN upset \cup {"overtaken"} ELSE upset
  /\ UNCHANGED <<todo, calls, seen, tx, rx, made, delivered, taken, ep>>

WriterStep(t) ==
  Put(t) \/ TestRoom(t) \/ SwitchBuffer(t) \/ TestRoomAgain(t) \/ Full(t) \/ Write(t)

ReaderStep(t) ==
  \/ Get(t) \/ Look(t) \/ Compare(t) \/ Empty(t) \/ Read(t) \/ Advance(t)
  \/ Claim(t) \/ RunReception(t)

SignalStep(t) == Signal(t) \/ NotifyHost(t) \/ RunMessage(t) \/ AssignOngoing(t)

TaskStep(t) ==
  /\ WriterStep(t) \/ ReaderStep(t) \/ SignalStep(t)
  /\ UNCHANGED <<scene, lineVars, frame, sent, host, cuts, trust, bank, failed>>

-----------------------------------------------------------------------------
Overrun == \E b \in 0..1 : Len(tx.buf[b]) > Size

Interrupts == Sof \/ DataSent \/ DataReceived \/ StateSent \/ BankInterrupt
Requests ==
  \/ BusReset \/ Detach \/ Attach \/ SetConfiguration
  \/ \E exists \in BOOLEAN : SetCommInterface(exists) \/ SetDataInterface(exists)
  \/ HaltEndpoint \/ ReleaseEndpoint
Traffic == HostGetsData \/ HostGetsState \/ \E n \in 0..Size : HostSendsData(n)

\* The model ends where an assertion fails or memory is overwritten.
Goes(A) == ~failed /\ ~Overrun /\ A

Next == Goes(Interrupts \/ Requests \/ Traffic \/ \E t \in Task : TaskStep(t))

\* The interrupts are served, a host that is there polls the device, and every
\* task goes on with its call.
Fairness ==
  /\ WF_vars(Goes(Sof)) /\ WF_vars(Goes(DataSent)) /\ WF_vars(Goes(HostGetsData))
  /\ \A t \in Task : WF_vars(Goes(TaskStep(t)))

Spec == Init /\ [][Next]_vars /\ Fairness

-----------------------------------------------------------------------------
(* Properties *)

\* The line as its users see it: what is in the banks and in the buffers.  Nothing
\* is promised to writers who contend for the port: they can switch the buffers
\* twice, which puts later bytes in front of earlier ones.
ToHost == IF Up THEN FlattenSeq(bank["in"]) \o tx.buf[Other(tx.sel)] \o tx.buf[tx.sel]
                ELSE <<>>

Contended == Cardinality(Writers) > 1

ToDevice ==
  IF Up THEN SubSeq(rx.buf[rx.sel], rx.pos + 1, rx.nb[rx.sel])
             \o (IF rx.ongoing THEN <<>>
                 ELSE SubSeq(rx.buf[Other(rx.sel)], 1, rx.nb[Other(rx.sel)]))
             \o FlattenSeq(bank["out"])
        ELSE <<>>

Line == INSTANCE SerialLine
          WITH toHost   <- IF Contended THEN <<>> ELSE ToHost,
               received <- IF Contended THEN <<>> ELSE host.last, toDevice <- ToDevice,
               delivered <- delivered, used <- sent > 0, trust <- trust,
               Byte <- 0 .. MaxBytes + Chunk * scene.calls * Cardinality(Task),
               MostLeftOver <- Size

\* The port is a serial line: through the switching of the buffers, whatever
\* interrupts a task between two accesses to udi_cdc_tx_buf_sel, _nb, _pos and
\* _ongoing, no byte is lost, doubled or overtaken as long as the line is up.
\* Bytes of an earlier session are read after a new configuration, because
\* udi_cdc_data_enable leaves udi_cdc_rx_buf_nb[1]; phantoms come from an empty
\* packet between the two reads of the comparison in udi_cdc_getc.
ImplementsSerialLine == Line!Spec

\* An endpoint is stalled by the interrupt of its empty banks only when that has
\* been requested: the assertion in udd_ep_interrupt.
NeverFails == ~failed

\* A direction is never marked as busy without a job that will free it, except
\* after a halt, a setting that does not exist, or a completion that overtook
\* the assignment of the flag: nothing else makes the port deaf or dumb.
OngoingHasJob ==
  /\ Up /\ tx.ongoing /\ ~ep["in"].busy => "halt" \in upset
  /\ Up /\ rx.ongoing /\ ~ep["out"].busy =>
       "halt" \in upset \/ \E t \in Readers : pc[t] = "run"
  /\ msg.ongoing /\ ~ep["comm"].busy => "overtaken" \in upset

\* A task writes behind a buffer only when another one has called putc at the
\* same time: the check for room and the write are not one section.
OverrunOnlyByRivals ==
  Overrun => \E t, u \in Task : t # u /\ Job(t) = "putc" /\ u \in Writers

\* When nothing is under way, the host knows the lasting serial state: a change
\* that came while a message was sent is followed by a message of its own.  One
\* that waits in its bank is lost when the data interface is set, and until the
\* next message has been sent the host does not know.  Two tasks that signal at
\* the same time may end with a host that does not know: the one whose message
\* was not accepted clears the flag of the other's.
HostKnowsState ==
  (/\ ep["comm"].on /\ ~ep["comm"].busy /\ bank["comm"] = <<>> /\ upset = {}
   /\ \A t \in Signallers : pc[t] = "idle"
   /\ \A t, u \in Signallers : t = u)
    => host.state \ Irregular = msg.state \ Irregular

\* With a host that polls, no writer waits for ever, and everything that was
\* written gets to the host: a buffer that is not full is sent at a start of
\* frame.  Two who contend for the port may wait for ever.
Served == plugged /\ upset \subseteq {"lost"}
Flushed ==
  <>[]Served =>
    <>[](Contended \/ (ToHost = <<>> /\ \A t \in Writers : pc[t] = "idle" /\ calls[t] = 0))
=============================================================================
