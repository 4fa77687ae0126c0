------------------------------ MODULE UsbProofs ------------------------------
(***************************************************************************)
(* Proofs about the USB device: the serial port, for any tasks and jobs,   *)
(* any sizes of the buffers, any number of banks and any host, and the     *)
(* control endpoint, for any requests and any size of its packets.         *)
(***************************************************************************)
EXTENDS UsbCdc, UsbControl, SequenceTheorems, FiniteSetTheorems, WellFoundedInduction, TLAPS

-----------------------------------------------------------------------------
(* The serial port                                                           *)

SerialState == SUBSET (Irregular \cup {"dcd"})

WriterLabels == {"test", "switch", "again", "full", "write"}
ReaderLabels == {"look", "compare", "empty", "read", "advance", "claim", "run"}
SignalLabels == {"notify", "raise", "assign"}
Labels       == {"idle"} \cup WriterLabels \cup ReaderLabels \cup SignalLabels

\* What a job of endpoint e moves, and what is in its banks.
JobsOf(e) ==
  CASE e = "in"   -> Seq(Nat)
    [] e = "out"  -> {<<b>> : b \in 0..1}
    [] e = "comm" -> {<<s>> : s \in SerialState}

PacketsOf(e) == IF e = "comm" THEN SerialState ELSE Seq(Nat)

Endpoint(e) ==
  {x \in [on : BOOLEAN, stalled : BOOLEAN, wanted : BOOLEAN, watch : BOOLEAN,
          busy : BOOLEAN, job : JobsOf(e) \cup {<<>>}] : x.busy => x.job \in JobsOf(e)}

TxState  == [ongoing : BOOLEAN, both : BOOLEAN, sel : 0..1, sof : Nat,
             buf : [0..1 -> Seq(Nat)]]
RxState  == [ongoing : BOOLEAN, sel : 0..1, pos : Int, nb : [0..1 -> Nat],
             buf : [0..1 -> [1..Size -> Nat]]]
MsgState == [ongoing : BOOLEAN, state : SerialState, value : SerialState]

\* The tasks: where each is in its call, what it has read and must move.
TasksOK ==
  /\ scene \in Scenes
  /\ pc \in [Task -> Labels] /\ todo \in [Task -> Int] /\ calls \in [Task -> Nat]
  /\ seen = [t \in Task |-> seen[t]]
  /\ \A t \in Task :
       /\ pc[t] \in WriterLabels =>
            t \in Writers /\ todo[t] \in Nat /\ (Job(t) = "putc" => todo[t] = 1)
       /\ pc[t] \in ReaderLabels => t \in Readers
       /\ pc[t] \in SignalLabels => t \in Signallers
       /\ pc[t] = "advance" /\ Job(t) = "read_buf" => seen[t][2] \in Int
       /\ pc[t] = "run" => seen[t][2] \in 0..1
       /\ pc[t] = "assign" => seen[t][2] \in 0..1

EndpointsOK ==
  /\ ep = [e \in EPs |-> ep[e]] /\ \A e \in EPs : ep[e] \in Endpoint(e)
  /\ bank = [e \in EPs |-> bank[e]] /\ \A e \in EPs : bank[e] \in Seq(PacketsOf(e))
  /\ failed \in BOOLEAN

\* The variables of the driver, and what the host has got.
DriverOK ==
  /\ tx \in TxState /\ rx \in RxState /\ msg \in MsgState
  /\ running \in BOOLEAN /\ stdio \in BOOLEAN /\ configured \in BOOLEAN
  /\ plugged \in BOOLEAN /\ frame \in Nat /\ made \in Nat /\ sent \in Nat
  /\ host \in [last : Seq(Nat), state : SerialState]
  /\ cuts \in Nat /\ upset \subseteq {"halt", "setting", "comm", "overtaken", "lost"}

TypeOK == TasksOK /\ EndpointsOK /\ DriverOK

-----------------------------------------------------------------------------
(* The operators of the driver on the state of an endpoint and of a direction. *)

\* Endpoint y is as endpoint x, but for its job.
SameFlags(x, y) ==
  y.on = x.on /\ y.stalled = x.stalled /\ y.wanted = x.wanted /\ y.watch = x.watch

\* udd_ep_run takes a job exactly when it accepts it, and changes nothing else.
LEMMA RunFacts ==
  ASSUME NEW e \in EPs, NEW x \in Endpoint(e), NEW j \in JobsOf(e)
  PROVE  /\ Run(x, j) \in Endpoint(e) /\ SameFlags(x, Run(x, j))
         /\ Run(x, j).busy <=> x.busy \/ Accepts(x)
         /\ Run(x, j).job = IF Accepts(x) THEN j ELSE x.job
BY Zenon DEF Run, Accepts, Endpoint, SameFlags

\* What the end of a job, udd_ep_free and udd_ep_alloc leave.
LEMMA FinishedFacts ==
  ASSUME NEW e \in EPs, NEW x \in Endpoint(e)
  PROVE  /\ Finished(x) \in Endpoint(e) /\ SameFlags(x, Finished(x))
         /\ ~Finished(x).busy
BY Zenon DEF Finished, Endpoint, SameFlags

LEMMA FreedFacts ==
  ASSUME NEW e \in EPs, NEW x \in Endpoint(e)
  PROVE  /\ Freed(x) \in Endpoint(e)
         /\ Freed(x).on = FALSE /\ ~Freed(x).stalled /\ ~Freed(x).watch /\ ~Freed(x).busy
         /\ Freed(x).wanted = x.wanted
BY Zenon DEF Freed, Off, Endpoint

LEMMA AllocatedFacts ==
  ASSUME NEW e \in EPs, NEW x \in Endpoint(e)
  PROVE  /\ Allocated(x) \in Endpoint(e) /\ Allocated(x).on
         /\ Allocated(x).stalled = x.stalled /\ Allocated(x).wanted = x.wanted
         /\ Allocated(x).watch = x.watch /\ Allocated(x).busy = x.busy
         /\ Allocated(x).job = x.job
BY Zenon DEF Allocated, Endpoint

LEMMA ReallocatedFacts ==
  ASSUME NEW e \in EPs, NEW x \in Endpoint(e)
  PROVE  /\ Reallocated(x) \in Endpoint(e)
         /\ Reallocated(x).on = x.on /\ Reallocated(x).wanted = x.wanted
         /\ Reallocated(x).busy = x.busy /\ Reallocated(x).job = x.job
         /\ ~x.stalled => ~Reallocated(x).stalled
         /\ ~x.watch => ~Reallocated(x).watch
BY Zenon DEF Reallocated, Endpoint

\* udi_cdc_tx_send keeps the buffers.  It marks the direction as busy only after
\* it has given the endpoint a job, and then selects a buffer that is not sent.
LEMMA TxSendFacts ==
  ASSUME NEW t \in TxState, NEW x \in Endpoint("in"), NEW now \in Nat,
         NEW r, r = TxSend(t, x, now)
  PROVE  /\ r[1] \in TxState /\ r[2] \in Endpoint("in")
         /\ SameFlags(x, r[2]) /\ r[1].buf = t.buf /\ r[1].both = t.both
         /\ \/ r[1] = t /\ r[2] = x
            \/ /\ ~t.ongoing /\ r[1].ongoing
               /\ r[1].sel = IF t.both THEN t.sel ELSE Other(t.sel)
               /\ r[2].busy <=> x.busy \/ Accepts(x)
<1> DEFINE b == IF t.both THEN Other(t.sel) ELSE t.sel
           j == t.buf[b]
           u == [t EXCEPT !.ongoing = TRUE, !.sel = Other(b),
                          !.sof = IF Len(t.buf[b]) # Size THEN now ELSE 0]
<1>1. b \in 0..1 /\ Other(b) \in 0..1 /\ Other(b) = IF t.both THEN t.sel ELSE Other(t.sel)
  BY DEF TxState, Other
<1>2. j \in JobsOf("in")
  BY <1>1 DEF TxState, JobsOf
<1>3. u \in TxState /\ u.buf = t.buf /\ u.both = t.both /\ u.ongoing /\ u.sel = Other(b)
  BY <1>1, Zenon DEF TxState
<1>4. /\ Run(x, j) \in Endpoint("in") /\ SameFlags(x, Run(x, j))
      /\ Run(x, j).busy <=> x.busy \/ Accepts(x)
  BY <1>2, RunFacts DEF EPs
<1>5. CASE t.ongoing \/ t.sof = now
  <2>1. r = <<t, x>>
    BY <1>5 DEF TxSend
  <2> QED BY <2>1 DEF SameFlags
<1>6. CASE ~(t.ongoing \/ t.sof = now)
  <2>1. r = <<u, Run(x, j)>>
    BY <1>6 DEF TxSend
  <2> HIDE DEF b, j, u
  <2> QED BY <1>1, <1>2, <1>3, <1>4, <1>6, <2>1
<1> QED BY <1>5, <1>6

\* The reader goes to the other buffer of its direction.
LEMMA SwitchedFacts ==
  ASSUME NEW r \in RxState
  PROVE  Switched(r) \in RxState /\ Switched(r).ongoing
<1>1. ASSUME NEW p \in Int, NEW b \in 0..1, NEW o \in BOOLEAN
      PROVE  /\ [r EXCEPT !.pos = p, !.sel = b, !.ongoing = o] \in RxState
             /\ [r EXCEPT !.pos = p, !.sel = b, !.ongoing = o].ongoing = o
  BY Zenon DEF RxState
<1>2. r.sel \in 0..1 /\ Other(r.sel) \in 0..1 /\ 0 \in Int
  BY DEF RxState, Other
<1> QED BY <1>1, <1>2, Zenon DEF Switched

\* udi_cdc_rx_start likewise, when the selected buffer has been read.
LEMMA RxStartFacts ==
  ASSUME NEW r \in RxState, NEW x \in Endpoint("out"), NEW s, s = RxStart(r, x)
  PROVE  /\ s[1] \in RxState /\ s[2] \in Endpoint("out") /\ SameFlags(x, s[2])
         /\ \/ s[1] = r /\ s[2] = x
            \/ s[1].ongoing /\ (s[2].busy <=> x.busy \/ Accepts(x))
<1>1. Switched(r) \in RxState /\ Switched(r).ongoing
  BY SwitchedFacts
<1>2. <<r.sel>> \in JobsOf("out")
  BY DEF RxState, JobsOf
<1>3. /\ Run(x, <<r.sel>>) \in Endpoint("out") /\ SameFlags(x, Run(x, <<r.sel>>))
      /\ Run(x, <<r.sel>>).busy <=> x.busy \/ Accepts(x)
  BY <1>2, RunFacts DEF EPs
<1> QED BY <1>1, <1>3 DEF RxStart, SameFlags

\* After udi_cdc_serial_state_msg_sent the state is what was sent last, and the
\* flag of the message says whether there is one under way.
LEMMA MsgSentFacts ==
  ASSUME NEW m \in MsgState, NEW x \in Endpoint("comm"), ~x.busy,
         NEW r, r = MsgSent(m, x)
  PROVE  /\ r[1] \in MsgState /\ r[2] \in Endpoint("comm") /\ SameFlags(x, r[2])
         /\ r[1].ongoing <=> r[2].busy
         /\ r[1].state = r[1].value /\ (r[2].busy => Accepts(x))
         /\ r[2].busy => r[2].job = <<r[1].value>>
         /\ ~r[2].busy => r[1].value = m.value \ Irregular \/ ~Accepts(x)
<1> DEFINE n == [ongoing |-> FALSE, state |-> m.state \ Irregular,
                 value |-> m.value \ Irregular]
           k == [n EXCEPT !.value = n.state, !.ongoing = Accepts(x)]
<1>1. n \in MsgState /\ ~n.ongoing /\ n.value = m.value \ Irregular
  BY DEF MsgState, SerialState
<1>2. <<n.state>> \in JobsOf("comm")
  BY <1>1 DEF MsgState, JobsOf
<1>3. /\ Run(x, <<n.state>>) \in Endpoint("comm") /\ SameFlags(x, Run(x, <<n.state>>))
      /\ Run(x, <<n.state>>).busy <=> Accepts(x)
      /\ Accepts(x) => Run(x, <<n.state>>).job = <<n.state>>
  BY <1>2, RunFacts, Zenon DEF EPs
<1>4. r = Notify(n, x)
  BY DEF MsgSent
<1>5. Accepts(x) \in BOOLEAN
  BY DEF Accepts, Endpoint
<1>6. k \in MsgState /\ k.ongoing = Accepts(x) /\ k.state = n.state /\ k.value = n.state
  <2> HIDE DEF n
  <2> QED BY <1>1, <1>5, Zenon DEF MsgState
<1> HIDE DEF n
<1>7. CASE n.state = n.value
  <2>1. r = <<n, x>>
    BY <1>4, <1>7 DEF Notify
  <2> QED BY <1>1, <1>7, <2>1 DEF SameFlags
<1>8. CASE n.state # n.value
  <2>1. r = <<k, Run(x, <<n.state>>)>>
    BY <1>1, <1>4, <1>8 DEF Notify
  <2> HIDE DEF k
  <2> QED BY <1>3, <1>6, <2>1
<1> QED BY <1>7, <1>8

\* What is left of the comm endpoint and of its message when it is freed.
LEMMA CommFreedFacts ==
  ASSUME TypeOK
  PROVE  /\ CommFreed[1] \in MsgState /\ CommFreed[2] \in Endpoint("comm")
         /\ ~CommFreed[2].on /\ ~CommFreed[2].busy
         /\ ~CommFreed[2].stalled /\ ~CommFreed[2].watch
         /\ CommFreed[2].wanted = ep["comm"].wanted
         /\ \/ ep["comm"].busy /\ ~CommFreed[1].ongoing /\ CommFreed[1].state = CommFreed[1].value
            \/ ~ep["comm"].busy /\ CommFreed[1] = msg
<1> DEFINE x == Freed(ep["comm"])
<1>1. msg \in MsgState /\ ep["comm"] \in Endpoint("comm")
  BY DEF TypeOK, EndpointsOK, DriverOK, EPs
<1>2. /\ x \in Endpoint("comm") /\ ~x.on /\ ~x.stalled /\ ~x.watch /\ ~x.busy
      /\ x.wanted = ep["comm"].wanted
  BY <1>1, FreedFacts, Zenon DEF EPs
<1>3. CASE ep["comm"].busy
  <2>1. CommFreed = MsgSent(msg, x)
    BY <1>3 DEF CommFreed
  <2>2. /\ CommFreed[1] \in MsgState /\ CommFreed[2] \in Endpoint("comm")
        /\ SameFlags(x, CommFreed[2]) /\ (CommFreed[1].ongoing <=> CommFreed[2].busy)
        /\ CommFreed[1].state = CommFreed[1].value
        /\ CommFreed[2].busy => Accepts(x)
    <3> HIDE DEF x
    <3> QED BY <1>1, <1>2, <2>1, MsgSentFacts
  <2>3. ~Accepts(x)
    BY <1>2 DEF Accepts
  <2> QED BY <1>2, <1>3, <2>2, <2>3 DEF SameFlags
<1>4. CASE ~ep["comm"].busy
  <2>1. CommFreed = <<msg, x>>
    BY <1>4 DEF CommFreed
  <2> HIDE DEF x
  <2> QED BY <1>1, <1>2, <1>4, <2>1
<1> QED BY <1>3, <1>4

LEMMA FreshFacts ==
  ASSUME NEW m \in MsgState
  PROVE  /\ Fresh(m) \in MsgState /\ Fresh(m).ongoing = m.ongoing
         /\ Fresh(m).state = {} /\ Fresh(m).value = {}
BY Zenon DEF Fresh, MsgState, SerialState

\* A new state of one endpoint.
LEMMA OneEndpoint ==
  ASSUME EndpointsOK, NEW e \in EPs, NEW y \in Endpoint(e), NEW f, f = [ep EXCEPT ![e] = y]
  PROVE  /\ f = [d \in EPs |-> f[d]] /\ \A d \in EPs : f[d] \in Endpoint(d)
         /\ f[e] = y /\ \A d \in EPs \ {e} : f[d] = ep[d]
BY Zenon DEF EndpointsOK

\* The comm endpoint after its interface has been disabled and enabled again,
\* alone or before that of the data.
LEMMA CommAnewFacts ==
  ASSUME TypeOK, NEW comm,
         comm \in {Allocated(CommFreed[2]), Reallocated(Allocated(CommFreed[2]))}
  PROVE  /\ comm \in Endpoint("comm")
         /\ comm.on /\ ~comm.stalled /\ ~comm.watch /\ ~comm.busy
         /\ comm.wanted = ep["comm"].wanted
<1> DEFINE x == Allocated(CommFreed[2])
<1>1. /\ x \in Endpoint("comm") /\ x.on /\ ~x.stalled /\ ~x.watch /\ ~x.busy
      /\ x.wanted = ep["comm"].wanted /\ "comm" \in EPs
  BY CommFreedFacts, AllocatedFacts DEF EPs
<1> HIDE DEF x
<1>2. CASE comm = x
  BY <1>1, <1>2
<1>3. CASE comm = Reallocated(x)
  BY <1>1, <1>3, ReallocatedFacts
<1> QED BY <1>2, <1>3 DEF x

LEMMA DrainedFacts ==
  ASSUME EndpointsOK, NEW B, NEW f, f = Drained(B)
  PROVE  /\ f = [d \in EPs |-> f[d]] /\ \A d \in EPs : f[d] \in Seq(PacketsOf(d))
         /\ \A d \in EPs : f[d] = IF d \in B THEN <<>> ELSE bank[d]
BY DEF EndpointsOK, Drained

\* udi_cdc_data_enable empties the buffers for the host, starts the transfers,
\* and marks the directions as busy after their endpoints have got jobs.
LEMMA DataEnableFacts ==
  ASSUME TypeOK, NEW in \in Endpoint("in"), NEW out \in Endpoint("out"),
         NEW comm \in Endpoint("comm"), DataEnable(in, out, comm)
  PROVE  /\ tx' \in TxState /\ rx' \in RxState /\ running' \in BOOLEAN
         /\ ep' = [e \in EPs |-> ep'[e]] /\ \A e \in EPs : ep'[e] \in Endpoint(e)
         /\ SameFlags(in, ep'["in"]) /\ SameFlags(out, ep'["out"]) /\ ep'["comm"] = comm
         /\ tx'.ongoing => (ep'["in"].busy <=> in.busy \/ Accepts(in))
         /\ ~tx'.ongoing => ep'["in"] = in
         /\ rx'.ongoing => (ep'["out"].busy <=> out.busy \/ Accepts(out))
         /\ ~rx'.ongoing => ep'["out"] = out
         /\ ~tx'.both /\ \A b \in 0..1 : tx'.buf[b] = <<>>
<1> DEFINE t == [ongoing |-> FALSE, both |-> FALSE, sel |-> 0, sof |-> 0,
                 buf |-> [b \in 0..1 |-> <<>>]]
           r == [rx EXCEPT !.ongoing = FALSE, !.sel = 0, !.nb[0] = 0, !.pos = 0]
           tt == TxSend(t, in, frame)
           rr == RxStart(r, out)
<1>1. frame \in Nat /\ rx \in RxState
  BY DEF TypeOK, DriverOK
<1>2. t \in TxState /\ ~t.ongoing /\ ~t.both /\ \A b \in 0..1 : t.buf[b] = <<>>
  BY DEF TxState
<1>3. r \in RxState /\ ~r.ongoing
  <2>1. ASSUME NEW z \in Int, NEW b \in 0..1, NEW n \in [0..1 -> Nat], NEW o \in BOOLEAN
        PROVE  /\ [rx EXCEPT !.ongoing = o, !.sel = b, !.nb = n, !.pos = z] \in RxState
               /\ [rx EXCEPT !.ongoing = o, !.sel = b, !.nb = n, !.pos = z].ongoing = o
    BY <1>1, Zenon DEF RxState
  <2>2. [rx.nb EXCEPT ![0] = 0] \in [0..1 -> Nat] /\ 0 \in Int /\ 0 \in 0..1
    BY <1>1 DEF RxState
  <2>3. r = [rx EXCEPT !.ongoing = FALSE, !.sel = 0, !.nb = [rx.nb EXCEPT ![0] = 0], !.pos = 0]
    OBVIOUS
  <2> QED BY <2>1, <2>2, <2>3, Zenon
<1>4. /\ tx' = tt[1] /\ rx' = rr[1] /\ running' = Accepts(out)
      /\ ep' = [in |-> tt[2], out |-> rr[2], comm |-> comm]
  BY DEF DataEnable
<1>5. /\ tt[1] \in TxState /\ tt[2] \in Endpoint("in")
      /\ SameFlags(in, tt[2]) /\ tt[1].buf = t.buf /\ tt[1].both = t.both
      /\ \/ tt[1] = t /\ tt[2] = in
         \/ tt[1].ongoing /\ (tt[2].busy <=> in.busy \/ Accepts(in))
  <2> HIDE DEF t
  <2> QED BY <1>1, <1>2, TxSendFacts
<1>6. /\ rr[1] \in RxState /\ rr[2] \in Endpoint("out") /\ SameFlags(out, rr[2])
      /\ \/ rr[1] = r /\ rr[2] = out
         \/ rr[1].ongoing /\ (rr[2].busy <=> out.busy \/ Accepts(out))
  <2> HIDE DEF r
  <2> QED BY <1>3, RxStartFacts
<1>7. Accepts(out) \in BOOLEAN
  BY DEF Accepts, Endpoint
<1>8. /\ ep' = [e \in EPs |-> ep'[e]] /\ \A e \in EPs : ep'[e] \in Endpoint(e)
      /\ ep'["in"] = tt[2] /\ ep'["out"] = rr[2] /\ ep'["comm"] = comm
  <2> HIDE DEF tt, rr
  <2> QED BY <1>4, <1>5, <1>6 DEF EPs
<1> HIDE DEF t, r, tt, rr
<1> QED BY <1>2, <1>3, <1>4, <1>5, <1>6, <1>7, <1>8

-----------------------------------------------------------------------------
(* Types *)

LEMMA TasksUntouched ==
  ASSUME TasksOK, UNCHANGED <<scene, taskVars>>
  PROVE  TasksOK'
BY DEF TasksOK, taskVars, Job, Writers, Readers, Signallers

LEMMA TypeInit == Init => TypeOK
<1> SUFFICES ASSUME Init PROVE TypeOK
  OBVIOUS
<1>1. TasksOK
  <2>1. scene \in Scenes /\ scene.calls \in Nat
    BY CdcAssumption DEF Init
  <2> QED BY <2>1 DEF Init, TasksOK, Labels, WriterLabels, ReaderLabels, SignalLabels
<1>2. EndpointsOK
  <2>1. \A e \in EPs : Off \in Endpoint(e)
    BY DEF Off, Endpoint
  <2>2. \A e \in EPs : <<>> \in Seq(PacketsOf(e))
    OBVIOUS
  <2> QED BY <2>1, <2>2, Zenon DEF Init, EndpointsOK
<1>3. DriverOK
  <2>1. tx \in TxState
    BY DEF Init, TxState
  <2>2. rx \in RxState
    BY DEF Init, RxState
  <2>3. msg \in MsgState
    BY DEF Init, MsgState, SerialState
  <2>4. host \in [last : Seq(Nat), state : SerialState]
    BY DEF Init, SerialState
  <2> QED BY <2>1, <2>2, <2>3, <2>4, Zenon DEF Init, DriverOK
<1> QED BY <1>1, <1>2, <1>3 DEF TypeOK

LEMMA TypeSof ==
  ASSUME TypeOK, Sof
  PROVE  TypeOK'
<1> DEFINE r == IF configured THEN TxSend(tx, ep["in"], frame') ELSE <<tx, ep["in"]>>
<1>1. frame' \in Nat
  BY CdcAssumption DEF TypeOK, DriverOK, Sof
<1>2. r[1] \in TxState /\ r[2] \in Endpoint("in")
  BY <1>1, TxSendFacts DEF TypeOK, DriverOK, EndpointsOK, EPs
<1>3. tx' = r[1] /\ ep' = [ep EXCEPT !["in"] = r[2]]
  BY DEF Sof
<1> HIDE DEF r
<1>4. EndpointsOK'
  BY <1>2, <1>3, OneEndpoint, Zenon DEF EndpointsOK, EPs, TypeOK, Sof
<1>5. DriverOK'
  BY <1>1, <1>2, <1>3 DEF TypeOK, DriverOK, Sof, lineVars, histVars
<1> QED BY <1>4, <1>5, TasksUntouched DEF TypeOK, Sof

\* The variables of the direction when a buffer has been sent.
LEMMA DataSentFacts ==
  ASSUME NEW t \in TxState, NEW d,
         d = [t EXCEPT !.buf[Other(t.sel)] = <<>>, !.both = FALSE, !.ongoing = FALSE]
  PROVE  /\ d \in TxState /\ ~d.ongoing /\ ~d.both /\ d.sel = t.sel
         /\ d.buf = [t.buf EXCEPT ![Other(t.sel)] = <<>>]
<1> DEFINE f == [t.buf EXCEPT ![Other(t.sel)] = <<>>]
<1>1. f \in [0..1 -> Seq(Nat)]
  BY DEF TxState, Other
<1>2. d = [t EXCEPT !.buf = f, !.both = FALSE, !.ongoing = FALSE]
  OBVIOUS
<1> HIDE DEF f
<1>3. d \in TxState /\ ~d.ongoing /\ ~d.both /\ d.sel = t.sel /\ d.buf = f
  BY <1>1, <1>2, Zenon DEF TxState
<1> QED BY <1>3 DEF f

LEMMA TypeDataSent ==
  ASSUME TypeOK, DataSent
  PROVE  TypeOK'
<1> DEFINE done == [tx EXCEPT !.buf[Other(tx.sel)] = <<>>, !.both = FALSE, !.ongoing = FALSE]
           r    == TxSend(done, Finished(ep["in"]), frame)
<1>1. tx \in TxState /\ frame \in Nat /\ ep["in"] \in Endpoint("in") /\ "in" \in EPs
  BY DEF TypeOK, DriverOK, EndpointsOK, EPs
<1>2. done \in TxState
  BY <1>1, DataSentFacts, Zenon
<1>3. r[1] \in TxState /\ r[2] \in Endpoint("in")
  <2> HIDE DEF done
  <2> QED BY <1>1, <1>2, FinishedFacts, TxSendFacts
<1>4. tx' = r[1] /\ ep' = [ep EXCEPT !["in"] = r[2]]
  BY DEF DataSent
<1> HIDE DEF r
<1> DEFINE q == Append(bank["in"], ep["in"].job)
<1>5. q \in Seq(PacketsOf("in"))
  BY <1>1 DEF DataSent, TypeOK, EndpointsOK, Endpoint, JobsOf, PacketsOf
<1>6. EndpointsOK'
  <2>1. bank' = [bank EXCEPT !["in"] = q]
    BY DEF DataSent
  <2> HIDE DEF q
  <2>2. bank' = [d \in EPs |-> bank'[d]] /\ \A d \in EPs : bank'[d] \in Seq(PacketsOf(d))
    BY <1>1, <1>5, <2>1, Zenon DEF TypeOK, EndpointsOK
  <2> QED BY <1>1, <1>3, <1>4, <2>2, OneEndpoint, Zenon DEF EndpointsOK, TypeOK, DataSent
<1>7. DriverOK'
  BY <1>3, <1>4 DEF TypeOK, DriverOK, DataSent, lineVars, histVars
<1> QED BY <1>6, <1>7, TasksUntouched DEF TypeOK, DataSent

LEMMA TypeDataReceived ==
  ASSUME TypeOK, DataReceived
  PROVE  TypeOK'
<1> DEFINE p    == Head(bank["out"])
           b    == ep["out"].job[1]
           n    == [rx.nb EXCEPT ![Other(rx.sel)] = Len(p)]
           f    == [rx.buf EXCEPT ![b] = [i \in 1..Size |-> IF i <= Len(p) THEN p[i] ELSE @[i]]]
           done == [rx EXCEPT !.nb[Other(rx.sel)] = Len(p), !.ongoing = FALSE,
                              !.buf[b] = [i \in 1..Size |-> IF i <= Len(p) THEN p[i] ELSE @[i]]]
           r    == RxStart(done, Finished(ep["out"]))
<1>1. rx \in RxState /\ ep["out"] \in Endpoint("out") /\ "out" \in EPs
  BY DEF TypeOK, DriverOK, EndpointsOK, EPs
<1>2. p \in Seq(Nat) /\ Tail(bank["out"]) \in Seq(PacketsOf("out"))
  BY DEF DataReceived, TypeOK, EndpointsOK, PacketsOf, EPs
<1>3. b \in 0..1
  <2>1. ep["out"].job \in {<<c>> : c \in 0..1}
    BY <1>1 DEF DataReceived, Endpoint, JobsOf
  <2> QED BY <2>1
<1>4. done \in RxState
  <2>1. n \in [0..1 -> Nat]
    BY <1>1, <1>2 DEF RxState, Other
  <2>2. f \in [0..1 -> [1..Size -> Nat]]
    <3>1. \A i \in 1..Size : i <= Len(p) => p[i] \in Nat
      BY <1>2
    <3>2. rx.buf \in [0..1 -> [1..Size -> Nat]]
      BY <1>1 DEF RxState
    <3> HIDE DEF p, b
    <3> QED BY <1>3, <3>1, <3>2, Zenon
  <2>3. done = [rx EXCEPT !.nb = n, !.ongoing = FALSE, !.buf = f]
    OBVIOUS
  <2> HIDE DEF n, f, done
  <2> QED BY <1>1, <2>1, <2>2, <2>3, Zenon DEF RxState
<1>5. r[1] \in RxState /\ r[2] \in Endpoint("out")
  <2> HIDE DEF done
  <2> QED BY <1>1, <1>4, FinishedFacts, RxStartFacts
<1>6. /\ rx' = r[1] /\ ep' = [ep EXCEPT !["out"] = r[2]]
      /\ bank' = [bank EXCEPT !["out"] = Tail(bank["out"])]
  BY DEF DataReceived
<1> HIDE DEF r
<1>7. EndpointsOK'
  <2>1. bank' = [d \in EPs |-> bank'[d]] /\ \A d \in EPs : bank'[d] \in Seq(PacketsOf(d))
    BY <1>1, <1>2, <1>6, Zenon DEF TypeOK, EndpointsOK
  <2> QED BY <1>1, <1>5, <1>6, <2>1, OneEndpoint, ZenonT(30) DEF EndpointsOK, TypeOK, DataReceived
<1>8. DriverOK'
  BY <1>5, <1>6 DEF TypeOK, DriverOK, DataReceived, lineVars, histVars
<1> QED BY <1>7, <1>8, TasksUntouched DEF TypeOK, DataReceived

LEMMA TypeStateSent ==
  ASSUME TypeOK, StateSent
  PROVE  TypeOK'
<1> DEFINE r == MsgSent(msg, Finished(ep["comm"]))
           q == Append(bank["comm"], ep["comm"].job[1])
<1>1. msg \in MsgState /\ ep["comm"] \in Endpoint("comm") /\ "comm" \in EPs
  BY DEF TypeOK, DriverOK, EndpointsOK, EPs
<1>2. r[1] \in MsgState /\ r[2] \in Endpoint("comm")
  BY <1>1, FinishedFacts, MsgSentFacts
<1>3. q \in Seq(PacketsOf("comm"))
  <2>1. ep["comm"].job \in {<<s>> : s \in SerialState}
    BY <1>1 DEF StateSent, Endpoint, JobsOf
  <2>2. ep["comm"].job[1] \in PacketsOf("comm")
    BY <2>1 DEF PacketsOf
  <2> QED BY <2>2 DEF TypeOK, EndpointsOK, EPs
<1>4. /\ msg' = r[1] /\ ep' = [ep EXCEPT !["comm"] = r[2]]
      /\ bank' = [bank EXCEPT !["comm"] = q]
  BY DEF StateSent
<1> HIDE DEF r, q
<1>5. EndpointsOK'
  <2>1. bank' = [d \in EPs |-> bank'[d]] /\ \A d \in EPs : bank'[d] \in Seq(PacketsOf(d))
    BY <1>1, <1>3, <1>4, Zenon DEF TypeOK, EndpointsOK
  <2> QED BY <1>1, <1>2, <1>4, <2>1, OneEndpoint, Zenon DEF EndpointsOK, TypeOK, StateSent
<1>6. DriverOK'
  BY <1>2, <1>4 DEF TypeOK, DriverOK, StateSent, lineVars
<1> QED BY <1>5, <1>6, TasksUntouched DEF TypeOK, StateSent

\* Changes of the flags of an endpoint: a halt, its end, and the interrupt of
\* an empty bank.
LEMMA TypeFlags ==
  ASSUME EndpointsOK, NEW e \in EPs,
         SetHalt(e) \/ ClearHalt(e) \/ BankEmpty(e)
  PROVE  EndpointsOK'
<1>1. ep[e] \in Endpoint(e)
  BY DEF EndpointsOK
<1>2. ep[e].wanted \in BOOLEAN
  BY <1>1 DEF Endpoint
<1>3. PICK y \in Endpoint(e) : ep' = [ep EXCEPT ![e] = y]
  <2>1. CASE SetHalt(e)
    <3>1. CASE bank[e] # <<>>
      <4>1. [ep[e] EXCEPT !.wanted = TRUE, !.watch = TRUE] \in Endpoint(e)
        BY <1>1, Zenon DEF Endpoint
      <4> QED BY <2>1, <3>1, <4>1, Zenon DEF SetHalt
    <3>2. CASE bank[e] = <<>>
      <4>1. [ep[e] EXCEPT !.stalled = TRUE] \in Endpoint(e)
        BY <1>1, Zenon DEF Endpoint
      <4> QED BY <2>1, <3>2, <4>1, Zenon DEF SetHalt
    <3> QED BY <3>1, <3>2
  <2>2. CASE ClearHalt(e)
    <3>1. [ep[e] EXCEPT !.stalled = FALSE, !.wanted = FALSE] \in Endpoint(e)
      BY <1>1, Zenon DEF Endpoint
    <3> QED BY <2>2, <3>1, Zenon DEF ClearHalt
  <2>3. CASE BankEmpty(e)
    <3>1. [ep[e] EXCEPT !.watch = FALSE, !.wanted = FALSE, !.stalled = TRUE] \in Endpoint(e)
      BY <1>1, Zenon DEF Endpoint
    <3> QED BY <2>3, <3>1, Zenon DEF BankEmpty
  <2> QED BY <2>1, <2>2, <2>3
<1>4. UNCHANGED bank /\ failed' \in BOOLEAN
  BY <1>2, Zenon DEF SetHalt, ClearHalt, BankEmpty, EndpointsOK
<1> QED BY <1>3, <1>4, OneEndpoint, Zenon DEF EndpointsOK

LEMMA TypeInterrupts ==
  ASSUME TypeOK, Interrupts
  PROVE  TypeOK'
<1>1. ASSUME BankInterrupt PROVE TypeOK'
  <2>1. EndpointsOK'
    BY <1>1, TypeFlags DEF BankInterrupt, TypeOK
  <2>2. DriverOK'
    BY <1>1 DEF BankInterrupt, TypeOK, DriverOK, lineVars, histVars
  <2> QED BY <1>1, <2>1, <2>2, TasksUntouched DEF BankInterrupt, TypeOK
<1> QED BY <1>1, TypeSof, TypeDataSent, TypeDataReceived, TypeStateSent DEF Interrupts

\* udc_reset
LEMMA TypeUnconfigure ==
  ASSUME TypeOK, Unconfigure, plugged' \in BOOLEAN, cuts' \in Nat
  PROVE  TypeOK'
<1>1. \A e \in EPs : ep[e] \in Endpoint(e)
  BY DEF TypeOK, EndpointsOK
<1>2. /\ CommFreed[1] \in MsgState /\ CommFreed[2] \in Endpoint("comm")
      /\ Freed(ep["in"]) \in Endpoint("in") /\ Freed(ep["out"]) \in Endpoint("out")
  BY <1>1, CommFreedFacts, FreedFacts, Zenon DEF EPs
<1>3. /\ msg' = CommFreed[1] /\ bank' = Drained(EPs) /\ failed' = failed
      /\ ep' = [in |-> Freed(ep["in"]), out |-> Freed(ep["out"]), comm |-> CommFreed[2]]
      /\ host' = [host EXCEPT !.state = {}]
  BY DEF Unconfigure
<1>4. EndpointsOK'
  <2>1. ep' = [e \in EPs |-> ep'[e]] /\ \A e \in EPs : ep'[e] \in Endpoint(e)
    BY <1>2, <1>3 DEF EPs
  <2> QED BY <1>3, <2>1, DrainedFacts DEF EndpointsOK, TypeOK
<1>5. DriverOK'
  <2>1. host' \in [last : Seq(Nat), state : SerialState]
    BY <1>3, Zenon DEF TypeOK, DriverOK, SerialState
  <2> QED BY <1>2, <1>3, <2>1, Zenon DEF TypeOK, DriverOK, Unconfigure
<1> QED BY <1>4, <1>5, TasksUntouched DEF TypeOK, Unconfigure

LEMMA TypeSetConfiguration ==
  ASSUME TypeOK, SetConfiguration
  PROVE  TypeOK'
<1> DEFINE in == Allocated(Freed(ep["in"]))  out == Allocated(Freed(ep["out"]))
           comm == Reallocated(Allocated(CommFreed[2]))
<1>1. \A e \in EPs : ep[e] \in Endpoint(e)
  BY DEF TypeOK, EndpointsOK
<1>2. /\ Fresh(CommFreed[1]) \in MsgState /\ comm \in Endpoint("comm")
      /\ in \in Endpoint("in") /\ out \in Endpoint("out")
  <2>1. comm \in Endpoint("comm")
    BY CommAnewFacts
  <2> HIDE DEF comm
  <2> QED BY <1>1, <2>1, CommFreedFacts, FreshFacts, FreedFacts, AllocatedFacts, Zenon DEF EPs
<1>3. /\ msg' = Fresh(CommFreed[1]) /\ bank' = Drained(EPs) /\ failed' = failed
      /\ DataEnable(in, out, comm) /\ host' = [host EXCEPT !.state = {}]
  BY DEF SetConfiguration
<1> HIDE DEF in, out, comm
<1>4. EndpointsOK'
  BY <1>2, <1>3, DataEnableFacts, DrainedFacts DEF EndpointsOK, TypeOK
<1>5. DriverOK'
  <2>1. host' \in [last : Seq(Nat), state : SerialState]
    BY <1>3, Zenon DEF TypeOK, DriverOK, SerialState
  <2>2. tx' \in TxState /\ rx' \in RxState /\ running' \in BOOLEAN
    BY <1>2, <1>3, DataEnableFacts
  <2> QED BY <1>2, <1>3, <2>1, <2>2 DEF TypeOK, DriverOK, SetConfiguration
<1> QED BY <1>4, <1>5, TasksUntouched DEF TypeOK, SetConfiguration

LEMMA TypeSetCommInterface ==
  ASSUME TypeOK, NEW exists \in BOOLEAN, SetCommInterface(exists)
  PROVE  TypeOK'
<1>1. PICK m \in MsgState, y \in Endpoint("comm") :
        msg' = m /\ ep' = [ep EXCEPT !["comm"] = y]
  <2>1. /\ CommFreed[1] \in MsgState /\ Fresh(CommFreed[1]) \in MsgState
        /\ CommFreed[2] \in Endpoint("comm") /\ Allocated(CommFreed[2]) \in Endpoint("comm")
    BY CommFreedFacts, FreshFacts, AllocatedFacts DEF EPs
  <2> QED BY <2>1, Zenon DEF SetCommInterface
<1>2. /\ bank' = Drained({"comm"}) /\ failed' = failed
      /\ host' = [host EXCEPT !.state = {}]
  BY DEF SetCommInterface
<1>3. EndpointsOK'
  <2>1. ep' = [e \in EPs |-> ep'[e]] /\ \A e \in EPs : ep'[e] \in Endpoint(e)
    BY <1>1, Zenon DEF TypeOK, EndpointsOK, EPs
  <2> QED BY <1>2, <2>1, DrainedFacts DEF EndpointsOK, TypeOK
<1>4. DriverOK'
  <2>1. host' \in [last : Seq(Nat), state : SerialState]
    BY <1>2, Zenon DEF TypeOK, DriverOK, SerialState
  <2>2. cuts' \in Nat /\ upset' \subseteq {"halt", "setting", "comm", "overtaken", "lost"}
    BY DEF TypeOK, DriverOK, SetCommInterface
  <2>3. running' \in BOOLEAN /\ stdio' \in BOOLEAN
    BY Zenon DEF SetCommInterface
  <2> QED BY <1>1, <2>1, <2>2, <2>3 DEF TypeOK, DriverOK, SetCommInterface
<1> QED BY <1>3, <1>4, TasksUntouched DEF TypeOK, SetCommInterface

LEMMA TypeSetDataInterface ==
  ASSUME TypeOK, NEW exists \in BOOLEAN, SetDataInterface(exists)
  PROVE  TypeOK'
<1> DEFINE in == Freed(ep["in"])  out == Freed(ep["out"])  comm == Reallocated(ep["comm"])
<1>1. \A e \in EPs : ep[e] \in Endpoint(e)
  BY DEF TypeOK, EndpointsOK
<1>2. /\ in \in Endpoint("in") /\ out \in Endpoint("out") /\ comm \in Endpoint("comm")
      /\ Allocated(in) \in Endpoint("in") /\ Allocated(out) \in Endpoint("out")
  BY <1>1, FreedFacts, AllocatedFacts, ReallocatedFacts, Zenon DEF EPs
<1>3. /\ \E B : bank' = Drained(B)
      /\ failed' = failed
      /\ \/ DataEnable(Allocated(in), Allocated(out), comm)
         \/ /\ ep' = [ep EXCEPT !["in"] = in, !["out"] = out]
            /\ UNCHANGED <<tx, rx, running>>
  BY DEF SetDataInterface
<1> HIDE DEF in, out, comm
<1>4. /\ ep' = [e \in EPs |-> ep'[e]] /\ \A e \in EPs : ep'[e] \in Endpoint(e)
      /\ tx' \in TxState /\ rx' \in RxState /\ running' \in BOOLEAN
  <2>1. CASE DataEnable(Allocated(in), Allocated(out), comm)
    BY <1>2, <2>1, DataEnableFacts
  <2>2. CASE /\ ep' = [ep EXCEPT !["in"] = in, !["out"] = out]
             /\ UNCHANGED <<tx, rx, running>>
    BY <1>2, <2>2, Zenon DEF TypeOK, EndpointsOK, DriverOK, EPs
  <2> QED BY <1>3, <2>1, <2>2
<1>5. EndpointsOK'
  <2>1. PICK B : bank' = Drained(B)
    BY <1>3
  <2> QED BY <1>3, <1>4, <2>1, DrainedFacts DEF EndpointsOK, TypeOK
<1>6. DriverOK'
  BY <1>4 DEF TypeOK, DriverOK, SetDataInterface
<1> QED BY <1>5, <1>6, TasksUntouched DEF TypeOK, SetDataInterface

LEMMA TypeRequests ==
  ASSUME TypeOK, Requests
  PROVE  TypeOK'
<1>1. ASSUME BusReset PROVE TypeOK'
  BY <1>1, TypeUnconfigure DEF BusReset, TypeOK, DriverOK
<1>2. ASSUME Attach PROVE TypeOK'
  BY <1>2, TypeUnconfigure DEF Attach, TypeOK, DriverOK
<1>3. ASSUME Detach PROVE TypeOK'
  <2>1. EndpointsOK'
    BY <1>3 DEF Detach, TypeOK, EndpointsOK, epVars
  <2>2. DriverOK'
    <3>1. cuts' \in Nat
      <4>1. cuts \in Nat /\ cuts' = cuts + 1
        BY <1>3 DEF Detach, TypeOK, DriverOK
      <4> QED BY <4>1
    <3>2. plugged' \in BOOLEAN
      BY <1>3, Zenon DEF Detach
    <3>3. UNCHANGED <<tx, rx, running, stdio, configured, frame, msg, made, sent, host, upset>>
      BY <1>3 DEF Detach
    <3> QED BY <3>1, <3>2, <3>3 DEF TypeOK, DriverOK
  <2> QED BY <1>3, <2>1, <2>2, TasksUntouched DEF Detach, TypeOK
<1>4. ASSUME HaltEndpoint \/ ReleaseEndpoint PROVE TypeOK'
  <2>1. EndpointsOK'
    BY <1>4, TypeFlags DEF HaltEndpoint, ReleaseEndpoint, TypeOK
  <2>2. DriverOK'
    BY <1>4, Zenon DEF HaltEndpoint, ReleaseEndpoint, TypeOK, DriverOK, lineVars, histVars
  <2> QED BY <1>4, <2>1, <2>2, TasksUntouched DEF HaltEndpoint, ReleaseEndpoint, TypeOK
<1> QED
  BY <1>1, <1>2, <1>3, <1>4, TypeSetConfiguration, TypeSetCommInterface,
     TypeSetDataInterface DEF Requests

LEMMA TypeTraffic ==
  ASSUME TypeOK, Traffic
  PROVE  TypeOK'
<1>1. ASSUME HostGetsData PROVE TypeOK'
  <2>1. Head(bank["in"]) \in Seq(Nat) /\ Tail(bank["in"]) \in Seq(PacketsOf("in"))
    BY <1>1 DEF HostGetsData, HostReads, TypeOK, EndpointsOK, PacketsOf, EPs
  <2>2. EndpointsOK'
    BY <1>1, <2>1, Zenon DEF HostGetsData, HostReads, TypeOK, EndpointsOK
  <2>3. host' \in [last : Seq(Nat), state : SerialState]
    BY <1>1, <2>1, Zenon DEF HostGetsData, TypeOK, DriverOK
  <2>4. DriverOK'
    BY <1>1, <2>3 DEF HostGetsData, TypeOK, DriverOK, lineVars
  <2> QED BY <1>1, <2>2, <2>4, TasksUntouched DEF HostGetsData, TypeOK
<1>2. ASSUME HostGetsState PROVE TypeOK'
  <2>1. /\ Head(bank["comm"]) \in SerialState
        /\ Tail(bank["comm"]) \in Seq(PacketsOf("comm"))
    BY <1>2 DEF HostGetsState, HostReads, TypeOK, EndpointsOK, PacketsOf, EPs
  <2>2. EndpointsOK'
    BY <1>2, <2>1, Zenon DEF HostGetsState, HostReads, TypeOK, EndpointsOK
  <2>3. host' \in [last : Seq(Nat), state : SerialState]
    BY <1>2, <2>1, Zenon DEF HostGetsState, TypeOK, DriverOK
  <2>4. DriverOK'
    BY <1>2, <2>3 DEF HostGetsState, TypeOK, DriverOK, lineVars
  <2> QED BY <1>2, <2>2, <2>4, TasksUntouched DEF HostGetsState, TypeOK
<1>3. ASSUME NEW n \in 0..Size, HostSendsData(n) PROVE TypeOK'
  <2> DEFINE p == [i \in 1..n |-> sent + i]
             q == Append(bank["out"], p)
  <2>1. sent \in Nat /\ n \in Nat
    BY CdcAssumption DEF TypeOK, DriverOK
  <2>2. p \in Seq(Nat)
    BY <2>1
  <2>3. q \in Seq(PacketsOf("out"))
    <3> HIDE DEF p
    <3> QED BY <2>2 DEF TypeOK, EndpointsOK, PacketsOf, EPs
  <2>4. /\ bank' = [bank EXCEPT !["out"] = q] /\ ep' = ep /\ failed' = failed
        /\ sent' = sent + n
    BY <1>3 DEF HostSendsData, HostWrites
  <2> HIDE DEF q
  <2>5. EndpointsOK'
    BY <2>3, <2>4 DEF TypeOK, EndpointsOK
  <2>6. DriverOK'
    BY <1>3, <2>1, <2>4 DEF HostSendsData, TypeOK, DriverOK, lineVars
  <2> QED BY <1>3, <2>5, <2>6, TasksUntouched DEF HostSendsData, TypeOK
<1> QED BY <1>1, <1>2, <1>3 DEF Traffic

\* A task goes to a label, with what it may have there.
LEMMA TypeGoTo ==
  ASSUME TasksOK, NEW t \in Task, NEW l \in Labels, GoTo(t, l), UNCHANGED scene,
         calls' \in [Task -> Nat],
         todo' \in [Task -> Int] /\ \A u \in Task \ {t} : todo'[u] = todo[u],
         seen' = [u \in Task |-> seen'[u]] /\ \A u \in Task \ {t} : seen'[u] = seen[u],
         l \in WriterLabels =>
           t \in Writers /\ todo'[t] \in Nat /\ (Job(t) = "putc" => todo'[t] = 1),
         l \in ReaderLabels => t \in Readers,
         l \in SignalLabels => t \in Signallers,
         l = "advance" /\ Job(t) = "read_buf" => seen'[t][2] \in Int,
         l \in {"run", "assign"} => seen'[t][2] \in 0..1
  PROVE  TasksOK'
<1>1. pc' \in [Task -> Labels] /\ pc'[t] = l /\ \A u \in Task \ {t} : pc'[u] = pc[u]
  BY DEF GoTo, TasksOK
<1> QED BY <1>1 DEF TasksOK, Job, Writers, Readers, Signallers

\* A call begins at a label of its task, with the bytes that it has to move.
LEMMA TypeBegin ==
  ASSUME TasksOK, NEW t \in Task, NEW l \in Labels, NEW n \in Nat, Begin(t, l, n),
         UNCHANGED <<scene, seen>>,
         l \in WriterLabels => t \in Writers /\ (Job(t) = "putc" => n = 1),
         l \in ReaderLabels => t \in Readers /\ l \notin {"advance", "run"},
         l \in SignalLabels => t \in Signallers /\ l # "assign"
  PROVE  TasksOK'
<1>1. calls' \in [Task -> Nat]
  BY DEF Begin, TasksOK
<1>2. /\ pc' \in [Task -> Labels] /\ todo' \in [Task -> Int]
      /\ pc'[t] = l /\ todo'[t] = n
      /\ \A u \in Task \ {t} : pc'[u] = pc[u] /\ todo'[u] = todo[u]
  BY DEF Begin, GoTo, TasksOK
<1>3. /\ seen' = [u \in Task |-> seen'[u]] /\ \A u \in Task \ {t} : seen'[u] = seen[u]
      /\ GoTo(t, l) /\ UNCHANGED scene
  BY DEF TasksOK, Begin
<1> QED BY <1>1, <1>2, <1>3, TypeGoTo DEF SignalLabels, ReaderLabels, WriterLabels

LEMMA TypePut ==
  ASSUME TasksOK, NEW t \in Task, Put(t), UNCHANGED scene
  PROVE  TasksOK'
<1>1. /\ "test" \in Labels /\ "idle" \in Labels /\ "test" \notin ReaderLabels \cup SignalLabels
      /\ "idle" \notin WriterLabels \cup ReaderLabels \cup SignalLabels
      /\ t \in Writers /\ UNCHANGED seen
  BY DEF Put, Labels, WriterLabels, ReaderLabels, SignalLabels
<1>2. CASE Job(t) = "putc" /\ stdio
  BY <1>1, <1>2, TypeBegin DEF Put
<1>3. CASE Job(t) = "putc" /\ ~stdio
  BY <1>1, <1>3, TypeBegin DEF Put
<1>4. CASE Job(t) # "putc"
  BY <1>1, <1>4, TypeBegin, CdcAssumption DEF Put
<1> QED BY <1>2, <1>3, <1>4

LEMMA TypeGet ==
  ASSUME TasksOK, NEW t \in Task, Get(t), UNCHANGED scene
  PROVE  TasksOK'
<1>1. /\ "look" \in Labels /\ "idle" \in Labels /\ "look" \notin WriterLabels \cup SignalLabels
      /\ "idle" \notin WriterLabels \cup ReaderLabels \cup SignalLabels
      /\ t \in Readers /\ UNCHANGED seen
  BY DEF Get, Labels, WriterLabels, ReaderLabels, SignalLabels
<1>2. CASE Job(t) = "getc" /\ stdio
  BY <1>1, <1>2, TypeBegin DEF Get
<1>3. CASE Job(t) = "getc" /\ ~stdio
  BY <1>1, <1>3, TypeBegin DEF Get
<1>4. CASE Job(t) # "getc"
  BY <1>1, <1>4, TypeBegin, CdcAssumption DEF Get
<1> QED BY <1>2, <1>3, <1>4

LEMMA TypeSignal ==
  ASSUME TasksOK, NEW t \in Task, Signal(t), UNCHANGED scene
  PROVE  TasksOK'
<1>1. /\ "notify" \in Labels /\ "notify" \notin WriterLabels \cup ReaderLabels
      /\ t \in Signallers /\ UNCHANGED seen /\ Begin(t, "notify", 0)
  BY DEF Signal, Labels, WriterLabels, ReaderLabels, SignalLabels
<1> QED BY <1>1, TypeBegin

\* The labels of a task, and what it has there.
LEMMA LabelFacts ==
  ASSUME TasksOK, NEW t \in Task
  PROVE  /\ pc[t] \in WriterLabels =>
              t \in Writers /\ todo[t] \in Nat /\ (Job(t) = "putc" => todo[t] = 1)
         /\ pc[t] \in ReaderLabels => t \in Readers
         /\ pc[t] \in SignalLabels => t \in Signallers
         /\ todo[t] \in Int
BY DEF TasksOK

LEMMA TypeWriter ==
  ASSUME TypeOK, NEW t \in Task, WriterStep(t), UNCHANGED scene, ~Overrun
  PROVE  TasksOK' /\ tx' \in TxState /\ made' \in Nat
<1> USE DEF WriterLabels, ReaderLabels, SignalLabels, Labels
<1>1. TasksOK /\ tx \in TxState /\ made \in Nat
  BY DEF TypeOK, DriverOK
<1>2. ASSUME Put(t) PROVE TasksOK' /\ tx' \in TxState /\ made' \in Nat
  BY <1>1, <1>2, TypePut DEF Put
<1>3. ASSUME TestRoom(t) \/ SwitchBuffer(t) \/ TestRoomAgain(t) PROVE TasksOK'
  <2>1. /\ \E l \in {"write", "full", "switch", "again"} : GoTo(t, l)
        /\ pc[t] \in WriterLabels /\ UNCHANGED <<todo, calls, seen>>
    BY <1>3 DEF TestRoom, SwitchBuffer, TestRoomAgain, At
  <2> QED BY <1>1, <2>1, LabelFacts, TypeGoTo DEF TasksOK
<1>4. ASSUME SwitchBuffer(t) PROVE tx' \in TxState
  <2>1. \A b \in 0..1 : [tx EXCEPT !.both = TRUE, !.sel = b] \in TxState
    BY <1>1, Zenon DEF TxState
  <2>2. Other(tx.sel) \in 0..1
    BY <1>1 DEF TxState, Other
  <2> QED BY <1>1, <1>4, <2>1, <2>2, Zenon DEF SwitchBuffer
<1>5. ASSUME Full(t) PROVE TasksOK'
  <2>1. CASE running
    <3>1. GoTo(t, "test") /\ pc[t] \in WriterLabels /\ UNCHANGED <<todo, calls, seen>>
      BY <1>5, <2>1 DEF Full, At
    <3> QED BY <1>1, <3>1, LabelFacts, TypeGoTo DEF TasksOK
  <2>2. CASE ~running
    <3>1. GoTo(t, "idle") /\ todo' = [todo EXCEPT ![t] = 0] /\ UNCHANGED <<calls, seen>>
      BY <1>5, <2>2 DEF Full, Abandon
    <3> QED BY <1>1, <3>1, TypeGoTo DEF TasksOK
  <2> QED BY <2>1, <2>2
<1>6. ASSUME Write(t) PROVE TasksOK' /\ tx' \in TxState /\ made' \in Nat
  <2> DEFINE n == IF Job(t) = "putc" THEN 1 ELSE Least(Size - Len(tx.buf[tx.sel]), todo[t])
             l == IF todo[t] = n THEN "idle" ELSE "test"
  <2>1. /\ pc[t] = "write" /\ UNCHANGED <<calls, seen>> /\ GoTo(t, l)
        /\ todo' = [todo EXCEPT ![t] = todo[t] - n] /\ made' = made + n
        /\ tx' = [tx EXCEPT !.buf[tx.sel] = tx.buf[tx.sel] \o [i \in 1..n |-> made + i]]
    BY <1>6 DEF Write, At
  <2>2. t \in Writers /\ todo[t] \in Nat /\ (Job(t) = "putc" => todo[t] = 1)
    BY <1>1, <2>1, LabelFacts
  <2>3. tx.sel \in 0..1 /\ tx.buf \in [0..1 -> Seq(Nat)] /\ tx.buf[tx.sel] \in Seq(Nat)
    BY <1>1 DEF TxState
  <2>4. Len(tx.buf[tx.sel]) <= Size
    BY <2>3, CdcAssumption DEF Overrun
  <2>5. n \in Nat /\ n <= todo[t] /\ (Job(t) = "putc" => n = 1)
    BY <2>2, <2>3, <2>4, CdcAssumption DEF Least
  <2> HIDE DEF n
  <2>6. TasksOK'
    <3>1. todo'[t] = todo[t] - n /\ \A u \in Task \ {t} : todo'[u] = todo[u]
      BY <1>1, <2>1 DEF TasksOK
    <3>2. todo' \in [Task -> Int] /\ calls' \in [Task -> Nat]
      BY <1>1, <2>1, <2>2, <2>5 DEF TasksOK
    <3>3. todo'[t] \in Nat /\ (Job(t) = "putc" => l = "idle")
      BY <2>2, <2>5, <3>1
    <3>4. seen' = [u \in Task |-> seen'[u]] /\ \A u \in Task \ {t} : seen'[u] = seen[u]
      BY <1>1, <2>1 DEF TasksOK
    <3> QED BY <1>1, <2>1, <2>2, <3>1, <3>2, <3>3, <3>4, TypeGoTo
  <2>7. tx' \in TxState
    <3> DEFINE p == [i \in 1..n |-> made + i]
               f == [tx.buf EXCEPT ![tx.sel] = tx.buf[tx.sel] \o p]
    <3>1. p \in Seq(Nat)
      BY <1>1, <2>5
    <3>2. f \in [0..1 -> Seq(Nat)]
      <4> HIDE DEF p
      <4> QED BY <2>3, <3>1
    <3>3. tx' = [tx EXCEPT !.buf = f]
      BY <2>1
    <3> HIDE DEF f
    <3> QED BY <1>1, <3>2, <3>3, Zenon DEF TxState
  <2> QED BY <1>1, <2>1, <2>5, <2>6, <2>7
<1>7. Put(t) \/ TestRoom(t) \/ SwitchBuffer(t) \/ TestRoomAgain(t) \/ Full(t) \/ Write(t)
  BY DEF WriterStep
<1>8. ASSUME TestRoom(t) \/ TestRoomAgain(t) \/ Full(t) PROVE tx' \in TxState /\ made' \in Nat
  BY <1>1, <1>8 DEF TestRoom, TestRoomAgain, Full
<1>9. ASSUME SwitchBuffer(t) PROVE made' \in Nat
  BY <1>1, <1>9 DEF SwitchBuffer
<1> QED BY <1>2, <1>3, <1>4, <1>5, <1>6, <1>7, <1>8, <1>9

LEMMA TypeReader ==
  ASSUME TypeOK, NEW t \in Task, ReaderStep(t), UNCHANGED scene
  PROVE  TasksOK' /\ rx' \in RxState
<1> USE DEF WriterLabels, ReaderLabels, SignalLabels, Labels
<1>1. TasksOK /\ rx \in RxState
  BY DEF TypeOK, DriverOK
<1>2. ASSUME Get(t) PROVE TasksOK' /\ rx' \in RxState
  BY <1>1, <1>2, TypeGet DEF Get
<1>3. ASSUME Look(t) \/ Compare(t) PROVE TasksOK' /\ rx' \in RxState
  <2>1. /\ \E l \in {"compare", "read", "empty"} : GoTo(t, l)
        /\ pc[t] \in ReaderLabels /\ UNCHANGED <<todo, calls, rx>>
        /\ \/ \E v : seen' = [seen EXCEPT ![t] = v]
           \/ UNCHANGED seen
    BY <1>3 DEF Look, Compare, At
  <2>2. seen' = [u \in Task |-> seen'[u]] /\ \A u \in Task \ {t} : seen'[u] = seen[u]
    BY <1>1, <2>1 DEF TasksOK
  <2> QED BY <1>1, <2>1, <2>2, LabelFacts, TypeGoTo DEF TasksOK
<1>4. ASSUME Empty(t) PROVE TasksOK' /\ rx' \in RxState
  <2>1. CASE running
    <3>1. GoTo(t, "look") /\ pc[t] \in ReaderLabels /\ UNCHANGED <<todo, calls, seen, rx>>
      BY <1>4, <2>1 DEF Empty, At
    <3> QED BY <1>1, <3>1, LabelFacts, TypeGoTo DEF TasksOK
  <2>2. CASE ~running
    <3>1. GoTo(t, "idle") /\ todo' = [todo EXCEPT ![t] = 0] /\ UNCHANGED <<calls, seen, rx>>
      BY <1>4, <2>2 DEF Empty, Abandon
    <3> QED BY <1>1, <3>1, TypeGoTo DEF TasksOK
  <2> QED BY <2>1, <2>2
<1>5. ASSUME Read(t) PROVE TasksOK' /\ rx' \in RxState
  <2>1. GoTo(t, "advance") /\ pc[t] \in ReaderLabels /\ UNCHANGED <<todo, calls, rx>>
    BY <1>5 DEF Read, At
  <2>2. PICK v : seen' = [seen EXCEPT ![t] = v] /\ (Job(t) = "read_buf" => v[2] \in Int)
    <3>1. CASE Job(t) = "getc"
      BY <1>5, <3>1 DEF Read
    <3>2. CASE Job(t) # "getc"
      <4> DEFINE n == Least(rx.nb[rx.sel] - rx.pos, todo[t])
      <4>1. n \in Int
        BY <1>1, LabelFacts DEF RxState, Least
      <4>2. seen' = [seen EXCEPT ![t] = <<"count", n>>]
        BY <1>5, <3>2 DEF Read
      <4> HIDE DEF n
      <4>3. <<"count", n>>[2] \in Int
        BY <4>1
      <4> WITNESS <<"count", n>>
      <4> QED BY <4>2, <4>3
    <3> QED BY <3>1, <3>2
  <2>3. /\ seen' = [u \in Task |-> seen'[u]] /\ \A u \in Task \ {t} : seen'[u] = seen[u]
        /\ Job(t) = "read_buf" => seen'[t][2] \in Int
    BY <1>1, <2>2 DEF TasksOK
  <2> QED BY <1>1, <2>1, <2>3, LabelFacts, TypeGoTo DEF TasksOK
<1>6. ASSUME Advance(t) PROVE TasksOK' /\ rx' \in RxState
  <2> DEFINE n == IF Job(t) = "getc" THEN 1 ELSE seen[t][2]
  <2>1. /\ GoTo(t, "claim") /\ pc[t] = "advance" /\ UNCHANGED <<calls, seen>>
        /\ rx' = [rx EXCEPT !.pos = rx.pos + n]
        /\ todo' = [todo EXCEPT ![t] = todo[t] - n]
    BY <1>6 DEF Advance, At
  <2>2. t \in Readers
    BY <1>1, <2>1, LabelFacts
  <2>3. n \in Int
    BY <1>1, <2>1, <2>2 DEF TasksOK, Readers
  <2> HIDE DEF n
  <2>4. todo' \in [Task -> Int] /\ \A u \in Task \ {t} : todo'[u] = todo[u]
    BY <1>1, <2>1, <2>3 DEF TasksOK
  <2>5. rx' \in RxState
    BY <1>1, <2>1, <2>3 DEF RxState
  <2> QED BY <1>1, <2>1, <2>2, <2>4, <2>5, TypeGoTo DEF TasksOK
<1>7. ASSUME Claim(t) PROVE TasksOK' /\ rx' \in RxState
  <2>1. pc[t] \in ReaderLabels /\ UNCHANGED <<todo, calls>>
    BY <1>7 DEF Claim, At
  <2>2. CASE rx.ongoing \/ Unread(rx)
    <3>1. (\E l \in {"idle", "look"} : GoTo(t, l)) /\ UNCHANGED <<seen, rx>>
      BY <1>7, <2>2 DEF Claim
    <3> QED BY <1>1, <2>1, <3>1, LabelFacts, TypeGoTo DEF TasksOK
  <2>3. CASE ~(rx.ongoing \/ Unread(rx))
    <3>1. /\ GoTo(t, "run") /\ rx' = Switched(rx)
          /\ seen' = [seen EXCEPT ![t] = <<"buf", rx.sel>>]
      BY <1>7, <2>3 DEF Claim
    <3>2. /\ seen' = [u \in Task |-> seen'[u]] /\ \A u \in Task \ {t} : seen'[u] = seen[u]
          /\ seen'[t][2] \in 0..1
      BY <1>1, <3>1, Zenon DEF TasksOK, RxState
    <3>3. Switched(rx) \in RxState
      BY <1>1, SwitchedFacts
    <3> QED BY <1>1, <2>1, <3>1, <3>2, <3>3, LabelFacts, TypeGoTo, Zenon DEF TasksOK
  <2> QED BY <2>2, <2>3
<1>8. ASSUME RunReception(t) PROVE TasksOK' /\ rx' \in RxState
  <2>1. /\ \E l \in {"idle", "look"} : GoTo(t, l)
        /\ pc[t] \in ReaderLabels /\ UNCHANGED <<todo, calls, seen, rx>>
    BY <1>8 DEF RunReception, At
  <2> QED BY <1>1, <2>1, LabelFacts, TypeGoTo DEF TasksOK
<1> QED BY <1>2, <1>3, <1>4, <1>5, <1>6, <1>7, <1>8 DEF ReaderStep

LEMMA TypeSignaller ==
  ASSUME TypeOK, NEW t \in Task, SignalStep(t), UNCHANGED scene
  PROVE  /\ TasksOK' /\ msg' \in MsgState
         /\ upset' \subseteq {"halt", "setting", "comm", "overtaken", "lost"}
<1> USE DEF WriterLabels, ReaderLabels, SignalLabels, Labels
<1> DEFINE Goal == /\ TasksOK' /\ msg' \in MsgState
                   /\ upset' \subseteq {"halt", "setting", "comm", "overtaken", "lost"}
<1>1. /\ TasksOK /\ msg \in MsgState
      /\ upset \subseteq {"halt", "setting", "comm", "overtaken", "lost"}
  BY DEF TypeOK, DriverOK
<1>2. ASSUME Signal(t) PROVE Goal
  <2>1. PICK s \in {msg.state \ {"dcd"}} \cup {msg.state \cup {b} : b \in Irregular \cup {"dcd"}} :
          msg' = [msg EXCEPT !.state = s]
    BY <1>2 DEF Signal
  <2>2. s \in SerialState
    BY <1>1 DEF MsgState, SerialState
  <2>3. msg' \in MsgState
    BY <1>1, <2>1, <2>2 DEF MsgState
  <2> QED BY <1>1, <1>2, <2>3, TypeSignal, Zenon DEF Signal
<1>3. ASSUME NotifyHost(t) PROVE Goal
  <2>1. /\ \E l \in {"idle", "raise"} : GoTo(t, l)
        /\ pc[t] \in SignalLabels /\ UNCHANGED <<todo, calls, seen, upset>>
        /\ msg' = msg \/ msg' = [msg EXCEPT !.value = msg.state]
    BY <1>3 DEF NotifyHost, At
  <2>2. msg' \in MsgState
    BY <1>1, <2>1 DEF MsgState
  <2> QED BY <1>1, <2>1, <2>2, LabelFacts, TypeGoTo DEF TasksOK
<1>4. ASSUME RunMessage(t) PROVE Goal
  <2>1. /\ GoTo(t, "assign") /\ pc[t] \in SignalLabels /\ UNCHANGED <<todo, calls, msg, upset>>
        /\ seen' = [seen EXCEPT ![t] = <<"ok", IF Accepts(ep["comm"]) THEN 1 ELSE 0>>]
    BY <1>4 DEF RunMessage, At
  <2>2. /\ seen' = [u \in Task |-> seen'[u]] /\ \A u \in Task \ {t} : seen'[u] = seen[u]
        /\ seen'[t][2] \in 0..1
    BY <1>1, <2>1 DEF TasksOK
  <2> QED BY <1>1, <2>1, <2>2, LabelFacts, TypeGoTo, Zenon DEF TasksOK
<1>5. ASSUME AssignOngoing(t) PROVE Goal
  <2>1. /\ GoTo(t, "idle") /\ UNCHANGED <<todo, calls, seen>>
        /\ msg' = [msg EXCEPT !.ongoing = (seen[t][2] = 1)]
        /\ upset' = upset \/ upset' = upset \cup {"overtaken"}
    BY <1>5 DEF AssignOngoing
  <2>2. msg' \in MsgState
    BY <1>1, <2>1, Zenon DEF MsgState
  <2> QED BY <1>1, <2>1, <2>2, TypeGoTo DEF TasksOK
<1> QED BY <1>2, <1>3, <1>4, <1>5 DEF SignalStep

\* A step of a task leaves the endpoints well-typed.
LEMMA TypeTaskEndpoints ==
  ASSUME TypeOK, NEW t \in Task, TaskStep(t)
  PROVE  EndpointsOK'
<1>1. ASSUME RunReception(t) PROVE EndpointsOK'
  <2>1. /\ ep' = [ep EXCEPT !["out"] = Run(ep["out"], <<seen[t][2]>>)]
        /\ pc[t] = "run" /\ UNCHANGED <<bank, failed>>
    BY <1>1 DEF RunReception, TaskStep, At
  <2>2. <<seen[t][2]>> \in JobsOf("out") /\ ep["out"] \in Endpoint("out") /\ "out" \in EPs
    BY <2>1 DEF TypeOK, TasksOK, EndpointsOK, EPs, JobsOf
  <2>3. Run(ep["out"], <<seen[t][2]>>) \in Endpoint("out")
    BY <2>2, RunFacts
  <2> QED BY <2>1, <2>2, <2>3, OneEndpoint, Zenon DEF EndpointsOK, TypeOK
<1>2. ASSUME RunMessage(t) PROVE EndpointsOK'
  <2>1. /\ ep' = [ep EXCEPT !["comm"] = Run(ep["comm"], <<msg.value>>)]
        /\ UNCHANGED <<bank, failed>>
    BY <1>2 DEF RunMessage, TaskStep
  <2>2. <<msg.value>> \in JobsOf("comm") /\ ep["comm"] \in Endpoint("comm") /\ "comm" \in EPs
    BY DEF TypeOK, DriverOK, MsgState, EndpointsOK, EPs, JobsOf
  <2>3. Run(ep["comm"], <<msg.value>>) \in Endpoint("comm")
    BY <2>2, RunFacts
  <2> QED BY <2>1, <2>2, <2>3, OneEndpoint, Zenon DEF EndpointsOK, TypeOK
<1>3. ASSUME ~RunReception(t), ~RunMessage(t) PROVE UNCHANGED epVars
  BY <1>3 DEF TaskStep, WriterStep, ReaderStep, SignalStep, epVars,
     Put, TestRoom, SwitchBuffer, TestRoomAgain, Full, Write,
     Get, Look, Compare, Empty, Read, Advance, Claim, Signal, NotifyHost, AssignOngoing
<1>4. ASSUME UNCHANGED epVars PROVE EndpointsOK'
  BY <1>4 DEF TypeOK, EndpointsOK, epVars
<1> QED BY <1>1, <1>2, <1>3, <1>4

LEMMA TypeTask ==
  ASSUME TypeOK, NEW t \in Task, TaskStep(t), ~Overrun
  PROVE  TypeOK'
<1>1. UNCHANGED <<scene, lineVars, frame, sent, host, cuts>>
  BY DEF TaskStep
<1>2. CASE WriterStep(t)
  <2>1. TasksOK' /\ tx' \in TxState /\ made' \in Nat
    BY <1>1, <1>2, TypeWriter
  <2>2. UNCHANGED <<rx, msg, upset>>
    BY <1>2 DEF WriterStep, Put, TestRoom, SwitchBuffer, TestRoomAgain, Full, Write
  <2> QED BY <1>1, <2>1, <2>2, TypeTaskEndpoints DEF TypeOK, DriverOK, lineVars
<1>3. CASE ReaderStep(t)
  <2>1. TasksOK' /\ rx' \in RxState
    BY <1>1, <1>3, TypeReader
  <2>2. UNCHANGED <<tx, msg, made, upset>>
    BY <1>3 DEF ReaderStep, Get, Look, Compare, Empty, Read, Advance, Claim, RunReception
  <2> QED BY <1>1, <2>1, <2>2, TypeTaskEndpoints DEF TypeOK, DriverOK, lineVars
<1>4. CASE SignalStep(t)
  <2>1. /\ TasksOK' /\ msg' \in MsgState
        /\ upset' \subseteq {"halt", "setting", "comm", "overtaken", "lost"}
    BY <1>1, <1>4, TypeSignaller
  <2>2. UNCHANGED <<tx, rx, made>>
    BY <1>4 DEF SignalStep, Signal, NotifyHost, RunMessage, AssignOngoing
  <2> QED BY <1>1, <2>1, <2>2, TypeTaskEndpoints DEF TypeOK, DriverOK, lineVars
<1> QED BY <1>2, <1>3, <1>4 DEF TaskStep

\* Every variable of the port has the values that the code gives it, whatever
\* the tasks and the host do: a job of an endpoint always moves what its
\* direction moves, a task at a label of its call has what that label needs.
THEOREM TypeCorrect == Spec => []TypeOK
<1>1. TypeOK /\ [Next]_vars => TypeOK'
  <2> SUFFICES ASSUME TypeOK, [Next]_vars PROVE TypeOK'
    OBVIOUS
  <2>1. CASE Next
    BY <2>1, TypeInterrupts, TypeRequests, TypeTraffic, TypeTask DEF Next, Goes
  <2>2. CASE UNCHANGED vars
    <3>1. TasksOK'
      BY <2>2, TasksUntouched DEF TypeOK, vars
    <3>2. EndpointsOK' /\ DriverOK'
      BY <2>2 DEF TypeOK, EndpointsOK, DriverOK, vars, epVars, lineVars, histVars
    <3> QED BY <3>1, <3>2 DEF TypeOK
  <2> QED BY <2>1, <2>2
<1> QED BY <1>1, TypeInit, PTL DEF Spec

-----------------------------------------------------------------------------
(* A direction is marked as busy only while a job will free it.  The mark is *)
(* set together with the job, if the endpoint takes it; it takes one unless  *)
(* it is off, which brings the line down, or about to be halted.             *)

\* Only the host's request to halt an endpoint stalls it or asks for that.
Unhalted(e) == ~ep[e].stalled /\ ~ep[e].wanted /\ ~ep[e].watch

HaltedByHost == "halt" \in upset \/ \A e \in EPs : Unhalted(e)

\* The two data endpoints are switched on and off together.
Paired == ep["in"].on = ep["out"].on

JobInv == HaltedByHost /\ Paired /\ OngoingHasJob

LEMMA JobInit == Init => JobInv
BY DEF Init, JobInv, HaltedByHost, Unhalted, Paired, OngoingHasJob, Up, Off, EPs

LEMMA EndpointTypes ==
  ASSUME TypeOK
  PROVE  /\ ep["in"] \in Endpoint("in") /\ ep["out"] \in Endpoint("out")
         /\ ep["comm"] \in Endpoint("comm") /\ ep = [e \in EPs |-> ep[e]]
         /\ tx \in TxState /\ rx \in RxState /\ msg \in MsgState /\ frame \in Nat
BY DEF TypeOK, EndpointsOK, DriverOK, EPs

LEMMA JobSof ==
  ASSUME TypeOK, JobInv, Sof
  PROVE  JobInv'
<1> DEFINE r == IF configured THEN TxSend(tx, ep["in"], frame') ELSE <<tx, ep["in"]>>
<1>1. frame' \in Nat
  BY CdcAssumption DEF TypeOK, DriverOK, Sof
<1>2. /\ r[2] \in Endpoint("in") /\ SameFlags(ep["in"], r[2])
      /\ \/ r[1] = tx /\ r[2] = ep["in"]
         \/ r[2].busy <=> ep["in"].busy \/ Accepts(ep["in"])
  <2>1. CASE configured
    BY <1>1, <2>1, EndpointTypes, TxSendFacts
  <2>2. CASE ~configured
    BY <2>2, EndpointTypes DEF SameFlags
  <2> QED BY <2>1, <2>2
<1>3. /\ tx' = r[1] /\ ep' = [ep EXCEPT !["in"] = r[2]]
      /\ UNCHANGED <<rx, msg, upset, pc, scene>>
  BY DEF Sof, taskVars, histVars
<1> HIDE DEF r
<1>4. ep'["in"] = r[2] /\ ep'["out"] = ep["out"] /\ ep'["comm"] = ep["comm"]
  BY <1>3, EndpointTypes DEF EPs
<1> QED
  BY <1>2, <1>3, <1>4 DEF JobInv, HaltedByHost, Unhalted, Paired, OngoingHasJob, Up,
     SameFlags, Accepts, Readers, Job, EPs

LEMMA JobDataSent ==
  ASSUME TypeOK, JobInv, DataSent
  PROVE  JobInv'
<1> DEFINE done == [tx EXCEPT !.buf[Other(tx.sel)] = <<>>, !.both = FALSE, !.ongoing = FALSE]
           x    == Finished(ep["in"])
           r    == TxSend(done, x, frame)
<1>1. done \in TxState /\ ~done.ongoing
  BY DataSentFacts, Zenon DEF TypeOK, DriverOK
<1>2. x \in Endpoint("in") /\ SameFlags(ep["in"], x) /\ ~x.busy
  BY EndpointTypes, FinishedFacts DEF EPs
<1>3. /\ tx' = r[1] /\ ep' = [ep EXCEPT !["in"] = r[2]]
      /\ UNCHANGED <<rx, msg, upset, pc, scene>>
  BY DEF DataSent, taskVars, histVars
<1> HIDE DEF done, x
<1>4. /\ SameFlags(x, r[2])
      /\ ~r[1].ongoing \/ (r[2].busy <=> x.busy \/ Accepts(x))
  BY <1>1, <1>2, EndpointTypes, TxSendFacts
<1> HIDE DEF r
<1>5. ep'["in"] = r[2] /\ ep'["out"] = ep["out"] /\ ep'["comm"] = ep["comm"]
  BY <1>3, EndpointTypes DEF EPs
<1> QED
  BY <1>2, <1>3, <1>4, <1>5 DEF JobInv, HaltedByHost, Unhalted, Paired, OngoingHasJob, Up,
     SameFlags, Accepts, Readers, Job, EPs

LEMMA JobDataReceived ==
  ASSUME TypeOK, JobInv, DataReceived
  PROVE  JobInv'
<1> DEFINE p    == Head(bank["out"])
           b    == ep["out"].job[1]
           done == [rx EXCEPT !.nb[Other(rx.sel)] = Len(p), !.ongoing = FALSE,
                              !.buf[b] = [i \in 1..Size |-> IF i <= Len(p) THEN p[i] ELSE @[i]]]
           x    == Finished(ep["out"])
           r    == RxStart(done, x)
<1>1. ~done.ongoing
  BY EndpointTypes DEF RxState
<1>2. x \in Endpoint("out") /\ SameFlags(ep["out"], x) /\ ~x.busy
  BY EndpointTypes, FinishedFacts DEF EPs
<1>3. /\ rx' = r[1] /\ ep' = [ep EXCEPT !["out"] = r[2]]
      /\ UNCHANGED <<tx, msg, upset, pc, scene>>
  BY DEF DataReceived, taskVars, histVars
<1> HIDE DEF done, x
<1>4. /\ SameFlags(x, r[2])
      /\ ~r[1].ongoing \/ (r[2].busy <=> x.busy \/ Accepts(x))
  <2>1. CASE done.ongoing \/ Unread(done)
    BY <1>1, <2>1 DEF RxStart, SameFlags
  <2>2. CASE ~(done.ongoing \/ Unread(done))
    <3>1. r = <<Switched(done), Run(x, <<done.sel>>)>>
      BY <2>2 DEF RxStart
    <3> QED BY <1>2, <3>1 DEF Run, SameFlags, Accepts, Endpoint
  <2> QED BY <2>1, <2>2
<1> HIDE DEF r
<1>5. ep'["out"] = r[2] /\ ep'["in"] = ep["in"] /\ ep'["comm"] = ep["comm"]
  BY <1>3, EndpointTypes DEF EPs
<1> QED
  BY <1>2, <1>3, <1>4, <1>5 DEF JobInv, HaltedByHost, Unhalted, Paired, OngoingHasJob, Up,
     SameFlags, Accepts, Readers, Job, EPs

LEMMA JobStateSent ==
  ASSUME TypeOK, JobInv, StateSent
  PROVE  JobInv'
<1> DEFINE x == Finished(ep["comm"])
           r == MsgSent(msg, x)
<1>1. x \in Endpoint("comm") /\ SameFlags(ep["comm"], x) /\ ~x.busy
  BY EndpointTypes, FinishedFacts DEF EPs
<1>2. /\ msg' = r[1] /\ ep' = [ep EXCEPT !["comm"] = r[2]]
      /\ upset' = upset \ {"lost"} /\ UNCHANGED <<tx, rx, pc, scene>>
  BY DEF StateSent, taskVars
<1> HIDE DEF x
<1>3. SameFlags(x, r[2]) /\ (r[1].ongoing <=> r[2].busy)
  BY <1>1, EndpointTypes, MsgSentFacts
<1> HIDE DEF r
<1>4. ep'["comm"] = r[2] /\ ep'["in"] = ep["in"] /\ ep'["out"] = ep["out"]
  BY <1>2, EndpointTypes DEF EPs
<1> QED
  BY <1>1, <1>2, <1>3, <1>4 DEF JobInv, HaltedByHost, Unhalted, Paired, OngoingHasJob, Up,
     SameFlags, Readers, Job, EPs

\* A change of the flags of an endpoint leaves its job alone.  The halt is
\* recorded in the same step.
LEMMA JobFlags ==
  ASSUME TypeOK, JobInv, NEW e \in EPs,
         \/ SetHalt(e) /\ upset' = upset \cup {"halt"}
         \/ (ClearHalt(e) \/ BankEmpty(e)) /\ UNCHANGED upset,
         UNCHANGED <<tx, rx, msg, pc, scene>>
  PROVE  JobInv'
<1>1. ep[e] \in Endpoint(e) /\ ep = [d \in EPs |-> ep[d]]
  BY DEF TypeOK, EndpointsOK
<1>2. /\ ep'[e].on = ep[e].on /\ ep'[e].busy = ep[e].busy
      /\ \A d \in EPs \ {e} : ep'[d] = ep[d]
  <2>1. CASE SetHalt(e)
    BY <1>1, <2>1 DEF SetHalt, Endpoint
  <2>2. CASE ClearHalt(e)
    BY <1>1, <2>2 DEF ClearHalt, Endpoint
  <2>3. CASE BankEmpty(e)
    BY <1>1, <2>3 DEF BankEmpty, Endpoint
  <2> QED BY <2>1, <2>2, <2>3
<1>3. "halt" \notin upset' => ClearHalt(e) /\ UNCHANGED upset
  BY DEF BankEmpty, JobInv, HaltedByHost, Unhalted
<1>4. ClearHalt(e) => Unhalted(e)' \/ ep[e].watch
  BY <1>1, ZenonT(30) DEF ClearHalt, Unhalted, Endpoint
<1>5. HaltedByHost'
  <2> SUFFICES ASSUME "halt" \notin upset' PROVE \A d \in EPs : Unhalted(d)'
    BY DEF HaltedByHost
  <2>1. \A d \in EPs : Unhalted(d)
    BY <1>3 DEF JobInv, HaltedByHost
  <2> QED BY <1>2, <1>3, <1>4, <2>1 DEF Unhalted
<1>6. \A d \in EPs : ep'[d].on = ep[d].on /\ ep'[d].busy = ep[d].busy
  BY <1>2
<1>7. Paired' /\ OngoingHasJob'
  BY <1>6 DEF JobInv, Paired, OngoingHasJob, Up, Readers, Job, EPs
<1> QED BY <1>5, <1>7 DEF JobInv

LEMMA JobInterrupts ==
  ASSUME TypeOK, JobInv, Interrupts
  PROVE  JobInv'
<1>1. ASSUME BankInterrupt PROVE JobInv'
  BY <1>1, JobFlags DEF BankInterrupt, taskVars, histVars
<1> QED BY <1>1, JobSof, JobDataSent, JobDataReceived, JobStateSent DEF Interrupts

LEMMA JobUnconfigure ==
  ASSUME TypeOK, JobInv, Unconfigure
  PROVE  JobInv'
<1> DEFINE in == Freed(ep["in"])  out == Freed(ep["out"])  comm == CommFreed[2]
<1>1. /\ in.on = FALSE /\ ~in.stalled /\ ~in.watch /\ in.wanted = ep["in"].wanted
      /\ out.on = FALSE /\ ~out.stalled /\ ~out.watch /\ out.wanted = ep["out"].wanted
  BY EndpointTypes, FreedFacts, Zenon DEF EPs
<1>2. /\ ~comm.on /\ ~comm.stalled /\ ~comm.watch /\ ~comm.busy
      /\ comm.wanted = ep["comm"].wanted
      /\ ~CommFreed[1].ongoing \/ (~ep["comm"].busy /\ CommFreed[1] = msg)
  BY CommFreedFacts
<1>3. ep'["in"] = in /\ ep'["out"] = out /\ ep'["comm"] = comm /\ msg' = CommFreed[1]
  BY DEF Unconfigure
<1>4. UNCHANGED upset
  BY DEF Unconfigure
<1> HIDE DEF in, out, comm
<1>5. HaltedByHost'
  BY <1>1, <1>2, <1>3, <1>4 DEF JobInv, HaltedByHost, Unhalted, EPs
<1>6. Paired' /\ ~Up'
  BY <1>1, <1>3, Zenon DEF Paired, Up
<1>7. msg'.ongoing /\ ~ep'["comm"].busy => "overtaken" \in upset'
  BY <1>2, <1>3, <1>4 DEF JobInv, OngoingHasJob
<1> QED BY <1>5, <1>6, <1>7 DEF JobInv, OngoingHasJob

LEMMA JobSetConfiguration ==
  ASSUME TypeOK, JobInv, SetConfiguration
  PROVE  JobInv'
<1> DEFINE in == Allocated(Freed(ep["in"]))  out == Allocated(Freed(ep["out"]))
           comm == Reallocated(Allocated(CommFreed[2]))
<1>1. /\ in \in Endpoint("in") /\ out \in Endpoint("out")
      /\ in.on /\ ~in.stalled /\ ~in.watch /\ ~in.busy /\ in.wanted = ep["in"].wanted
      /\ out.on /\ ~out.stalled /\ ~out.watch /\ ~out.busy /\ out.wanted = ep["out"].wanted
  <2>1. /\ Freed(ep["in"]) \in Endpoint("in") /\ Freed(ep["out"]) \in Endpoint("out")
        /\ "in" \in EPs /\ "out" \in EPs
    BY EndpointTypes, FreedFacts, Zenon DEF EPs
  <2>2. /\ ~Freed(ep["in"]).stalled /\ ~Freed(ep["in"]).watch /\ ~Freed(ep["in"]).busy
        /\ Freed(ep["in"]).wanted = ep["in"].wanted
        /\ ~Freed(ep["out"]).stalled /\ ~Freed(ep["out"]).watch /\ ~Freed(ep["out"]).busy
        /\ Freed(ep["out"]).wanted = ep["out"].wanted
    BY EndpointTypes, FreedFacts, Zenon DEF EPs
  <2> QED BY <2>1, <2>2, AllocatedFacts
<1>2. /\ comm \in Endpoint("comm") /\ CommFreed[1] \in MsgState
      /\ ~comm.stalled /\ ~comm.watch /\ ~comm.busy /\ comm.wanted = ep["comm"].wanted
      /\ ~CommFreed[1].ongoing \/ (~ep["comm"].busy /\ CommFreed[1] = msg)
  BY CommFreedFacts, CommAnewFacts
<1>3. /\ msg' = Fresh(CommFreed[1]) /\ DataEnable(in, out, comm)
      /\ upset' = upset \ {"comm", "setting", "lost"}
  BY DEF SetConfiguration
<1> HIDE DEF in, out, comm
<1>4. /\ SameFlags(in, ep'["in"]) /\ SameFlags(out, ep'["out"]) /\ ep'["comm"] = comm
      /\ tx'.ongoing => (ep'["in"].busy <=> in.busy \/ Accepts(in))
      /\ rx'.ongoing => (ep'["out"].busy <=> out.busy \/ Accepts(out))
  BY <1>1, <1>2, <1>3, DataEnableFacts
<1>5. msg'.ongoing = CommFreed[1].ongoing
  BY <1>2, <1>3, FreshFacts
<1>6. HaltedByHost' /\ Paired'
  BY <1>1, <1>2, <1>3, <1>4 DEF JobInv, HaltedByHost, Unhalted, Paired, SameFlags, EPs
<1> QED
  BY <1>1, <1>2, <1>3, <1>4, <1>5, <1>6 DEF JobInv, HaltedByHost, Unhalted, OngoingHasJob, Up,
     Accepts, EPs

LEMMA JobSetCommInterface ==
  ASSUME TypeOK, JobInv, NEW exists \in BOOLEAN, SetCommInterface(exists)
  PROVE  JobInv'
<1>1. /\ CommFreed[1] \in MsgState
      /\ ~CommFreed[1].ongoing \/ (~ep["comm"].busy /\ CommFreed[1] = msg)
  BY CommFreedFacts
<1>2. PICK comm : /\ ep' = [ep EXCEPT !["comm"] = comm]
                  /\ ~comm.stalled /\ ~comm.watch /\ ~comm.busy
                  /\ comm.wanted = ep["comm"].wanted
  BY CommFreedFacts, CommAnewFacts DEF SetCommInterface
<1>3. ep'["comm"] = comm /\ ep'["in"] = ep["in"] /\ ep'["out"] = ep["out"]
  BY <1>2, EndpointTypes DEF EPs
<1>4. /\ upset' = upset \cup {"comm"} /\ UNCHANGED <<tx, rx, pc, scene>>
      /\ msg'.ongoing = CommFreed[1].ongoing
  BY <1>1, FreshFacts DEF SetCommInterface, taskVars
<1>5. HaltedByHost' /\ Paired'
  BY <1>2, <1>3, <1>4 DEF JobInv, HaltedByHost, Unhalted, Paired, EPs
<1> QED
  BY <1>1, <1>2, <1>3, <1>4, <1>5 DEF JobInv, OngoingHasJob, Up, Readers, Job

LEMMA JobSetDataInterface ==
  ASSUME TypeOK, JobInv, NEW exists \in BOOLEAN, SetDataInterface(exists)
  PROVE  JobInv'
<1> DEFINE in == Freed(ep["in"])  out == Freed(ep["out"])
           i  == Allocated(in)    o   == Allocated(out)  comm == Reallocated(ep["comm"])
<1>1. /\ in \in Endpoint("in") /\ out \in Endpoint("out")
      /\ in.on = FALSE /\ ~in.stalled /\ ~in.watch /\ ~in.busy /\ in.wanted = ep["in"].wanted
      /\ out.on = FALSE /\ ~out.stalled /\ ~out.watch /\ ~out.busy /\ out.wanted = ep["out"].wanted
  BY EndpointTypes, FreedFacts, Zenon DEF EPs
<1>2. /\ i \in Endpoint("in") /\ o \in Endpoint("out")
      /\ i.on /\ ~i.stalled /\ ~i.watch /\ ~i.busy /\ i.wanted = ep["in"].wanted
      /\ o.on /\ ~o.stalled /\ ~o.watch /\ ~o.busy /\ o.wanted = ep["out"].wanted
  <2> HIDE DEF in, out
  <2> QED BY <1>1, AllocatedFacts DEF EPs
<1>3. /\ \/ DataEnable(i, o, comm)
         \/ /\ ep' = [ep EXCEPT !["in"] = in, !["out"] = out]
            /\ UNCHANGED <<tx, rx, running>>
      /\ upset \subseteq upset' /\ ("halt" \in upset' => "halt" \in upset)
      /\ UNCHANGED <<msg, pc, scene>>
  BY DEF SetDataInterface, taskVars
<1>4. /\ comm \in Endpoint("comm") /\ comm.wanted = ep["comm"].wanted
      /\ comm.busy = ep["comm"].busy
      /\ ~ep["comm"].stalled => ~comm.stalled
      /\ ~ep["comm"].watch => ~comm.watch
  BY EndpointTypes, ReallocatedFacts DEF EPs
<1> HIDE DEF in, out, i, o, comm
<1>5. CASE DataEnable(i, o, comm)
  <2>1. /\ SameFlags(i, ep'["in"]) /\ SameFlags(o, ep'["out"]) /\ ep'["comm"] = comm
        /\ tx'.ongoing => (ep'["in"].busy <=> i.busy \/ Accepts(i))
        /\ rx'.ongoing => (ep'["out"].busy <=> o.busy \/ Accepts(o))
    BY <1>2, <1>5, <1>4, DataEnableFacts
  <2>2. HaltedByHost' /\ Paired'
    BY <1>2, <1>3, <1>4, <2>1 DEF JobInv, HaltedByHost, Unhalted, Paired, SameFlags, EPs
  <2> QED
    BY <1>2, <1>3, <1>4, <2>1, <2>2 DEF JobInv, HaltedByHost, Unhalted, OngoingHasJob, Up,
       Accepts, EPs
<1>6. CASE /\ ep' = [ep EXCEPT !["in"] = in, !["out"] = out]
           /\ UNCHANGED <<tx, rx, running>>
  <2>1. ep'["in"] = in /\ ep'["out"] = out /\ ep'["comm"] = ep["comm"]
    BY <1>6, EndpointTypes DEF EPs
  <2>2. HaltedByHost'
    BY <1>1, <1>3, <2>1 DEF JobInv, HaltedByHost, Unhalted, EPs
  <2>3. Paired' /\ ~Up'
    BY <1>1, <2>1, Zenon DEF Paired, Up
  <2>4. msg'.ongoing /\ ~ep'["comm"].busy => "overtaken" \in upset'
    BY <1>3, <2>1 DEF JobInv, OngoingHasJob
  <2> QED BY <2>2, <2>3, <2>4 DEF JobInv, OngoingHasJob
<1> QED BY <1>3, <1>5, <1>6

LEMMA JobRequests ==
  ASSUME TypeOK, JobInv, Requests
  PROVE  JobInv'
<1>1. ASSUME Detach PROVE JobInv'
  BY <1>1 DEF Detach, JobInv, HaltedByHost, Unhalted, Paired, OngoingHasJob, Up, Readers, Job,
     epVars, taskVars
<1>2. ASSUME HaltEndpoint \/ ReleaseEndpoint PROVE JobInv'
  BY <1>2, JobFlags DEF HaltEndpoint, ReleaseEndpoint, taskVars, histVars
<1> QED
  BY <1>1, <1>2, JobUnconfigure, JobSetConfiguration, JobSetCommInterface,
     JobSetDataInterface DEF Requests, BusReset, Attach

LEMMA JobTraffic ==
  ASSUME JobInv, Traffic
  PROVE  JobInv'
<1>1. UNCHANGED <<ep, tx, rx, msg, upset, pc, scene>>
  BY Zenon DEF Traffic, HostGetsData, HostGetsState, HostSendsData, HostReads, HostWrites, taskVars
<1> QED BY <1>1 DEF JobInv, HaltedByHost, Unhalted, Paired, OngoingHasJob, Up, Readers, Job

LEMMA JobReader ==
  ASSUME TypeOK, JobInv, NEW t \in Task, ReaderStep(t),
         UNCHANGED <<scene, tx, msg, upset>>
  PROVE  JobInv'
<1>1. ep["out"] \in Endpoint("out") /\ ep = [e \in EPs |-> ep[e]]
  BY EndpointTypes
<1>2. ASSUME Claim(t) PROVE JobInv'
  <2>1. UNCHANGED <<ep, msg, tx, upset, scene>> /\ pc[t] = "claim"
    BY <1>2 DEF Claim, At
  <2>2. t \in Readers' /\ pc \in [Task -> Labels]
    BY <2>1 DEF TypeOK, TasksOK, ReaderLabels, Readers, Job
  <2>3. \/ rx' = rx /\ pc'[t] # "run" /\ \A u \in Task \ {t} : pc'[u] = pc[u]
        \/ pc'[t] = "run"
    BY <1>2, <2>2 DEF Claim, GoTo
  <2> QED
    BY <2>1, <2>2, <2>3 DEF JobInv, HaltedByHost, Unhalted, Paired, OngoingHasJob, Up,
       Readers, Job
<1>3. ASSUME RunReception(t) PROVE JobInv'
  <2> DEFINE y == Run(ep["out"], <<seen[t][2]>>)
  <2>1. /\ SameFlags(ep["out"], y)
        /\ y.busy <=> ep["out"].busy \/ Accepts(ep["out"])
    BY <1>1 DEF Run, SameFlags, Accepts, Endpoint
  <2>2. ep' = [ep EXCEPT !["out"] = y]
    BY <1>3 DEF RunReception
  <2> HIDE DEF y
  <2>3. ep'["out"] = y /\ ep'["in"] = ep["in"] /\ ep'["comm"] = ep["comm"]
    BY <1>1, <2>2 DEF EPs
  <2>4. HaltedByHost' /\ Paired'
    BY <2>1, <2>3 DEF JobInv, HaltedByHost, Unhalted, Paired, SameFlags, EPs
  <2>5. Up' /\ ~ep'["out"].busy => "halt" \in upset'
    BY <2>1, <2>3 DEF JobInv, HaltedByHost, Unhalted, Paired, Up, Accepts, SameFlags, EPs
  <2> QED BY <1>3, <2>3, <2>4, <2>5 DEF RunReception, JobInv, OngoingHasJob, Up
<1>4. ASSUME ReaderStep(t), ~Claim(t), ~RunReception(t)
      PROVE  /\ UNCHANGED ep /\ rx'.ongoing = rx.ongoing
             /\ pc[t] # "run" /\ \A u \in Task \ {t} : pc'[u] = pc[u]
  <2>1. rx \in RxState /\ pc \in [Task -> Labels]
    BY DEF TypeOK, DriverOK, TasksOK
  <2>2. Get(t) \/ Look(t) \/ Compare(t) \/ Empty(t) \/ Read(t) \/ Advance(t)
    BY <1>4 DEF ReaderStep
  <2>3. UNCHANGED ep /\ (rx' = rx \/ \E p : rx' = [rx EXCEPT !.pos = p])
    BY <2>2 DEF Get, Look, Compare, Empty, Read, Advance
  <2>4. pc[t] # "run" /\ \E l : pc' = [pc EXCEPT ![t] = l]
    BY <2>2 DEF Get, Look, Compare, Empty, Read, Advance, Begin, Abandon, At, GoTo
  <2> QED BY <2>1, <2>3, <2>4 DEF RxState
<1>5. ASSUME ~Claim(t), ~RunReception(t) PROVE JobInv'
  <2>1. /\ UNCHANGED ep /\ rx'.ongoing = rx.ongoing
        /\ pc[t] # "run" /\ \A u \in Task \ {t} : pc'[u] = pc[u]
    BY <1>4, <1>5
  <2>2. (\E u \in Readers : pc[u] = "run") => (\E u \in Readers : pc[u] = "run")'
    BY <2>1 DEF Readers, Job
  <2> QED BY <2>1, <2>2 DEF JobInv, HaltedByHost, Unhalted, Paired, OngoingHasJob, Up
<1> QED BY <1>2, <1>3, <1>5

LEMMA JobTask ==
  ASSUME TypeOK, JobInv, NEW t \in Task, TaskStep(t)
  PROVE  JobInv'
<1>1. UNCHANGED <<scene, bank, failed>> /\ pc \in [Task -> Labels]
  BY DEF TaskStep, TypeOK, TasksOK
<1>2. ASSUME WriterStep(t) PROVE JobInv'
  <2>1. UNCHANGED <<rx, msg, upset, ep>>
    BY <1>2 DEF WriterStep, Put, TestRoom, SwitchBuffer, TestRoomAgain, Full, Write
  <2>2. tx'.ongoing = tx.ongoing
    BY <1>2, EndpointTypes DEF WriterStep, Put, TestRoom, SwitchBuffer, TestRoomAgain, Full,
       Write, TxState
  <2>3. pc[t] # "run" /\ \E l : pc' = [pc EXCEPT ![t] = l]
    BY <1>2 DEF WriterStep, Put, TestRoom, SwitchBuffer, TestRoomAgain, Full, Write,
       Begin, Abandon, At, GoTo
  <2>4. (\E u \in Readers : pc[u] = "run") => (\E u \in Readers : pc[u] = "run")'
    BY <1>1, <2>3 DEF Readers, Job
  <2> QED BY <2>1, <2>2, <2>4 DEF JobInv, HaltedByHost, Unhalted, Paired, OngoingHasJob, Up
<1>3. ASSUME ReaderStep(t) PROVE JobInv'
  <2>1. UNCHANGED <<tx, msg, upset>>
    BY <1>3 DEF ReaderStep, Get, Look, Compare, Empty, Read, Advance, Claim, RunReception
  <2> QED BY <1>1, <1>3, <2>1, JobReader
<1>4. ASSUME SignalStep(t) PROVE JobInv'
  <2>1. UNCHANGED <<tx, rx>>
    BY <1>4 DEF SignalStep, Signal, NotifyHost, RunMessage, AssignOngoing
  <2>2. pc[t] # "run" /\ \E l : pc' = [pc EXCEPT ![t] = l]
    BY <1>4 DEF SignalStep, Signal, NotifyHost, RunMessage, AssignOngoing, Begin, At, GoTo
  <2>3. (\E u \in Readers : pc[u] = "run") => (\E u \in Readers : pc[u] = "run")'
    BY <1>1, <2>2 DEF Readers, Job
  <2>4. ASSUME Signal(t) \/ NotifyHost(t) PROVE JobInv'
    <3>1. UNCHANGED <<ep, upset>> /\ msg'.ongoing = msg.ongoing
      BY <2>4, EndpointTypes DEF Signal, NotifyHost, MsgState
    <3> QED BY <2>1, <2>3, <3>1
        DEF JobInv, HaltedByHost, Unhalted, Paired, OngoingHasJob, Up
  <2>5. ASSUME RunMessage(t) PROVE JobInv'
    <3> DEFINE y == Run(ep["comm"], <<msg.value>>)
    <3>1. SameFlags(ep["comm"], y) /\ (ep["comm"].busy => y.busy)
      BY EndpointTypes DEF Run, SameFlags, Accepts, Endpoint
    <3>2. ep' = [ep EXCEPT !["comm"] = y] /\ UNCHANGED <<msg, upset>>
      BY <2>5 DEF RunMessage
    <3> HIDE DEF y
    <3>3. ep'["comm"] = y /\ ep'["in"] = ep["in"] /\ ep'["out"] = ep["out"]
      BY <3>2, EndpointTypes DEF EPs
    <3> QED
      BY <2>1, <2>3, <3>1, <3>2, <3>3 DEF JobInv, HaltedByHost, Unhalted, Paired,
         OngoingHasJob, Up, SameFlags, EPs
  <2>6. ASSUME AssignOngoing(t) PROVE JobInv'
    <3>1. /\ UNCHANGED ep /\ msg'.ongoing = (seen[t][2] = 1) /\ upset \subseteq upset'
          /\ seen[t][2] = 1 /\ ~ep["comm"].busy => "overtaken" \in upset'
      BY <2>6, EndpointTypes DEF AssignOngoing, MsgState
    <3> QED BY <2>1, <2>3, <3>1, Zenon
        DEF JobInv, HaltedByHost, Unhalted, Paired, OngoingHasJob, Up
  <2> QED BY <1>4, <2>4, <2>5, <2>6 DEF SignalStep
<1> QED BY <1>2, <1>3, <1>4 DEF TaskStep

LEMMA JobAlways == Spec => []JobInv
<1>1. TypeOK /\ JobInv /\ [Next]_vars => JobInv'
  <2> SUFFICES ASSUME TypeOK, JobInv, [Next]_vars PROVE JobInv'
    OBVIOUS
  <2>1. CASE Next
    BY <2>1, JobInterrupts, JobRequests, JobTraffic, JobTask DEF Next, Goes
  <2>2. CASE UNCHANGED vars
    BY <2>2 DEF JobInv, HaltedByHost, Unhalted, Paired, OngoingHasJob, Up, Readers, Job,
       vars, taskVars, epVars, histVars
  <2> QED BY <2>1, <2>2
<1> QED BY <1>1, JobInit, TypeCorrect, PTL DEF Spec

\* No direction of the port is left marked as busy without a job that will free
\* it, except after a halt of an endpoint or a completion that overtook the
\* assignment of the flag: udi_cdc_tx_trans_ongoing, udi_cdc_rx_trans_ongoing
\* and udi_cdc_serial_state_msg_ongoing are set before, with or after the call
\* of udd_ep_run, while interrupts and new configurations come between.
THEOREM FlagsHaveJobs == Spec => []OngoingHasJob
<1>1. JobInv => OngoingHasJob
  BY DEF JobInv
<1> QED BY <1>1, JobAlways, PTL

-----------------------------------------------------------------------------
(* The room in the buffers for the host.  A single task that calls putc finds *)
(* room and writes later; no interrupt between takes the room away, because   *)
(* the buffer that is selected next is empty or the selected one stays.       *)

NoRivals == \A t, u \in Task : t # u /\ Job(t) = "putc" => u \notin Writers

\* A direction whose buffers are not overrun.  The buffer that is not selected
\* is empty unless it is being sent or waits for that.
Roomy(x) ==
  /\ \A b \in 0..1 : Len(x.buf[b]) <= Size
  /\ x.both \/ x.ongoing \/ x.buf[Other(x.sel)] = <<>>

SelectedRoom(x) == Len(x.buf[x.sel]) < Size

RoomInv ==
  NoRivals =>
    /\ Roomy(tx)
    /\ \A t \in Task : Job(t) = "putc" /\ pc[t] = "write" => SelectedRoom(tx)

LEMMA RoomInit == Init => RoomInv
<1> SUFFICES ASSUME Init PROVE RoomInv
  OBVIOUS
<1>1. tx.buf = [b \in 0..1 |-> <<>>] /\ tx.sel = 0 /\ \A t \in Task : pc[t] = "idle"
  BY DEF Init
<1> QED BY <1>1, CdcAssumption DEF RoomInv, Roomy, Other

\* udi_cdc_tx_send overruns nothing, and there is still room if there was.
LEMMA RoomTxSend ==
  ASSUME NEW t \in TxState, Roomy(t), NEW x \in Endpoint("in"), NEW now \in Nat,
         NEW r, r = TxSend(t, x, now)
  PROVE  Roomy(r[1]) /\ (SelectedRoom(t) => SelectedRoom(r[1]))
<1>1. r[1].buf = t.buf /\ r[1].both = t.both
  BY TxSendFacts
<1>2. CASE r[1] = t
  BY <1>2
<1>3. CASE ~t.ongoing /\ r[1].ongoing /\ r[1].sel = IF t.both THEN t.sel ELSE Other(t.sel)
  <2>1. ~t.both => Len(t.buf[Other(t.sel)]) < Size
    BY <1>3, CdcAssumption DEF Roomy
  <2> QED BY <1>1, <1>3, <2>1 DEF Roomy, SelectedRoom
<1> QED BY <1>2, <1>3, TxSendFacts

\* A step that leaves the tasks where they are and keeps what room there is.
LEMMA RoomKept ==
  ASSUME RoomInv, NoRivals => Roomy(tx)' /\ (SelectedRoom(tx) => SelectedRoom(tx)'),
         UNCHANGED <<scene, pc>>
  PROVE  RoomInv'
BY DEF RoomInv, NoRivals, Job, Writers

LEMMA RoomSof ==
  ASSUME TypeOK, RoomInv, Sof
  PROVE  RoomInv'
<1>1. frame' \in Nat
  BY CdcAssumption DEF TypeOK, DriverOK, Sof
<1>2. CASE configured
  <2>1. tx' = TxSend(tx, ep["in"], frame')[1]
    BY <1>2 DEF Sof
  <2>2. NoRivals => Roomy(tx') /\ (SelectedRoom(tx) => SelectedRoom(tx'))
    BY <1>1, <2>1, EndpointTypes, RoomTxSend DEF RoomInv
  <2> QED BY <2>2, RoomKept DEF Sof, taskVars, Roomy, SelectedRoom
<1>3. CASE ~configured
  <2>1. tx' = tx
    BY <1>3 DEF Sof
  <2> QED BY <2>1, RoomKept DEF Sof, taskVars, RoomInv, Roomy, SelectedRoom
<1> QED BY <1>2, <1>3

LEMMA RoomDataSent ==
  ASSUME TypeOK, RoomInv, DataSent
  PROVE  RoomInv'
<1> DEFINE done == [tx EXCEPT !.buf[Other(tx.sel)] = <<>>, !.both = FALSE, !.ongoing = FALSE]
<1>1. /\ done \in TxState /\ ~done.ongoing /\ ~done.both /\ done.sel = tx.sel
      /\ done.buf = [tx.buf EXCEPT ![Other(tx.sel)] = <<>>]
  BY EndpointTypes, DataSentFacts, Zenon
<1>2. tx' = TxSend(done, Finished(ep["in"]), frame)[1] /\ UNCHANGED <<scene, pc>>
  BY DEF DataSent, taskVars
<1> HIDE DEF done
<1>3. tx.sel \in 0..1 /\ tx.buf \in [0..1 -> Seq(Nat)]
  BY EndpointTypes DEF TxState
<1>4. Roomy(tx) => Roomy(done) /\ (SelectedRoom(tx) => SelectedRoom(done))
  BY <1>1, <1>3, CdcAssumption DEF Roomy, SelectedRoom, Other
<1>5. Finished(ep["in"]) \in Endpoint("in")
  BY EndpointTypes, FinishedFacts DEF EPs
<1>6. Roomy(tx) => Roomy(tx') /\ (SelectedRoom(tx) => SelectedRoom(tx'))
  BY <1>1, <1>2, <1>4, <1>5, EndpointTypes, RoomTxSend
<1> QED BY <1>2, <1>6, RoomKept DEF RoomInv, Roomy, SelectedRoom

\* Buffers that have been emptied have room.
LEMMA RoomEmptied ==
  ASSUME TypeOK, RoomInv, tx' \in TxState, \A b \in 0..1 : tx'.buf[b] = <<>>,
         UNCHANGED <<scene, pc>>
  PROVE  RoomInv'
<1>1. tx'.sel \in 0..1 /\ Other(tx'.sel) \in 0..1
  BY DEF TxState, Other
<1>2. Roomy(tx') /\ SelectedRoom(tx')
  BY <1>1, CdcAssumption DEF Roomy, SelectedRoom
<1> QED BY <1>2, RoomKept DEF Roomy, SelectedRoom

LEMMA RoomInterruptsAndHost ==
  ASSUME TypeOK, RoomInv, Interrupts \/ Requests \/ Traffic
  PROVE  RoomInv'
<1>1. ASSUME UNCHANGED <<tx, scene, pc>> PROVE RoomInv'
  BY <1>1 DEF RoomInv, NoRivals, Roomy, SelectedRoom, Job, Writers
<1>2. ASSUME DataReceived \/ StateSent \/ BankInterrupt PROVE RoomInv'
  BY <1>1, <1>2, Zenon DEF DataReceived, StateSent, BankInterrupt, taskVars
<1>3. ASSUME BusReset \/ Detach \/ Attach \/ HaltEndpoint \/ ReleaseEndpoint
               \/ \E exists \in BOOLEAN : SetCommInterface(exists)
      PROVE  RoomInv'
  BY <1>1, <1>3 DEF BusReset, Detach, Attach, SetCommInterface, HaltEndpoint, ReleaseEndpoint,
     Unconfigure, taskVars
<1>4. ASSUME Traffic PROVE RoomInv'
  BY <1>1, <1>4, Zenon DEF Traffic, HostGetsData, HostGetsState, HostSendsData, taskVars
<1>5. ASSUME SetConfiguration PROVE RoomInv'
  <2> DEFINE in == Allocated(Freed(ep["in"]))  out == Allocated(Freed(ep["out"]))
             comm == Reallocated(Allocated(CommFreed[2]))
  <2>1. in \in Endpoint("in") /\ out \in Endpoint("out") /\ comm \in Endpoint("comm")
    <3>1. in \in Endpoint("in") /\ out \in Endpoint("out")
      BY EndpointTypes, FreedFacts, AllocatedFacts, Zenon DEF EPs
    <3>2. comm \in Endpoint("comm")
      BY CommAnewFacts
    <3> QED BY <3>1, <3>2
  <2>2. DataEnable(in, out, comm) /\ UNCHANGED <<scene, pc>>
    BY <1>5 DEF SetConfiguration, taskVars
  <2> HIDE DEF in, out, comm
  <2> QED BY <2>1, <2>2, DataEnableFacts, RoomEmptied
<1>6. ASSUME NEW exists \in BOOLEAN, SetDataInterface(exists) PROVE RoomInv'
  <2> DEFINE i == Allocated(Freed(ep["in"]))  o == Allocated(Freed(ep["out"]))
             comm == Reallocated(ep["comm"])
  <2>1. i \in Endpoint("in") /\ o \in Endpoint("out") /\ comm \in Endpoint("comm")
    BY EndpointTypes, FreedFacts, AllocatedFacts, ReallocatedFacts, Zenon DEF EPs
  <2>2. DataEnable(i, o, comm) \/ UNCHANGED tx
    BY <1>6 DEF SetDataInterface
  <2>3. UNCHANGED <<scene, pc>>
    BY <1>6 DEF SetDataInterface, taskVars
  <2> HIDE DEF i, o, comm
  <2>4. CASE DataEnable(i, o, comm)
    BY <2>1, <2>3, <2>4, DataEnableFacts, RoomEmptied
  <2> QED BY <1>1, <2>2, <2>3, <2>4
<1> QED BY <1>2, <1>3, <1>4, <1>5, <1>6, RoomSof, RoomDataSent DEF Interrupts, Requests

\* A step of one task: only putc relies on room that it has seen before.
LEMMA RoomTask ==
  ASSUME TypeOK, RoomInv, NEW t \in Task, TaskStep(t), ~Overrun
  PROVE  RoomInv'
<1>1. /\ TasksOK /\ pc \in [Task -> Labels] /\ UNCHANGED scene
      /\ tx.sel \in 0..1 /\ Other(tx.sel) \in 0..1 /\ tx.buf \in [0..1 -> Seq(Nat)]
      /\ tx.both \in BOOLEAN /\ tx.ongoing \in BOOLEAN
  BY EndpointTypes DEF TypeOK, TasksOK, TaskStep, TxState, Other
<1> SUFFICES ASSUME NoRivals
             PROVE  /\ Roomy(tx')
                    /\ \A u \in Task : Job(u) = "putc" /\ pc'[u] = "write" => SelectedRoom(tx')
  BY <1>1 DEF RoomInv, NoRivals, Roomy, SelectedRoom, Job, Writers
<1>2. /\ Roomy(tx)
      /\ \A u \in Task : Job(u) = "putc" /\ pc[u] = "write" => SelectedRoom(tx)
  BY DEF RoomInv
<1>3. ASSUME UNCHANGED tx, NEW l, pc' = [pc EXCEPT ![t] = l], l = "write" => SelectedRoom(tx)
      PROVE  /\ Roomy(tx')
             /\ \A u \in Task : Job(u) = "putc" /\ pc'[u] = "write" => SelectedRoom(tx')
  BY <1>1, <1>2, <1>3
<1>4. Room => SelectedRoom(tx)
  BY <1>1, <1>2, CdcAssumption DEF Room, SelectedRoom, Roomy
<1>5. ASSUME t \in Writers, NEW l, pc' = [pc EXCEPT ![t] = l], l # "write"
      PROVE  \A u \in Task : ~(Job(u) = "putc" /\ pc'[u] = "write")
  BY <1>1, <1>5 DEF NoRivals
<1>6. CASE ReaderStep(t) \/ SignalStep(t)
  <2>1. UNCHANGED tx /\ \E l : l # "write" /\ pc' = [pc EXCEPT ![t] = l]
    BY <1>6 DEF ReaderStep, SignalStep, Get, Look, Compare, Empty, Read, Advance, Claim,
       RunReception, Signal, NotifyHost, RunMessage, AssignOngoing, Begin, Abandon, GoTo
  <2> QED BY <1>3, <2>1, Zenon
<1>7. CASE Put(t) \/ TestRoom(t) \/ TestRoomAgain(t) \/ Full(t)
  <2>1. UNCHANGED tx /\ \E l : (l = "write" => Room) /\ pc' = [pc EXCEPT ![t] = l]
    BY <1>7 DEF Put, TestRoom, TestRoomAgain, Full, Begin, Abandon, GoTo
  <2> QED BY <1>3, <1>4, <2>1, Zenon
<1>8. CASE SwitchBuffer(t)
  <2>1. /\ pc[t] = "switch" /\ pc' = [pc EXCEPT ![t] = "again"]
        /\ tx' = IF tx.ongoing THEN tx ELSE [tx EXCEPT !.both = TRUE, !.sel = Other(tx.sel)]
    BY <1>8 DEF SwitchBuffer, At, GoTo
  <2>2. t \in Writers
    BY <1>1, <2>1, LabelFacts DEF WriterLabels
  <2>3. Roomy(tx')
    BY <1>2, <2>1, EndpointTypes DEF Roomy, TxState
  <2> QED BY <1>5, <2>1, <2>2, <2>3, Zenon
<1>9. CASE Write(t)
  <2> DEFINE n == IF Job(t) = "putc" THEN 1 ELSE Least(Size - Len(tx.buf[tx.sel]), todo[t])
             p == [i \in 1..n |-> made + i]
             f == [tx.buf EXCEPT ![tx.sel] = tx.buf[tx.sel] \o p]
  <2>1. /\ pc[t] = "write" /\ tx' = [tx EXCEPT !.buf = f]
        /\ \E l : l # "write" /\ pc' = [pc EXCEPT ![t] = l]
    <3>1. /\ pc[t] = "write" /\ GoTo(t, IF todo[t] = n THEN "idle" ELSE "test")
          /\ tx' = [tx EXCEPT !.buf[tx.sel] = tx.buf[tx.sel] \o p]
      BY <1>9 DEF Write, At
    <3>2. tx' = [tx EXCEPT !.buf = f]
      BY <3>1
    <3> HIDE DEF n
    <3>3. \E l : l # "write" /\ pc' = [pc EXCEPT ![t] = l]
      <4>1. pc' = [pc EXCEPT ![t] = "idle"] \/ pc' = [pc EXCEPT ![t] = "test"]
        BY <3>1, Zenon DEF GoTo
      <4> QED BY <4>1
    <3> QED BY <3>1, <3>2, <3>3, Zenon
  <2>2. t \in Writers /\ todo[t] \in Nat /\ (Job(t) = "putc" => todo[t] = 1)
    BY <1>1, <2>1, LabelFacts DEF WriterLabels
  <2>3. Job(t) = "putc" => Len(tx.buf[tx.sel]) < Size
    BY <1>2, <2>1 DEF SelectedRoom
  <2>4. n \in Nat /\ Len(tx.buf[tx.sel]) + n <= Size
    BY <1>1, <1>2, <2>2, <2>3, CdcAssumption DEF Least, Roomy
  <2>5. made \in Nat
    BY DEF TypeOK, DriverOK
  <2> HIDE DEF n
  <2>6. p \in Seq(Nat) /\ Len(p) = n
    BY <2>4, <2>5
  <2> HIDE DEF p
  <2>7. Len(f[tx.sel]) <= Size /\ \A b \in 0..1 \ {tx.sel} : f[b] = tx.buf[b]
    <3>1. tx.buf[tx.sel] \in Seq(Nat)
      BY <1>1
    <3>2. Len(tx.buf[tx.sel] \o p) = Len(tx.buf[tx.sel]) + n
      BY <2>6, <3>1, ConcatProperties, Zenon
    <3>3. f[tx.sel] = tx.buf[tx.sel] \o p
      BY <1>1, Zenon
    <3> QED BY <1>1, <2>4, <3>2, <3>3
  <2> HIDE DEF f
  <2>8. tx'.buf = f /\ tx'.sel = tx.sel /\ tx'.both = tx.both /\ tx'.ongoing = tx.ongoing
    BY <2>1, EndpointTypes DEF TxState
  <2>9. Roomy(tx')
    BY <1>1, <1>2, <2>7, <2>8 DEF Roomy, Other
  <2> QED BY <1>5, <2>1, <2>2, <2>9, Zenon
<1> QED BY <1>6, <1>7, <1>8, <1>9 DEF TaskStep, WriterStep

LEMMA RoomAlways == Spec => []RoomInv
<1>1. TypeOK /\ RoomInv /\ [Next]_vars => RoomInv'
  <2> SUFFICES ASSUME TypeOK, RoomInv, [Next]_vars PROVE RoomInv'
    OBVIOUS
  <2>1. CASE Next
    BY <2>1, RoomInterruptsAndHost, RoomTask DEF Next, Goes
  <2>2. CASE UNCHANGED vars
    BY <2>2 DEF RoomInv, NoRivals, Roomy, SelectedRoom, Job, Writers, vars, taskVars
  <2> QED BY <2>1, <2>2
<1> QED BY <1>1, RoomInit, TypeCorrect, PTL DEF Spec

\* A task writes behind a buffer for the host only when another task calls putc:
\* udi_cdc_putc looks for room in one section and writes in another, and every
\* interrupt may come between, but none of them takes the room away.
THEOREM NoOverrun == Spec => []OverrunOnlyByRivals
<1>1. TypeOK /\ RoomInv => OverrunOnlyByRivals
  <2> SUFFICES ASSUME TypeOK, RoomInv, Overrun, NoRivals PROVE FALSE
    BY DEF OverrunOnlyByRivals, NoRivals
  <2>1. PICK b \in 0..1 : Len(tx.buf[b]) > Size
    BY DEF Overrun
  <2>2. Len(tx.buf[b]) \in Nat
    BY <2>1, EndpointTypes DEF TxState
  <2> QED BY <2>1, <2>2, CdcAssumption DEF RoomInv, Roomy
<1> QED BY <1>1, RoomAlways, TypeCorrect, PTL

-----------------------------------------------------------------------------
(* The serial state.  What the host knows last, counting what is on its way   *)
(* to it, is the value that was last recorded as sent, unless the message with *)
(* this value has been lost and no other has followed; and the state differs   *)
(* from that value only while a message will be followed by another look.      *)

Calm == "halt" \notin upset /\ "overtaken" \notin upset

OneSignaller == \A t, u \in Signallers : t = u

\* The serial state that the host has when everything on its way has come.
Latest ==
  IF ep["comm"].busy THEN ep["comm"].job[1]
  ELSE IF bank["comm"] # <<>> THEN bank["comm"][Len(bank["comm"])] ELSE host.state

\* A task has recorded a value but has no message under way for it.
Unsent(t) == pc[t] = "raise" \/ (pc[t] = "assign" /\ seen[t][2] # 1)

\* The message that carries this state has not been lost.
Kept == ep["comm"].busy \/ "lost" \notin upset

LatestIsValue ==
  ep["comm"].on /\ Kept /\ (\A t \in Task : pc[t] # "raise") =>
    Latest \ Irregular = msg.value \ Irregular

\* A message under way is marked as such, or is about to be.
BusyIsMarked ==
  ep["comm"].busy => msg.ongoing \/ \E t \in Task : pc[t] = "assign" /\ seen[t][2] = 1

UnsentIsAlone == \A t \in Task : Unsent(t) => ~ep["comm"].busy /\ ~msg.ongoing

StateIsValue ==
  /\ \A t \in Task : pc[t] \in {"raise", "assign"} => msg.state = msg.value
  /\ ~msg.ongoing /\ (\A t \in Task : pc[t] # "notify") => msg.state = msg.value

StateInv ==
  Calm /\ OneSignaller => LatestIsValue /\ BusyIsMarked /\ UnsentIsAlone /\ StateIsValue

LEMMA StateInit == Init => StateInv
<1> SUFFICES ASSUME Init PROVE StateInv
  OBVIOUS
<1>1. /\ \A t \in Task : pc[t] = "idle"
      /\ ep["comm"] = Off /\ bank["comm"] = <<>> /\ host.state = {}
      /\ msg = [ongoing |-> FALSE, state |-> {}, value |-> {}]
  BY DEF Init, EPs
<1> QED BY <1>1 DEF StateInv, LatestIsValue, BusyIsMarked, UnsentIsAlone, StateIsValue, Unsent,
        Latest, Off

\* The steps that leave the serial state, its message and its signaller alone,
\* or lose a message.
LEMMA StateOrLost ==
  ASSUME StateInv,
         UNCHANGED <<scene, msg, ep["comm"].on, ep["comm"].busy>>,
         Calm' => Calm, Kept' => Kept /\ Latest' = Latest,
         \A t \in Task : \A l \in SignalLabels : pc'[t] = l <=> pc[t] = l,
         \A t \in Task : pc[t] = "assign" => seen'[t] = seen[t]
  PROVE  StateInv'
<1>1. \A t \in Task : (pc'[t] = "raise" <=> pc[t] = "raise")
      /\ (pc'[t] = "assign" <=> pc[t] = "assign") /\ (pc'[t] = "notify" <=> pc[t] = "notify")
  BY DEF SignalLabels
<1>3. \A t \in Task : Unsent(t)' <=> Unsent(t)
  BY <1>1 DEF Unsent
<1>4. OneSignaller' <=> OneSignaller
  BY DEF OneSignaller, Signallers, Job
<1> SUFFICES ASSUME Calm', OneSignaller'
             PROVE  (LatestIsValue /\ BusyIsMarked /\ UnsentIsAlone /\ StateIsValue)'
  BY DEF StateInv
<1>5. LatestIsValue /\ BusyIsMarked /\ UnsentIsAlone /\ StateIsValue
  BY <1>4 DEF StateInv
<1>6. LatestIsValue'
  <2> HIDE DEF Latest
  <2> QED BY <1>1, <1>5 DEF LatestIsValue
<1>7. BusyIsMarked'
  BY <1>1, <1>5 DEF BusyIsMarked
<1>8. UnsentIsAlone'
  BY <1>3, <1>5 DEF UnsentIsAlone
<1>9. StateIsValue'
  BY <1>1, <1>5 DEF StateIsValue
<1> QED BY <1>6, <1>7, <1>8, <1>9

LEMMA StateUntouched ==
  ASSUME StateInv,
         UNCHANGED <<scene, msg, ep["comm"], bank["comm"], host.state>>,
         Calm' => Calm, "lost" \in upset => "lost" \in upset',
         \A t \in Task : \A l \in SignalLabels : pc'[t] = l <=> pc[t] = l,
         \A t \in Task : pc[t] = "assign" => seen'[t] = seen[t]
  PROVE  StateInv'
<1>1. Latest' = Latest
  BY DEF Latest
<1>2. Kept' => Kept
  BY DEF Kept
<1> QED BY <1>1, <1>2, StateOrLost

\* The steps that start the comm interface anew, or end it.
LEMMA StateReset ==
  ASSUME StateInv, UNCHANGED <<scene, pc, seen>>, Calm' => Calm,
         ~ep'["comm"].busy, bank'["comm"] = <<>>, host'.state = {},
         \/ msg' = msg
         \/ msg'.state = msg'.value /\ ~msg'.ongoing
         \/ msg'.state = msg'.value /\ msg'.ongoing = msg.ongoing,
         ep'["comm"].on => msg'.value = {}
  PROVE  StateInv'
<1>1. OneSignaller' <=> OneSignaller
  BY DEF OneSignaller, Signallers, Job
<1>2. \A t \in Task : Unsent(t)' <=> Unsent(t)
  BY DEF Unsent
<1> SUFFICES ASSUME Calm', OneSignaller'
             PROVE  (LatestIsValue /\ BusyIsMarked /\ UnsentIsAlone /\ StateIsValue)'
  BY DEF StateInv
<1>3. UnsentIsAlone /\ StateIsValue
  BY <1>1 DEF StateInv
<1>4. LatestIsValue'
  BY DEF LatestIsValue, Latest
<1>5. UnsentIsAlone'
  BY <1>2, <1>3 DEF UnsentIsAlone
<1>6. StateIsValue'
  BY <1>3 DEF StateIsValue
<1> QED BY <1>4, <1>5, <1>6 DEF BusyIsMarked

LEMMA StateRequests ==
  ASSUME TypeOK, JobInv, StateInv, Requests
  PROVE  StateInv'
<1>1. /\ CommFreed[1] \in MsgState /\ CommFreed[2] \in Endpoint("comm")
      /\ ~CommFreed[2].on /\ ~CommFreed[2].busy
      /\ \/ ~CommFreed[1].ongoing /\ CommFreed[1].state = CommFreed[1].value
         \/ CommFreed[1] = msg
  BY CommFreedFacts
<1>2. /\ Fresh(CommFreed[1]).ongoing = CommFreed[1].ongoing
      /\ Fresh(CommFreed[1]).state = {} /\ Fresh(CommFreed[1]).value = {}
  BY <1>1, FreshFacts
<1>3. \A y \in {Allocated(CommFreed[2]), Reallocated(Allocated(CommFreed[2]))} : ~y.busy
  BY CommAnewFacts
<1>4. "in" \in EPs /\ "out" \in EPs /\ "comm" \in EPs /\ host \in [last : Seq(Nat), state : SerialState]
  BY DEF EPs, TypeOK, DriverOK
<1>5. CASE BusReset \/ Attach
  <2>1. Unconfigure
    BY <1>5 DEF BusReset, Attach
  <2>2. /\ msg' = CommFreed[1] /\ ep'["comm"] = CommFreed[2]
        /\ bank'["comm"] = <<>> /\ host'.state = {} /\ UNCHANGED <<scene, pc, seen, upset>>
    BY <1>4, <2>1 DEF Unconfigure, Drained, taskVars
  <2> QED BY <1>1, <2>2, StateReset DEF Calm
<1>6. CASE Detach
  <2>1. UNCHANGED <<scene, msg, ep, bank, host, upset, pc, seen>>
    BY <1>6 DEF Detach, taskVars, epVars
  <2> QED BY <2>1, StateUntouched DEF Calm
<1>7. CASE SetConfiguration
  <2>1. /\ msg' = Fresh(CommFreed[1]) /\ upset' = upset \ {"comm", "setting", "lost"}
        /\ bank'["comm"] = <<>> /\ host'.state = {} /\ UNCHANGED <<scene, pc, seen>>
        /\ ep'["comm"] = Reallocated(Allocated(CommFreed[2]))
    BY <1>4, <1>7 DEF SetConfiguration, Drained, taskVars, DataEnable
  <2> QED BY <1>1, <1>2, <1>3, <2>1, StateReset, Zenon DEF Calm
<1>8. ASSUME NEW exists \in BOOLEAN, SetCommInterface(exists) PROVE StateInv'
  <2>1. /\ upset' = upset \cup {"comm"} /\ UNCHANGED <<scene, pc, seen>>
        /\ bank'["comm"] = <<>> /\ host'.state = {}
        /\ \/ msg' = Fresh(CommFreed[1]) /\ ep'["comm"] = Allocated(CommFreed[2])
           \/ msg' = CommFreed[1] /\ ep'["comm"] = CommFreed[2]
    BY <1>4, <1>8, EndpointTypes DEF SetCommInterface, Drained, taskVars
  <2> QED BY <1>1, <1>2, <1>3, <2>1, StateReset DEF Calm
<1>9. ASSUME NEW exists \in BOOLEAN, SetDataInterface(exists) PROVE StateInv'
  <2>1. /\ upset \subseteq upset' /\ upset' \subseteq upset \cup {"setting", "lost"}
        /\ UNCHANGED <<scene, msg, host, pc, seen>>
    BY <1>9 DEF SetDataInterface, taskVars
  <2>2. CASE ~exists
    <3>1. bank'["comm"] = bank["comm"] /\ ep'["comm"] = ep["comm"]
      BY <1>4, <1>9, <2>2, EndpointTypes DEF SetDataInterface, Drained
    <3> QED BY <2>1, <3>1, StateUntouched DEF Calm
  <2>3. CASE exists
    <3> DEFINE y == Reallocated(ep["comm"])
    <3>1. /\ ep'["comm"] = y /\ bank'["comm"] = <<>>
          /\ bank["comm"] # <<>> => "lost" \in upset'
      BY <1>4, <1>9, <2>3 DEF SetDataInterface, Drained, DataEnable
    <3>2. y.on = ep["comm"].on /\ y.busy = ep["comm"].busy /\ y.job = ep["comm"].job
      BY <1>4, EndpointTypes, ReallocatedFacts
    <3> HIDE DEF y
    <3>3. Kept' => Kept /\ Latest' = Latest
      BY <2>1, <3>1, <3>2 DEF Kept, Latest
    <3> QED BY <2>1, <3>1, <3>2, <3>3, StateOrLost DEF Calm
  <2> QED BY <2>2, <2>3
<1>10. CASE HaltEndpoint
  BY <1>10 DEF HaltEndpoint, Calm, StateInv
<1>11. CASE ReleaseEndpoint
  <2>1. UNCHANGED upset /\ \E e \in EPs : ep[e].stalled \/ ep[e].wanted
    BY <1>11 DEF ReleaseEndpoint, ClearHalt, histVars
  <2> QED BY <2>1 DEF JobInv, HaltedByHost, Unhalted, Calm, StateInv
<1> QED BY <1>5, <1>6, <1>7, <1>8, <1>9, <1>10, <1>11 DEF Requests

\* A message has gone out: what changed in the meantime is sent, or there is
\* nothing but the errors of the line that has.
LEMMA StateStateSent ==
  ASSUME TypeOK, JobInv, StateInv, StateSent
  PROVE  StateInv'
<1> DEFINE x == Finished(ep["comm"])
           r == MsgSent(msg, x)
           sent1 == ep["comm"].job[1]
<1>1. x \in Endpoint("comm") /\ SameFlags(ep["comm"], x) /\ ~x.busy /\ "comm" \in EPs
  BY EndpointTypes, FinishedFacts DEF EPs
<1>2. /\ msg' = r[1] /\ ep' = [ep EXCEPT !["comm"] = r[2]] /\ ep["comm"].busy
      /\ bank' = [bank EXCEPT !["comm"] = Append(bank["comm"], sent1)]
      /\ upset' = upset \ {"lost"} /\ UNCHANGED <<scene, pc, seen, host>>
  BY DEF StateSent, taskVars
<1>3. bank["comm"] \in Seq(SerialState) /\ bank = [e \in EPs |-> bank[e]] /\ sent1 \in SerialState
  <2>1. bank["comm"] \in Seq(PacketsOf("comm")) /\ bank = [e \in EPs |-> bank[e]]
    BY <1>1 DEF TypeOK, EndpointsOK
  <2>2. ep["comm"].job \in JobsOf("comm")
    BY <1>2, EndpointTypes DEF Endpoint
  <2> QED BY <2>1, <2>2 DEF PacketsOf, JobsOf
<1> HIDE DEF x
<1>4. /\ SameFlags(x, r[2]) /\ (r[1].ongoing <=> r[2].busy) /\ r[1].state = r[1].value
      /\ r[2].busy => r[2].job = <<r[1].value>>
      /\ ~r[2].busy => r[1].value = msg.value \ Irregular \/ ~Accepts(x)
  BY <1>1, EndpointTypes, MsgSentFacts
<1> HIDE DEF r, sent1
<1>5. ep'["comm"] = r[2] /\ bank'["comm"] = Append(bank["comm"], sent1)
  BY <1>1, <1>2, <1>3, EndpointTypes
<1>6. bank'["comm"] # <<>> /\ bank'["comm"][Len(bank'["comm"])] = sent1
  BY <1>3, <1>5, AppendProperties
<1>7. OneSignaller' <=> OneSignaller
  BY <1>2 DEF OneSignaller, Signallers, Job
<1> SUFFICES ASSUME Calm', OneSignaller'
             PROVE  (LatestIsValue /\ BusyIsMarked /\ UnsentIsAlone /\ StateIsValue)'
  BY DEF StateInv
<1>8. Calm /\ LatestIsValue /\ UnsentIsAlone
  BY <1>2, <1>7 DEF StateInv, Calm
<1>9. \A t \in Task : ~Unsent(t)
  BY <1>2, <1>8 DEF UnsentIsAlone
<1>10. LatestIsValue'
  <2> SUFFICES ASSUME ep'["comm"].on PROVE Latest' \ Irregular = msg'.value \ Irregular
    BY DEF LatestIsValue
  <2>1. sent1 \ Irregular = msg.value \ Irregular
    <3>1. ep["comm"].on
      BY <1>1, <1>4, <1>5 DEF SameFlags
    <3> QED BY <1>2, <1>8, <1>9, <3>1 DEF LatestIsValue, Kept, Latest, Unsent, sent1
  <2>2. Accepts(x)
    <3>1. Unhalted("comm")
      BY <1>1, <1>8 DEF JobInv, HaltedByHost, Calm
    <3> QED BY <1>1, <1>4, <1>5, <3>1 DEF Accepts, SameFlags, Unhalted
  <2>3. CASE r[2].busy
    BY <1>2, <1>4, <1>5, <2>3 DEF Latest
  <2>4. CASE ~r[2].busy
    <3>1. Latest' = sent1
      BY <1>5, <1>6, <2>4 DEF Latest
    <3> QED BY <1>2, <1>4, <2>1, <2>2, <2>4, <3>1
  <2> QED BY <2>3, <2>4
<1>11. BusyIsMarked'
  BY <1>2, <1>4, <1>5 DEF BusyIsMarked
<1>12. UnsentIsAlone'
  BY <1>2, <1>9 DEF UnsentIsAlone, Unsent
<1>13. StateIsValue'
  BY <1>2, <1>4 DEF StateIsValue
<1> QED BY <1>10, <1>11, <1>12, <1>13

LEMMA StateInterrupts ==
  ASSUME TypeOK, JobInv, StateInv, Interrupts
  PROVE  StateInv'
<1>1. "in" \in EPs /\ "out" \in EPs /\ "comm" \in EPs /\ bank = [e \in EPs |-> bank[e]]
  BY DEF EPs, TypeOK, EndpointsOK
<1>2. CASE Sof \/ DataSent \/ DataReceived
  <2>1. /\ ep'["comm"] = ep["comm"] /\ bank'["comm"] = bank["comm"]
        /\ UNCHANGED <<scene, msg, host, upset, pc, seen>>
    <3>1. CASE Sof
      BY <1>1, <3>1, EndpointTypes DEF Sof, taskVars, histVars
    <3>2. CASE DataSent
      BY <1>1, <3>2, EndpointTypes DEF DataSent, taskVars, histVars
    <3>3. CASE DataReceived
      BY <1>1, <3>3, EndpointTypes DEF DataReceived, taskVars, histVars
    <3> QED BY <1>2, <3>1, <3>2, <3>3
  <2> QED BY <2>1, StateUntouched DEF Calm
<1>3. CASE BankInterrupt
  <2>1. UNCHANGED upset /\ \E e \in EPs : ep[e].watch
    BY <1>3 DEF BankInterrupt, BankEmpty, histVars
  <2> QED BY <2>1 DEF JobInv, HaltedByHost, Unhalted, Calm, StateInv
<1> QED BY <1>2, <1>3, StateStateSent DEF Interrupts

\* The host gets what the device holds longest, which leaves what it has last.
LEMMA StateTraffic ==
  ASSUME TypeOK, StateInv, Traffic
  PROVE  StateInv'
<1>1. "in" \in EPs /\ "out" \in EPs /\ "comm" \in EPs /\ bank = [e \in EPs |-> bank[e]]
      /\ bank["comm"] \in Seq(PacketsOf("comm")) /\ host \in [last : Seq(Nat), state : SerialState]
  BY DEF EPs, TypeOK, EndpointsOK, DriverOK
<1>2. CASE HostGetsData \/ \E n \in 0..Size : HostSendsData(n)
  <2>1. /\ bank'["comm"] = bank["comm"] /\ host'.state = host.state
        /\ UNCHANGED <<scene, msg, ep, upset, pc, seen>>
    BY <1>1, <1>2, Zenon DEF HostGetsData, HostSendsData, HostReads, HostWrites, taskVars
  <2> QED BY <2>1, StateUntouched DEF Calm
<1>3. CASE HostGetsState
  <2>1. /\ bank["comm"] # <<>> /\ bank'["comm"] = Tail(bank["comm"])
        /\ host'.state = Head(bank["comm"])
        /\ UNCHANGED <<scene, msg, ep, upset, pc, seen>>
    BY <1>1, <1>3 DEF HostGetsState, HostReads, taskVars
  <2>2. Latest' = Latest
    <3>1. CASE Tail(bank["comm"]) = <<>>
      <4>1. Len(bank["comm"]) = 1
        <5>1. Len(Tail(bank["comm"])) = Len(bank["comm"]) - 1 /\ Len(bank["comm"]) \in Nat
          BY <1>1, <2>1, HeadTailProperties, LenProperties
        <5>2. Len(Tail(bank["comm"])) = 0
          BY <3>1, EmptySeq, Zenon
        <5> QED BY <5>1, <5>2
      <4> QED BY <1>1, <2>1, <3>1, <4>1 DEF Latest
    <3>2. CASE Tail(bank["comm"]) # <<>>
      <4>1. bank'["comm"][Len(bank'["comm"])] = bank["comm"][Len(bank["comm"])]
        BY <1>1, <2>1, <3>2
      <4> QED BY <1>1, <2>1, <3>2, <4>1 DEF Latest
    <3> QED BY <3>1, <3>2
  <2> HIDE DEF Latest
  <2>3. OneSignaller' <=> OneSignaller
    BY <2>1 DEF OneSignaller, Signallers, Job
  <2> QED
    BY <2>1, <2>2, <2>3 DEF StateInv, Calm, LatestIsValue, Kept, BusyIsMarked, UnsentIsAlone,
       StateIsValue, Unsent
<1> QED BY <1>2, <1>3 DEF Traffic

\* A step of a task from a label outside the signalling of the state to another.
LEMMA StateOtherTask ==
  ASSUME TypeOK, StateInv, NEW t \in Task, NEW l, NEW v,
         pc[t] \notin SignalLabels, l \notin SignalLabels, pc' = [pc EXCEPT ![t] = l],
         seen' = seen \/ seen' = [seen EXCEPT ![t] = v],
         UNCHANGED <<scene, msg, ep["comm"], bank, host, upset>>
  PROVE  StateInv'
<1>1. pc \in [Task -> Labels] /\ seen = [u \in Task |-> seen[u]]
  BY DEF TypeOK, TasksOK
<1>2. pc'[t] = l /\ \A u \in Task \ {t} : pc'[u] = pc[u] /\ seen'[u] = seen[u]
  BY <1>1
<1>3. \A u \in Task : \A k \in SignalLabels : pc'[u] = k <=> pc[u] = k
  BY <1>2
<1>4. \A u \in Task : pc[u] = "assign" => seen'[u] = seen[u]
  BY <1>2 DEF SignalLabels
<1>5. Calm' => Calm
  BY DEF Calm
<1> QED BY <1>3, <1>4, <1>5, StateUntouched

LEMMA StateWriter ==
  ASSUME TypeOK, StateInv, NEW t \in Task, WriterStep(t),
         UNCHANGED <<scene, bank, host>>
  PROVE  StateInv'
<1>1. UNCHANGED <<msg, ep, upset, seen>>
  BY DEF WriterStep, Put, TestRoom, SwitchBuffer, TestRoomAgain, Full, Write, Begin, Abandon
<1>2. pc[t] \notin SignalLabels /\ \E l : l \notin SignalLabels /\ pc' = [pc EXCEPT ![t] = l]
  <2>1. CASE Put(t) \/ Full(t)
    BY <2>1 DEF Put, Full, Begin, Abandon, At, GoTo, SignalLabels
  <2>2. CASE TestRoom(t) \/ SwitchBuffer(t) \/ TestRoomAgain(t)
    BY <2>2 DEF TestRoom, SwitchBuffer, TestRoomAgain, At, GoTo, SignalLabels
  <2>3. CASE Write(t)
    <3>1. pc[t] = "write" /\ (GoTo(t, "idle") \/ GoTo(t, "test"))
      BY <2>3 DEF Write, At
    <3> QED BY <3>1 DEF GoTo, SignalLabels
  <2> QED BY <2>1, <2>2, <2>3 DEF WriterStep
<1> QED BY <1>1, <1>2, StateOtherTask, Zenon

LEMMA StateReader ==
  ASSUME TypeOK, StateInv, NEW t \in Task, ReaderStep(t),
         UNCHANGED <<scene, bank, host>>
  PROVE  StateInv'
<1>1. UNCHANGED <<msg, upset>>
  BY DEF ReaderStep, Get, Look, Compare, Empty, Read, Advance, Claim, RunReception
<1>2. ep'["comm"] = ep["comm"]
  BY EndpointTypes
     DEF ReaderStep, Get, Look, Compare, Empty, Read, Advance, Claim, RunReception, EPs
<1>3. pc[t] \notin SignalLabels /\ \E l : l \notin SignalLabels /\ pc' = [pc EXCEPT ![t] = l]
  <2>1. CASE Get(t) \/ Look(t) \/ Compare(t) \/ Empty(t)
    BY <2>1 DEF Get, Look, Compare, Empty, Begin, Abandon, At, GoTo, SignalLabels
  <2>2. CASE Read(t) \/ Advance(t) \/ Claim(t) \/ RunReception(t)
    BY <2>2, Zenon DEF Read, Advance, Claim, RunReception, At, GoTo, SignalLabels
  <2> QED BY <2>1, <2>2 DEF ReaderStep
<1>4. seen' = seen \/ \E v : seen' = [seen EXCEPT ![t] = v]
  <2>1. CASE Get(t) \/ Look(t) \/ Compare(t) \/ Empty(t) \/ Advance(t)
    BY <2>1 DEF Get, Look, Compare, Empty, Begin, Abandon, Advance
  <2>2. CASE Read(t) \/ Claim(t) \/ RunReception(t)
    BY <2>2 DEF Read, Claim, RunReception
  <2> QED BY <2>1, <2>2 DEF ReaderStep
<1> QED BY <1>1, <1>2, <1>3, <1>4, StateOtherTask, Zenon

\* The one task that signals: nobody else is at a label of the signalling.
LEMMA StateSignaller ==
  ASSUME TypeOK, JobInv, StateInv, NEW t \in Task, SignalStep(t),
         UNCHANGED <<scene, bank, host>>
  PROVE  StateInv'
<1>1. /\ pc \in [Task -> Labels] /\ seen = [u \in Task |-> seen[u]] /\ msg \in MsgState
      /\ ep["comm"] \in Endpoint("comm") /\ ep = [e \in EPs |-> ep[e]] /\ "comm" \in EPs
      /\ \A u \in Task : pc[u] \in SignalLabels => u \in Signallers
  BY EndpointTypes DEF TypeOK, TasksOK, EPs
<1>2. OneSignaller' <=> OneSignaller
  BY DEF OneSignaller, Signallers, Job
<1>3. t \in Signallers
  BY <1>1 DEF SignalStep, Signal, NotifyHost, RunMessage, AssignOngoing, At, SignalLabels
<1>4. upset \subseteq upset' /\ upset' \subseteq upset \cup {"overtaken"}
  BY DEF SignalStep, Signal, NotifyHost, RunMessage, AssignOngoing
<1> SUFFICES ASSUME Calm', OneSignaller'
             PROVE  (LatestIsValue /\ BusyIsMarked /\ UnsentIsAlone /\ StateIsValue)'
  BY DEF StateInv
<1>5. Calm /\ LatestIsValue /\ BusyIsMarked /\ UnsentIsAlone /\ StateIsValue
  BY <1>2, <1>4 DEF StateInv, Calm
<1>6. \A u \in Task \ {t} : pc[u] \notin SignalLabels
  BY <1>1, <1>2, <1>3 DEF OneSignaller
<1>7. CASE Signal(t)
  <2>1. /\ pc[t] = "idle" /\ pc' = [pc EXCEPT ![t] = "notify"] /\ UNCHANGED ep
        /\ msg'.ongoing = msg.ongoing /\ msg'.value = msg.value
    BY <1>1, <1>7 DEF Signal, Begin, At, GoTo, MsgState
  <2>2. pc'[t] = "notify" /\ \A u \in Task : pc'[u] \notin {"raise", "assign"}
    BY <1>1, <1>6, <2>1 DEF SignalLabels
  <2>3. Latest' = Latest
    BY <2>1 DEF Latest
  <2>4. \A u \in Task : pc[u] \notin {"raise", "assign"}
    BY <1>6, <2>1 DEF SignalLabels
  <2> HIDE DEF Latest
  <2>5. LatestIsValue'
    BY <1>4, <1>5, <2>1, <2>3, <2>4 DEF LatestIsValue, Kept
  <2>6. BusyIsMarked'
    BY <1>5, <2>1, <2>4 DEF BusyIsMarked
  <2> QED BY <2>2, <2>5, <2>6 DEF UnsentIsAlone, Unsent, StateIsValue
<1>8. CASE NotifyHost(t)
  <2>1. pc[t] = "notify" /\ UNCHANGED ep
    BY <1>8 DEF NotifyHost, At
  <2>2. \A u \in Task : pc[u] \notin {"raise", "assign"}
    BY <1>6, <2>1 DEF SignalLabels
  <2>3. Latest' = Latest
    BY <2>1 DEF Latest
  <2> HIDE DEF Latest
  <2>4. CASE msg.ongoing \/ msg.state = msg.value
    <3>1. UNCHANGED msg /\ pc' = [pc EXCEPT ![t] = "idle"]
      BY <1>8, <2>4 DEF NotifyHost, GoTo
    <3>2. \A u \in Task : pc'[u] \notin {"raise", "assign"}
      BY <1>1, <2>2, <3>1
    <3> QED
      BY <1>4, <1>5, <2>1, <2>2, <2>3, <2>4, <3>1, <3>2
         DEF LatestIsValue, Kept, BusyIsMarked, UnsentIsAlone, Unsent, StateIsValue
  <2>5. CASE ~(msg.ongoing \/ msg.state = msg.value)
    <3>1. /\ msg' = [msg EXCEPT !.value = msg.state] /\ pc' = [pc EXCEPT ![t] = "raise"]
      BY <1>8, <2>5 DEF NotifyHost, GoTo
    <3>2. ~msg'.ongoing /\ msg'.state = msg'.value
      BY <1>1, <2>5, <3>1 DEF MsgState
    <3>3. pc'[t] = "raise" /\ \A u \in Task : pc'[u] # "assign"
      BY <1>1, <2>2, <3>1
    <3>4. ~ep["comm"].busy
      BY <1>5, <2>2, <2>5 DEF BusyIsMarked
    <3> QED
      BY <2>1, <3>2, <3>3, <3>4
         DEF LatestIsValue, BusyIsMarked, UnsentIsAlone, StateIsValue
  <2> QED BY <2>4, <2>5
<1>9. CASE RunMessage(t)
  <2> DEFINE y == Run(ep["comm"], <<msg.value>>)
             n == IF Accepts(ep["comm"]) THEN 1 ELSE 0
  <2>1. /\ pc[t] = "raise" /\ pc' = [pc EXCEPT ![t] = "assign"] /\ UNCHANGED msg
        /\ seen' = [seen EXCEPT ![t] = <<"ok", n>>] /\ ep' = [ep EXCEPT !["comm"] = y]
    BY <1>9 DEF RunMessage, At, GoTo
  <2>2. ~ep["comm"].busy /\ ~msg.ongoing /\ msg.state = msg.value
    BY <1>5, <2>1 DEF UnsentIsAlone, Unsent, StateIsValue
  <2>3. <<msg.value>> \in JobsOf("comm")
    BY <1>1 DEF JobsOf, MsgState
  <2>4. /\ y.on = ep["comm"].on /\ (y.busy <=> Accepts(ep["comm"]))
        /\ Accepts(ep["comm"]) => y.job = <<msg.value>>
    BY <1>1, <2>2, <2>3, RunFacts DEF SameFlags
  <2>5. Accepts(ep["comm"]) <=> ep["comm"].on
    <3>1. Unhalted("comm")
      BY <1>1, <1>5 DEF JobInv, HaltedByHost, Calm
    <3> QED BY <2>2, <3>1 DEF Accepts, Unhalted
  <2>6. n = 1 <=> Accepts(ep["comm"])
    OBVIOUS
  <2> HIDE DEF y, n
  <2>7. ep'["comm"] = y /\ pc'[t] = "assign" /\ seen'[t] = <<"ok", n>>
    BY <1>1, <2>1
  <2>8. \A u \in Task \ {t} : pc'[u] \notin SignalLabels
    BY <1>1, <1>6, <2>1
  <2>9. LatestIsValue'
    BY <2>1, <2>4, <2>5, <2>7 DEF LatestIsValue, Latest
  <2>10. BusyIsMarked'
    BY <2>4, <2>6, <2>7 DEF BusyIsMarked
  <2>11. UnsentIsAlone'
    <3> SUFFICES ASSUME NEW u \in Task, Unsent(u)' PROVE ~ep'["comm"].busy /\ ~msg'.ongoing
      BY DEF UnsentIsAlone
    <3>1. u = t
      BY <2>8 DEF Unsent, SignalLabels
    <3> QED BY <2>1, <2>2, <2>4, <2>6, <2>7, <3>1 DEF Unsent
  <2>12. StateIsValue'
    BY <2>1, <2>2 DEF StateIsValue
  <2> QED BY <2>9, <2>10, <2>11, <2>12
<1>10. CASE AssignOngoing(t)
  <2>1. /\ pc[t] = "assign" /\ pc' = [pc EXCEPT ![t] = "idle"] /\ UNCHANGED <<ep, seen>>
        /\ msg'.ongoing = (seen[t][2] = 1) /\ msg'.state = msg.state /\ msg'.value = msg.value
        /\ seen[t][2] = 1 /\ ~ep["comm"].busy => "overtaken" \in upset'
    BY <1>1, <1>10 DEF AssignOngoing, At, GoTo, MsgState
  <2>2. \A u \in Task : pc'[u] \notin SignalLabels
    BY <1>1, <1>6, <2>1 DEF SignalLabels
  <2>3. msg.state = msg.value
    BY <1>5, <2>1 DEF StateIsValue
  <2>4. LatestIsValue'
    <3>1. Latest' = Latest
      BY <2>1 DEF Latest
    <3>2. \A u \in Task : pc[u] # "raise"
      BY <1>6, <2>1 DEF SignalLabels
    <3> HIDE DEF Latest
    <3> QED BY <1>4, <1>5, <2>1, <3>1, <3>2 DEF LatestIsValue, Kept
  <2>5. BusyIsMarked'
    BY <1>5, <2>1, Zenon DEF BusyIsMarked, UnsentIsAlone, Unsent
  <2> QED BY <2>1, <2>2, <2>3, <2>4, <2>5 DEF UnsentIsAlone, Unsent, StateIsValue, SignalLabels
<1> QED BY <1>7, <1>8, <1>9, <1>10 DEF SignalStep

\* When nothing is under way, the host knows the lasting serial state: a change
\* while a message was sent was compared with what was sent when the message had
\* gone out.  This is so for a single task that signals, as long as no endpoint
\* is halted, no completion overtakes the assignment of the flag, and no message
\* that waits in its bank has been lost by setting the data interface.  The next
\* message that is sent makes up for one that has been lost.
THEOREM HostIsTold == Spec => []HostKnowsState
<1>1. TypeOK /\ JobInv /\ StateInv /\ [Next]_vars => StateInv'
  <2> SUFFICES ASSUME TypeOK, JobInv, StateInv, [Next]_vars PROVE StateInv'
    OBVIOUS
  <2>1. ASSUME NEW t \in Task, TaskStep(t) PROVE StateInv'
    BY <2>1, StateWriter, StateReader, StateSignaller DEF TaskStep
  <2>2. CASE Next
    BY <2>1, <2>2, StateInterrupts, StateRequests, StateTraffic DEF Next, Goes
  <2>3. CASE UNCHANGED vars
    BY <2>3, StateUntouched DEF vars, taskVars, histVars, epVars, Calm
  <2> QED BY <2>2, <2>3
<1>2. TypeOK /\ JobInv /\ StateInv => HostKnowsState
  <2> SUFFICES ASSUME TypeOK, JobInv, StateInv, ep["comm"].on, ~ep["comm"].busy,
                      bank["comm"] = <<>>, upset = {}, OneSignaller,
                      \A t \in Signallers : pc[t] = "idle"
               PROVE  host.state \ Irregular = msg.state \ Irregular
    BY DEF HostKnowsState, OneSignaller
  <2>1. \A t \in Task : pc[t] \notin SignalLabels
    BY DEF TypeOK, TasksOK, SignalLabels
  <2>2. LatestIsValue /\ StateIsValue /\ ~msg.ongoing
    BY DEF StateInv, Calm, JobInv, OngoingHasJob
  <2>3. host.state \ Irregular = msg.value \ Irregular
    BY <2>1, <2>2 DEF LatestIsValue, Kept, Latest, SignalLabels
  <2>4. msg.state = msg.value
    BY <2>1, <2>2 DEF StateIsValue, SignalLabels
  <2> QED BY <2>3, <2>4
<1> QED BY <1>1, <1>2, JobAlways, StateInit, TypeCorrect, PTL DEF Spec

-----------------------------------------------------------------------------
(* The serial line.  FlattenSeq joins the packets in the banks; what it returns *)
(* is found by induction over their number, from the least number for which it *)
(* would be wrong.                                                           *)

\* Sequences in a row, in any grouping.
LEMMA ConcatThree ==
  ASSUME NEW S, NEW a \in Seq(S), NEW b \in Seq(S), NEW c \in Seq(S)
  PROVE  (a \o b) \o c = a \o (b \o c) /\ a \o (b \o c) \in Seq(S)
BY SMT

LEMMA ConcatJoins ==
  ASSUME NEW S
  PROVE  \A a, b, c \in Seq(S) : (a \o b) \o c = a \o (b \o c)
BY ConcatThree

\* The order by which the packets in the banks are counted.
Smaller == {p \in Nat \X Nat : p[1] < p[2]}

\* A set of natural numbers that is not empty has a least element,
LEMMA LeastNumber ==
  ASSUME NEW T, T \subseteq Nat, T # {}
  PROVE  \E m \in T : \A n \in T : m <= n
<1>1. IsWellFoundedOn(Smaller, Nat)
  <2>1. OpToRel(<, Nat) = Smaller
    BY Zenon DEF OpToRel, Smaller
  <2>2. QED
    BY <2>1, NatLessThanWellFounded, Zenon
<1>2. PICK m \in T : \A n \in T : ~(<<n, m>> \in Smaller)
  BY <1>1, WFMin, Zenon
<1>3. \A n \in T : ~(n < m)
  BY <1>2, Zenon DEF Smaller
<1>4. \A n \in T : m <= n
  BY <1>3
<1>5. QED
  BY <1>4

\* so that what holds of the first, and of the next whenever of one, holds of all.
LEMMA NumberInduction ==
  ASSUME NEW N \in Nat, NEW T, 1 \in T, \A n \in 1 .. N - 1 : n \in T => n + 1 \in T
  PROVE  \A n \in 1 .. N : n \in T
<1>1. SUFFICES ASSUME (1 .. N) \ T # {} PROVE FALSE
  OBVIOUS
<1> DEFINE U == (1 .. N) \ T
<1>2. PICK m \in U : \A n \in U : m <= n
  <2>1. U \subseteq Nat /\ U # {}
    BY <1>1
  <2> HIDE DEF U
  <2>2. QED
    BY <2>1, LeastNumber, Zenon
<1>3. m # 1 /\ m - 1 \in 1 .. N - 1 /\ m - 1 \in T
  BY <1>2
<1>4. QED
  BY <1>2, <1>3

\* f joins the packets of s, one after the other.
Joins(f, s) ==
  /\ DOMAIN f = 1 .. Len(s)
  /\ \A i \in 1 .. Len(s) : f[i] = IF i = 1 THEN s[1] ELSE f[i - 1] \o s[i]

\* The joints are sequences of what the packets hold,
LEMMA JointType ==
  ASSUME NEW S, NEW s \in Seq(Seq(S)), NEW f, Joins(f, s)
  PROVE  \A i \in 1 .. Len(s) : f[i] \in Seq(S)
<1>0. \A i \in 1 .. Len(s) : i # 1 => f[i] = f[i - 1] \o s[i]
  BY Zenon DEF Joins
<1> DEFINE T == {n \in Nat : n \in 1 .. Len(s) => f[n] \in Seq(S)}
<1>1. 1 \in T
  <2>1. SUFFICES ASSUME 1 \in 1 .. Len(s) PROVE f[1] \in Seq(S)
    OBVIOUS
  <2>2. f[1] = s[1]
    BY <2>1, Zenon DEF Joins
  <2>3. s[1] \in Seq(S)
    BY <2>1
  <2>4. QED
    BY <2>2, <2>3
<1>2. ASSUME NEW n \in 1 .. Len(s) - 1, n \in T PROVE n + 1 \in T
  <2>1. n \in 1 .. Len(s) /\ n + 1 \in 1 .. Len(s) /\ (n + 1) - 1 = n /\ n + 1 # 1
    OBVIOUS
  <2>2. f[n] \in Seq(S) /\ s[n + 1] \in Seq(S)
    BY <1>2, <2>1
  <2>3. f[n + 1] = f[n] \o s[n + 1]
    <3>1. f[n + 1] = f[(n + 1) - 1] \o s[n + 1]
      BY <1>0, <2>1, Zenon
    <3>2. QED
      BY <2>1, <3>1, Zenon
  <2>4. f[n] \o s[n + 1] \in Seq(S)
    BY <2>2, ConcatProperties
  <2>5. n + 1 \in Nat /\ f[n + 1] \in Seq(S)
    BY <2>3, <2>4
  <2>6. QED
    BY <2>5
<1>3. Len(s) \in Nat
  OBVIOUS
<1>4. \A n \in 1 .. Len(s) : n \in T
  <2> HIDE DEF T
  <2>1. QED
    BY <1>1, <1>2, <1>3, NumberInduction, Zenon
<1>5. QED
  BY <1>4

\* they exist,
LEMMA JointsExist ==
  ASSUME NEW S, NEW s \in Seq(Seq(S)), s # <<>>
  PROVE  \E f : Joins(f, s)
<1> DEFINE Upto(n, f) ==
             /\ DOMAIN f = 1 .. n
             /\ \A i \in 1 .. n : f[i] = IF i = 1 THEN s[1] ELSE f[i - 1] \o s[i]
           T == {n \in Nat : \E f : Upto(n, f)}
<1>1. 1 \in T
  <2>1. Upto(1, [i \in 1 .. 1 |-> s[1]])
    OBVIOUS
  <2>2. QED
    BY <2>1, Zenon
<1>2. ASSUME NEW n \in 1 .. Len(s) - 1, n \in T PROVE n + 1 \in T
  <2>1. PICK f : Upto(n, f)
    BY <1>2
  <2> DEFINE g == [i \in 1 .. n + 1 |-> IF i = n + 1 THEN f[n] \o s[n + 1] ELSE f[i]]
  <2>2. n \in Nat /\ n >= 1 /\ n + 1 \in Nat
    OBVIOUS
  <2>3. ASSUME NEW i \in 1 .. n + 1
        PROVE  g[i] = IF i = 1 THEN s[1] ELSE g[i - 1] \o s[i]
    <3>1. CASE i = n + 1
      <4>1. n \in 1 .. n + 1 /\ n + 1 \in 1 .. n + 1 /\ n # n + 1 /\ i - 1 = n /\ i # 1
        BY <2>2, <3>1
      <4>2. g[n] = f[n] /\ g[n + 1] = f[n] \o s[n + 1]
        BY <4>1, Zenon
      <4>3. QED
        BY <3>1, <4>1, <4>2, Zenon
    <3>2. CASE i # n + 1
      <4>1. i \in 1 .. n /\ g[i] = f[i]
        BY <2>2, <3>2
      <4>2. CASE i = 1
        BY <2>1, <4>1, <4>2, Zenon
      <4>3. CASE i # 1
        <5>1. i - 1 \in 1 .. n + 1 /\ i - 1 # n + 1
          BY <2>2, <4>1, <4>3
        <5>2. g[i - 1] = f[i - 1]
          BY <5>1
        <5>3. QED
          BY <2>1, <4>1, <4>3, <5>2, Zenon
      <4>4. QED
        BY <4>2, <4>3
    <3>3. QED
      BY <3>1, <3>2
  <2>4. DOMAIN g = 1 .. n + 1
    OBVIOUS
  <2> HIDE DEF g
  <2>5. Upto(n + 1, g)
    BY <2>3, <2>4, Zenon
  <2>6. QED
    BY <2>2, <2>5, Zenon
<1>3. Len(s) \in Nat /\ Len(s) >= 1
  OBVIOUS
<1>4. \A n \in 1 .. Len(s) : n \in T
  <2> HIDE DEF T
  <2>1. QED
    BY <1>1, <1>2, <1>3, NumberInduction, Zenon
<1>5. Len(s) \in T
  <2> HIDE DEF T
  <2>1. Len(s) \in 1 .. Len(s)
    BY <1>3
  <2>2. QED
    BY <1>4, <2>1
<1>6. PICK f : Upto(Len(s), f)
  BY <1>5
<1>7. Joins(f, s)
  BY <1>6, Zenon DEF Joins
<1>8. QED
  BY <1>7

\* and the last one is what the community modules' FlattenSeq returns.
LEMMA FlattenIsJoint ==
  ASSUME NEW S, NEW s \in Seq(Seq(S)), s # <<>>
  PROVE  \E f : Joins(f, s) /\ FlattenSeq(s) = f[Len(s)]
<1> DEFINE OK(w) == w = [i \in 1 .. Len(s) |-> IF i = 1 THEN s[i] ELSE w[i - 1] \o s[i]]
<1>1. PICK f : Joins(f, s)
  BY JointsExist
<1>2. ASSUME NEW f1, Joins(f1, s)
      PROVE  [i \in 1 .. Len(s) |-> f1[i]] = [i \in 1 .. Len(s) |-> IF i = 1 THEN s[i] ELSE f1[i - 1] \o s[i]]
  BY <1>2, Zenon DEF Joins
<1> DEFINE g == [i \in 1 .. Len(s) |-> f[i]]
<1>3. Joins(g, s)
  <2>1. ASSUME NEW i \in 1 .. Len(s), i # 1 PROVE g[i - 1] = f[i - 1]
    <3>1. i - 1 \in 1 .. Len(s)
      BY <2>1
    <3>2. QED
      BY <3>1
  <2>2. \A i \in 1 .. Len(s) : g[i] = f[i]
    OBVIOUS
  <2>3. DOMAIN g = 1 .. Len(s)
    OBVIOUS
  <2> HIDE DEF g
  <2>4. QED
    BY <1>1, <2>1, <2>2, <2>3, Zenon DEF Joins
<1>4. [i \in 1 .. Len(s) |-> g[i]] = g
  OBVIOUS
<1>5. OK(g)
  BY <1>2, <1>3, <1>4, Zenon
<1> HIDE DEF g
<1>6. \E w : OK(w)
  BY <1>5, Zenon
<1>7. OK(CHOOSE w : OK(w))
  BY <1>6, Zenon
<1>8. Len(s) # 0
  OBVIOUS
<1>9. FlattenSeq(s) = (CHOOSE w : OK(w))[Len(s)]
  BY <1>8, Zenon DEF FlattenSeq
<1> DEFINE h == CHOOSE w : OK(w)
<1> HIDE DEF h
<1>10. h = [i \in 1 .. Len(s) |-> IF i = 1 THEN s[i] ELSE h[i - 1] \o s[i]]
  BY <1>7, Zenon DEF h
<1>11. Joins(h, s)
  BY <1>10, Zenon DEF Joins
<1>12. FlattenSeq(s) = h[Len(s)]
  BY <1>9, Zenon DEF h
<1>13. QED
  BY <1>11, <1>12

\* Packets hold what the packets do,
LEMMA FlattenType ==
  ASSUME NEW S, NEW s \in Seq(Seq(S))
  PROVE  FlattenSeq(s) \in Seq(S)
<1>1. CASE s = <<>>
  <2>1. FlattenSeq(s) = <<>>
    BY <1>1 DEF FlattenSeq
  <2>2. QED
    BY <2>1, EmptySeq
<1>2. CASE s # <<>>
  <2>1. PICK f : Joins(f, s) /\ FlattenSeq(s) = f[Len(s)]
    BY <1>2, FlattenIsJoint
  <2>2. Len(s) \in 1 .. Len(s)
    BY <1>2
  <2>3. QED
    BY <2>1, <2>2, JointType
<1>3. QED
  BY <1>1, <1>2

\* no packets hold nothing,
LEMMA FlattenEmpty == FlattenSeq(<<>>) = <<>>
BY DEF FlattenSeq

\* the last packet comes last,
LEMMA FlattenAppend ==
  ASSUME NEW S, NEW s \in Seq(Seq(S)), NEW p \in Seq(S)
  PROVE  FlattenSeq(Append(s, p)) = FlattenSeq(s) \o p
<1> DEFINE t == Append(s, p)
           N == Len(s)
<1>1. /\ t \in Seq(Seq(S)) /\ t # <<>> /\ Len(t) = N + 1 /\ N \in Nat
      /\ t[N + 1] = p /\ \A i \in 1 .. N : t[i] = s[i]
  BY AppendProperties
<1> HIDE DEF t
<1>2. PICK g : Joins(g, t) /\ FlattenSeq(t) = g[N + 1]
  BY <1>1, FlattenIsJoint
<1>3. CASE s = <<>>
  <2>1. N = 0 /\ FlattenSeq(s) = <<>>
    BY <1>3, FlattenEmpty
  <2>2. 1 \in 1 .. Len(t)
    BY <1>1, <2>1
  <2>3. g[1] = t[1]
    BY <1>2, <2>2, Zenon DEF Joins
  <2>4. g[1] = p
    BY <1>1, <2>1, <2>3
  <2>5. <<>> \o p = p
    BY ConcatEmptySeq
  <2>6. QED
    BY <1>2, <2>1, <2>4, <2>5 DEF t
<1>4. CASE s # <<>>
  <2>1. PICK f : Joins(f, s) /\ FlattenSeq(s) = f[N]
    BY <1>4, FlattenIsJoint
  <2> DEFINE T == {n \in Nat : n \in 1 .. N => g[n] = f[n]}
  <2>2. N >= 1
    BY <1>4
  <2>3. 1 \in T
    <3>1. 1 \in 1 .. N /\ 1 \in 1 .. Len(t) /\ t[1] = s[1]
      BY <1>1, <2>2
    <3>2. QED
      BY <1>2, <2>1, <3>1, Zenon DEF Joins
  <2>4. ASSUME NEW n \in 1 .. N - 1, n \in T PROVE n + 1 \in T
    <3>1. /\ n \in 1 .. N /\ n + 1 \in 1 .. N /\ n + 1 \in 1 .. Len(t) /\ n + 1 # 1
          /\ (n + 1) - 1 = n /\ n + 1 \in Nat
      BY <1>1
    <3>2. t[n + 1] = s[n + 1] /\ g[n] = f[n]
      BY <1>1, <2>4, <3>1
    <3>3. g[n + 1] = g[(n + 1) - 1] \o t[n + 1]
      BY <1>2, <3>1, Zenon DEF Joins
    <3>4. f[n + 1] = f[(n + 1) - 1] \o s[n + 1]
      BY <2>1, <3>1, Zenon DEF Joins
    <3>5. QED
      BY <3>1, <3>2, <3>3, <3>4, Zenon
  <2>5. g[N] = f[N]
    <3> HIDE DEF T
    <3>1. \A n \in 1 .. N : n \in T
      BY <1>1, <2>3, <2>4, NumberInduction, Zenon
    <3>2. N \in 1 .. N
      BY <1>1, <2>2
    <3>3. QED
      BY <3>1, <3>2 DEF T
  <2>6. N + 1 \in 1 .. Len(t) /\ N + 1 # 1 /\ (N + 1) - 1 = N
    BY <1>1, <2>2
  <2>7. g[N + 1] = g[(N + 1) - 1] \o t[N + 1]
    BY <1>2, <2>6, Zenon DEF Joins
  <2>8. g[N + 1] = f[N] \o p
    BY <1>1, <2>5, <2>6, <2>7, Zenon
  <2>9. QED
    BY <1>2, <2>1, <2>8 DEF t
<1>5. QED
  BY <1>3, <1>4

\* and the first one first.
LEMMA FlattenHead ==
  ASSUME NEW S, NEW s \in Seq(Seq(S)), s # <<>>
  PROVE  FlattenSeq(s) = Head(s) \o FlattenSeq(Tail(s))
<1>0. \A x, y, z \in Seq(S) : (x \o y) \o z = x \o (y \o z)
  BY ConcatJoins, SMT
<1> DEFINE t == Tail(s)
           N == Len(s)
<1>1. /\ t \in Seq(Seq(S)) /\ Len(t) = N - 1 /\ N \in Nat /\ N >= 1
      /\ Head(s) = s[1] /\ s[1] \in Seq(S) /\ \A i \in 1 .. N - 1 : t[i] = s[i + 1]
  BY HeadTailProperties
<1> HIDE DEF t
<1>2. PICK f : Joins(f, s) /\ FlattenSeq(s) = f[N]
  BY FlattenIsJoint
<1>3. f[1] = s[1]
  <2>1. 1 \in 1 .. Len(s)
    BY <1>1
  <2>2. QED
    BY <1>2, <2>1, Zenon DEF Joins
<1>4. CASE t = <<>>
  <2>1. N = 1 /\ FlattenSeq(t) = <<>>
    BY <1>1, <1>4, FlattenEmpty
  <2>2. s[1] \o <<>> = s[1]
    BY <1>1, ConcatEmptySeq
  <2>3. QED
    BY <1>1, <1>2, <1>3, <2>1, <2>2, Zenon DEF t
<1>5. CASE t # <<>>
  <2>1. PICK g : Joins(g, t) /\ FlattenSeq(t) = g[N - 1]
    BY <1>1, <1>5, FlattenIsJoint, Zenon
  <2>2. N - 1 >= 1 /\ N - 1 \in Nat
    BY <1>1, <1>5
  <2>3. \A i \in 1 .. N - 1 : g[i] \in Seq(S)
    BY <1>1, <2>1, JointType
  <2> DEFINE T == {n \in Nat : n \in 1 .. N - 1 => f[n + 1] = s[1] \o g[n]}
  <2>4. 1 \in T
    <3>1. 1 \in 1 .. N - 1 /\ 2 \in 1 .. N /\ 2 # 1 /\ 2 - 1 = 1 /\ 1 + 1 = 2 /\ 1 \in 1 .. Len(t)
      BY <1>1, <2>2
    <3>2. f[2] = f[2 - 1] \o s[2]
      BY <1>2, <3>1, Zenon DEF Joins
    <3>3. g[1] = t[1] /\ t[1] = s[2]
      BY <1>1, <2>1, <3>1, Zenon DEF Joins
    <3>4. QED
      BY <1>3, <3>1, <3>2, <3>3, Zenon
  <2>5. ASSUME NEW n \in 1 .. (N - 1) - 1, n \in T PROVE n + 1 \in T
    <3>1. /\ n \in 1 .. N - 1 /\ n + 1 \in 1 .. N - 1 /\ n + 1 \in 1 .. Len(t) /\ n + 1 # 1
          /\ (n + 1) - 1 = n /\ n + 1 \in Nat
      BY <1>1, <2>2
    <3>2. n + 2 \in 1 .. N /\ n + 2 # 1 /\ (n + 2) - 1 = n + 1 /\ (n + 1) + 1 = n + 2
      BY <1>1, <2>2
    <3>3. f[n + 1] = s[1] \o g[n] /\ t[n + 1] = s[n + 2]
      BY <1>1, <2>5, <3>1, <3>2, Zenon
    <3>4. f[n + 2] = f[(n + 2) - 1] \o s[n + 2]
      BY <1>2, <3>2, Zenon DEF Joins
    <3>5. g[n + 1] = g[(n + 1) - 1] \o t[n + 1]
      BY <2>1, <3>1, Zenon DEF Joins
    <3>6. g[n] \in Seq(S) /\ t[n + 1] \in Seq(S)
      BY <1>1, <2>3, <3>1
    <3>7. (s[1] \o g[n]) \o t[n + 1] = s[1] \o (g[n] \o t[n + 1])
      <4>1. s[1] \in Seq(S)
        BY <1>1
      <4> QED BY <1>0, <3>6, <4>1, Zenon
    <3>8. f[(n + 1) + 1] = s[1] \o g[n + 1]
      BY <3>1, <3>2, <3>3, <3>4, <3>5, <3>7, Zenon
    <3>9. QED
      BY <3>1, <3>8, Zenon
  <2>6. f[N] = s[1] \o g[N - 1]
    <3> HIDE DEF T
    <3>1. \A n \in 1 .. N - 1 : n \in T
      BY <2>2, <2>4, <2>5, NumberInduction, Zenon
    <3>2. N - 1 \in 1 .. N - 1 /\ (N - 1) + 1 = N
      BY <1>1, <2>2
    <3>3. QED
      BY <3>1, <3>2, Zenon DEF T
  <2>7. QED
    BY <1>1, <1>2, <2>1, <2>6, Zenon DEF t
<1>6. QED
  BY <1>4, <1>5

\* What is in front can be taken away, in part
LEMMA ConcatParts ==
  ASSUME NEW S, NEW s \in Seq(S), NEW t \in Seq(S), NEW n \in 0 .. Len(s)
  PROVE  SubSeq(s \o t, n + 1, Len(s \o t)) = SubSeq(s, n + 1, Len(s)) \o t
<1> DEFINE l == SubSeq(s \o t, n + 1, Len(s \o t))
           m == SubSeq(s, n + 1, Len(s))
<1>1. /\ s \o t \in Seq(S) /\ Len(s \o t) = Len(s) + Len(t) /\ Len(s) \in Nat /\ Len(t) \in Nat
      /\ \A i \in 1 .. Len(s) + Len(t) : (s \o t)[i] = IF i <= Len(s) THEN s[i] ELSE t[i - Len(s)]
  BY ConcatProperties, LenProperties
<1>2. /\ l \in Seq(S) /\ Len(l) = Len(s) + Len(t) - n
      /\ \A i \in 1 .. Len(s) + Len(t) - n : l[i] = (s \o t)[n + i]
  <2>1. \A i \in n + 1 .. Len(s) + Len(t) : (s \o t)[i] \in S
    BY <1>1, ElementOfSeq
  <2>2. n + 1 \in Int /\ Len(s) + Len(t) \in Int
    BY <1>1
  <2>3. /\ l \in Seq(S) /\ Len(l) = (IF n + 1 <= Len(s) + Len(t) THEN Len(s) + Len(t) - (n + 1) + 1 ELSE 0)
        /\ \A i \in 1 .. Len(s) + Len(t) - (n + 1) + 1 : l[i] = (s \o t)[(n + 1) + i - 1]
    BY <1>1, <2>1, <2>2, SubSeqProperties
  <2>4. QED
    BY <1>1, <2>3
<1>3. m \in Seq(S) /\ Len(m) = Len(s) - n /\ \A i \in 1 .. Len(s) - n : m[i] = s[n + i]
  <2>1. \A i \in n + 1 .. Len(s) : s[i] \in S
    BY <1>1, ElementOfSeq
  <2>2. n + 1 \in Int /\ Len(s) \in Int
    BY <1>1
  <2>3. /\ m \in Seq(S) /\ Len(m) = (IF n + 1 <= Len(s) THEN Len(s) - (n + 1) + 1 ELSE 0)
        /\ \A i \in 1 .. Len(s) - (n + 1) + 1 : m[i] = s[(n + 1) + i - 1]
    BY <1>1, <2>1, <2>2, SubSeqProperties
  <2>4. QED
    BY <1>1, <2>3
<1> HIDE DEF l, m
<1>4. /\ m \o t \in Seq(S) /\ Len(m \o t) = Len(m) + Len(t)
      /\ \A i \in 1 .. Len(m) + Len(t) : (m \o t)[i] = IF i <= Len(m) THEN m[i] ELSE t[i - Len(m)]
  BY <1>3, ConcatProperties, Zenon
<1>5. ASSUME NEW i \in 1 .. Len(l) PROVE l[i] = (m \o t)[i]
  <2>1. i \in 1 .. Len(s) + Len(t) - n /\ n + i \in 1 .. Len(s) + Len(t) /\ i \in 1 .. Len(m) + Len(t)
    BY <1>1, <1>2, <1>3
  <2>2. l[i] = IF n + i <= Len(s) THEN s[n + i] ELSE t[n + i - Len(s)]
    BY <1>1, <1>2, <2>1
  <2>3. (m \o t)[i] = IF i <= Len(s) - n THEN m[i] ELSE t[i - (Len(s) - n)]
    BY <1>3, <1>4, <2>1, Zenon
  <2>4. CASE i <= Len(s) - n
    <3>1. n + i <= Len(s) /\ i \in 1 .. Len(s) - n
      BY <1>1, <2>1, <2>4
    <3>2. QED
      BY <1>3, <2>2, <2>3, <2>4, <3>1
  <2>5. CASE ~(i <= Len(s) - n)
    <3>1. ~(n + i <= Len(s)) /\ n + i - Len(s) = i - (Len(s) - n)
      BY <1>1, <2>1, <2>5
    <3>2. QED
      BY <2>2, <2>3, <2>5, <3>1
  <2>6. QED
    BY <2>4, <2>5, Zenon
<1>6. Len(l) = Len(m \o t)
  BY <1>1, <1>2, <1>3, <1>4
<1>7. l = m \o t
  BY <1>2, <1>4, <1>5, <1>6, SeqEqual, SMTT(30)
<1>8. QED
  BY <1>7, Zenon DEF l, m

\* or as a whole,
LEMMA ConcatFront ==
  ASSUME NEW S, NEW s \in Seq(S), NEW t \in Seq(S)
  PROVE  /\ SubSeq(s \o t, 1, Len(s)) = s
         /\ SubSeq(s \o t, Len(s) + 1, Len(s \o t)) = t
         /\ Len(s) \in 0 .. Len(s \o t)
         /\ IsPrefix(s, s \o t)
         /\ t # <<>> => s # s \o t
<1>1. /\ s \o t \in Seq(S) /\ Len(s \o t) = Len(s) + Len(t) /\ Len(s) \in Nat /\ Len(t) \in Nat
      /\ \A i \in 1 .. Len(s) + Len(t) : (s \o t)[i] = IF i <= Len(s) THEN s[i] ELSE t[i - Len(s)]
  BY ConcatProperties, LenProperties
<1>2. SubSeq(s \o t, 1, Len(s)) = s
  <2> DEFINE l == SubSeq(s \o t, 1, Len(s))
  <2>1. \A i \in 1 .. Len(s) : (s \o t)[i] \in S
    BY <1>1, ElementOfSeq
  <2>2. 1 \in Int /\ Len(s) \in Int
    BY <1>1
  <2>3. /\ l \in Seq(S) /\ Len(l) = (IF 1 <= Len(s) THEN Len(s) - 1 + 1 ELSE 0)
        /\ \A i \in 1 .. Len(s) - 1 + 1 : l[i] = (s \o t)[1 + i - 1]
    BY <2>1, <2>2, SubSeqProperties
  <2> HIDE DEF l
  <2>4. Len(l) = Len(s) /\ \A i \in 1 .. Len(l) : l[i] = s[i]
    BY <1>1, <2>3
  <2>5. l = s
    BY <2>3, <2>4, SeqEqual
  <2>6. QED
    BY <2>5 DEF l
<1>3. SubSeq(s \o t, Len(s) + 1, Len(s \o t)) = t
  <2>1. Len(s) \in 0 .. Len(s) /\ Len(s) + 1 \in Int /\ Len(s) \in Int /\ Len(s) < Len(s) + 1
    BY <1>1
  <2>2. SubSeq(s \o t, Len(s) + 1, Len(s \o t)) = SubSeq(s, Len(s) + 1, Len(s)) \o t
    BY <2>1, ConcatParts, Zenon
  <2>3. SubSeq(s, Len(s) + 1, Len(s)) = <<>>
    BY <2>1, SubSeqEmpty
  <2>4. <<>> \o t = t
    BY ConcatEmptySeq
  <2>5. QED
    BY <2>2, <2>3, <2>4
<1>4. Len(s) \in 0 .. Len(s \o t)
  BY <1>1
<1>5. IsPrefix(s, s \o t)
  <2>1. SubSeq(s, 1, Len(s)) = s
    BY SubSeqFull
  <2>2. QED
    BY <1>1, <1>2, <2>1 DEF IsPrefix
<1>6. t # <<>> => s # s \o t
  BY ConcatEqualIffEmpty
<1>7. QED
  BY <1>2, <1>3, <1>4, <1>5, <1>6, Zenon

\* and so can the first element.
LEMMA ConcatFirst ==
  ASSUME NEW S, NEW s \in Seq(S), NEW t \in Seq(S), s # <<>>
  PROVE  /\ s \o t # <<>> /\ Head(s \o t) = s[1]
         /\ Tail(s \o t) = SubSeq(s, 2, Len(s)) \o t
<1>1. /\ s \o t \in Seq(S) /\ Len(s \o t) = Len(s) + Len(t) /\ Len(s) \in Nat /\ Len(t) \in Nat
      /\ (s \o t)[1] = s[1] /\ Len(s) >= 1
  BY ConcatProperties, LenProperties, EmptySeq
<1>2. s \o t # <<>>
  BY ConcatEqualIffEmpty
<1>3. Head(s \o t) = s[1]
  BY <1>1, <1>2
<1>4. Tail(s \o t) = SubSeq(s \o t, 1 + 1, Len(s \o t))
  BY <1>1, <1>2, TailIsSubSeq
<1>5. 1 \in 0 .. Len(s)
  BY <1>1
<1>6. SubSeq(s \o t, 1 + 1, Len(s \o t)) = SubSeq(s, 1 + 1, Len(s)) \o t
  BY <1>5, ConcatParts
<1>7. QED
  BY <1>2, <1>3, <1>4, <1>6

-----------------------------------------------------------------------------
(* The steps of the serial line, as the variables of the port show them.     *)

\* What the instance of SerialLine is given, and a step of it.
LineHost == IF Contended THEN <<>> ELSE ToHost
LineReceived == IF Contended THEN <<>> ELSE host.last
LineByte == 0 .. MaxBytes + Chunk * scene.calls * Cardinality(Task)

LineStep == [Line!Next]_(Line!vars)

\* One lemma for each action of SerialLine, and one for a step that it does not see.
LEMMA LineStutter ==
  ASSUME LineHost' = LineHost, LineReceived' = LineReceived, ToDevice' = ToDevice,
         UNCHANGED <<delivered, trust>>, (sent > 0)' = (sent > 0)
  PROVE  LineStep
BY DEF LineStep, Line!vars, LineHost, LineReceived

LEMMA LinePut ==
  ASSUME LineHost' \in Seq(LineByte), IsStrictPrefix(LineHost, LineHost'),
         LineReceived' = LineReceived, ToDevice' = ToDevice,
         UNCHANGED <<delivered, trust, sent>>
  PROVE  LineStep
BY DEF LineStep, Line!vars, LineHost, LineReceived, LineByte, Line!Put, Line!Next, IsStrictPrefix, Line!IsStrictPrefix, IsPrefix, Line!IsPrefix, Line!toDeviceVars, Line!toHostVars

LEMMA LineCome ==
  ASSUME NEW n \in 0 .. Len(LineHost), LineHost' = SubSeq(LineHost, n + 1, Len(LineHost)),
         LineReceived' = SubSeq(LineHost, 1, n), ToDevice' = ToDevice,
         UNCHANGED <<delivered, trust, sent>>
  PROVE  LineStep
BY DEF LineStep, Line!vars, LineHost, LineReceived, LineByte, Line!Come, Line!Next, Line!toDeviceVars, Line!toHostVars

LEMMA LineSend ==
  ASSUME LineHost' = LineHost, LineReceived' = LineReceived, UNCHANGED delivered,
         ToDevice' \in Seq(LineByte), IsPrefix(ToDevice, ToDevice'),
         (sent > 0)' <=> sent > 0 \/ ToDevice' # ToDevice,
         trust' = IF ToDevice' = ToDevice /\ trust = "firm" THEN "weak" ELSE trust
  PROVE  LineStep
BY DEF LineStep, Line!vars, LineHost, LineReceived, LineByte, Line!Send, Line!Next, IsPrefix, Line!IsPrefix, Line!toDeviceVars, Line!toHostVars

LEMMA LineGet ==
  ASSUME LineHost' = LineHost, LineReceived' = LineReceived, UNCHANGED <<sent, trust>>,
         ToDevice # <<>>, delivered' = Head(ToDevice), ToDevice' = Tail(ToDevice)
  PROVE  LineStep
BY DEF LineStep, Line!vars, LineHost, LineReceived, LineByte, Line!Get, Line!Next, Line!toDeviceVars, Line!toHostVars

LEMMA LineSkip ==
  ASSUME LineHost' = LineHost, LineReceived' = LineReceived, UNCHANGED <<sent, trust, delivered>>,
         NEW n \in 1 .. Len(ToDevice), ToDevice' = SubSeq(ToDevice, n + 1, Len(ToDevice))
  PROVE  LineStep
BY DEF LineStep, Line!vars, LineHost, LineReceived, LineByte, Line!Skip, Line!Next, Line!toDeviceVars, Line!toHostVars

LEMMA LinePhantom ==
  ASSUME LineHost' = LineHost, LineReceived' = LineReceived, UNCHANGED <<sent, trust>>,
         trust = "weak", delivered' \in LineByte,
         ToDevice' = ToDevice \/ (ToDevice # <<>> /\ ToDevice' = Tail(ToDevice))
  PROVE  LineStep
BY DEF LineStep, Line!vars, LineHost, LineReceived, LineByte, Line!Phantom, Line!Next, Line!toDeviceVars, Line!toHostVars

LEMMA LineAnything ==
  ASSUME LineHost' = LineHost, LineReceived' = LineReceived, UNCHANGED <<sent, trust>>,
         trust = "none", delivered' \in LineByte, ToDevice' \in Seq(LineByte)
  PROVE  LineStep
BY DEF LineStep, Line!vars, LineHost, LineReceived, LineByte, Line!Anything, Line!Next, Line!toDeviceVars, Line!toHostVars

LEMMA LineCut ==
  ASSUME LineHost' = <<>>, LineReceived' = LineReceived, UNCHANGED <<sent, delivered>>,
         ToDevice' \in Seq(LineByte), Len(ToDevice') <= Size, ToDevice' # <<>> => sent > 0,
         trust' \in {"firm", "none", trust}
  PROVE  LineStep
BY DEF LineStep, Line!vars, LineHost, LineReceived, LineByte, Line!Cut, Line!Next, Line!toDeviceVars, Line!toHostVars

-----------------------------------------------------------------------------
(* The direction to the host.  Bytes come into the banks in the order in which *)
(* they were written, because the buffer that is not selected is the one that *)
(* is sent; a single writer switches the buffers only when nothing waits there. *)

\* A job of endpoint x moves the buffer that is not selected in t.
InOrder(t, x) == x.busy => t.ongoing /\ x.job = t.buf[Other(t.sel)]

\* The buffer that is not selected is empty, or is sent, or waits for that.
Spare(t) == t.both \/ t.ongoing \/ t.buf[Other(t.sel)] = <<>>

\* The bytes in the banks b and in the buffers of t, in the order in which they are sent.
Buffered(t) == t.buf[Other(t.sel)] \o t.buf[t.sel]
InLine(b, t) == FlattenSeq(b) \o Buffered(t)

\* The job that is on its way is the buffer that is not selected.
SentInOrder == InOrder(tx, ep["in"])

\* The bytes that a task may put.
Budget == Chunk * scene.calls

\* What is in the buffers and the banks has been put by a writer.
MadeBytes ==
  /\ \A b \in 0..1 : tx.buf[b] \in Seq(0 .. made)
  /\ bank["in"] \in Seq(Seq(0 .. made))

\* What the only writer has put, and what it will still put.
WithinBudget ==
  ~Contended =>
    /\ made <= Budget
    /\ \A t \in Writers : /\ made + todo[t] + Chunk * calls[t] <= Budget
                          /\ pc[t] = "idle" => todo[t] = 0

\* A writer switches the buffers only when the last switch has had its effect.
SwitchesOnce == ~Contended => \A t \in Writers : pc[t] = "switch" => ~tx.both

\* The inductive invariant of the direction to the host.
WriterInv == SentInOrder /\ MadeBytes /\ WithinBudget /\ SwitchesOnce

LEMMA WriterInit == Init => WriterInv
<1> SUFFICES ASSUME Init PROVE WriterInv
  OBVIOUS
<1>1. /\ ep["in"] = Off /\ bank["in"] = <<>> /\ made = 0 /\ \A b \in 0..1 : tx.buf[b] = <<>>
      /\ scene \in Scenes /\ scene.calls \in Nat /\ Chunk \in Nat
      /\ \A t \in Writers : todo[t] = 0 /\ calls[t] = scene.calls
  BY CdcAssumption DEF Init, EPs, Writers
<1>2. SentInOrder
  BY <1>1 DEF SentInOrder, InOrder, Off
<1>3. MadeBytes
  BY <1>1, EmptySeq, Zenon DEF MadeBytes
<1>4. Budget \in Nat /\ WithinBudget
  BY <1>1 DEF WithinBudget, Budget
<1>5. SwitchesOnce
  BY DEF Init, SwitchesOnce
<1>6. QED
  BY <1>2, <1>3, <1>4, <1>5 DEF WriterInv

\* Only one task writes when there is no contention.
LEMMA OneWriter ==
  ASSUME ~Contended
  PROVE  NoRivals /\ \A t, u \in Writers : t = u
<1>1. ASSUME NEW t \in Writers, NEW u \in Writers PROVE t = u
  <2>1. SUFFICES ASSUME t # u PROVE FALSE
    OBVIOUS
  <2>2. IsFiniteSet(Writers)
    <3>1. Writers \subseteq Task
      BY DEF Writers
    <3>2. QED
      BY <3>1, CdcAssumption, FS_Subset
  <2>3. {t, u} \subseteq Writers /\ Cardinality({t, u}) = 2
    <3>1. IsFiniteSet({u}) /\ Cardinality({u}) = 1
      BY FS_Singleton, Zenon
    <3>2. Cardinality({u} \cup {t}) = Cardinality({u}) + 1
      BY <2>1, <3>1, FS_AddElement, Zenon
    <3>3. {u} \cup {t} = {t, u}
      OBVIOUS
    <3>4. QED
      BY <3>1, <3>2, <3>3
  <2>4. Cardinality({t, u}) <= Cardinality(Writers)
    BY <2>2, <2>3, FS_Subset
  <2>5. Cardinality(Writers) \in Nat
    BY <2>2, FS_CardinalityType
  <2>6. QED
    BY <2>3, <2>4, <2>5 DEF Contended
<1>2. NoRivals
  BY <1>1 DEF NoRivals, Writers, Job
<1>3. QED
  BY <1>1, <1>2

\* The bytes are among those that the line may carry.
LEMMA BudgetBytes ==
  ASSUME TypeOK, NEW n \in Nat, n <= Budget, NEW t \in Task
  PROVE  0 .. n \subseteq LineByte
<1>1. Budget \in Nat /\ MaxBytes \in Nat
  BY CdcAssumption DEF Budget, TypeOK, TasksOK
<1>2. Cardinality(Task) \in Nat /\ Cardinality(Task) >= 1
  BY CdcAssumption, FS_CardinalityType, FS_EmptySet
<1>3. Budget * Cardinality(Task) >= Budget
  BY <1>1, <1>2
<1>4. LineByte = 0 .. MaxBytes + Budget * Cardinality(Task)
  BY DEF LineByte, Budget
<1>5. Budget * Cardinality(Task) \in Nat
  BY <1>1, <1>2
<1>6. QED
  BY <1>1, <1>3, <1>4, <1>5

HostSideKept == LineHost' = LineHost /\ LineReceived' = LineReceived

\* Steps that do not concern the direction to the host.
LEMMA WriterFrame ==
  ASSUME WriterInv, UNCHANGED <<scene, tx, made, host.last>>, bank'["in"] = bank["in"],
         ep'["in"].busy = ep["in"].busy, ep'["in"].job = ep["in"].job,
         ep'["in"].on = ep["in"].on,
         \A t \in Writers : pc'[t] = pc[t] /\ todo'[t] = todo[t] /\ calls'[t] = calls[t]
  PROVE  WriterInv' /\ HostSideKept
<1>1. Writers' = Writers /\ (Contended' <=> Contended) /\ Budget' = Budget
  BY DEF Writers, Contended, Job, Budget
<1>2. SentInOrder' /\ MadeBytes'
  BY DEF WriterInv, SentInOrder, InOrder, MadeBytes
<1>3. WithinBudget' /\ SwitchesOnce'
  BY <1>1 DEF WriterInv, WithinBudget, SwitchesOnce
<1>4. HostSideKept
  BY <1>1 DEF HostSideKept, LineHost, LineReceived, ToHost, Up
<1>5. QED
  BY <1>2, <1>3, <1>4 DEF WriterInv

\* udi_cdc_tx_send sends the buffers in the order in which they were filled.
LEMMA TxSendOrder ==
  ASSUME NEW t \in TxState, NEW x \in Endpoint("in"), NEW now \in Nat,
         InOrder(t, x), NEW r, r = TxSend(t, x, now)
  PROVE  /\ r[1] \in TxState /\ r[2] \in Endpoint("in") /\ SameFlags(x, r[2])
         /\ r[1].buf = t.buf /\ r[1].both = t.both
         /\ InOrder(r[1], r[2])
         /\ Spare(t) => Buffered(r[1]) = Buffered(t)
<1> DEFINE b == IF t.both THEN Other(t.sel) ELSE t.sel
           u == [t EXCEPT !.ongoing = TRUE, !.sel = Other(b),
                          !.sof = IF Len(t.buf[b]) # Size THEN now ELSE 0]
<1>1. /\ r[1] \in TxState /\ r[2] \in Endpoint("in") /\ SameFlags(x, r[2])
      /\ r[1].buf = t.buf /\ r[1].both = t.both
  BY TxSendFacts
<1>2. /\ t.sel \in 0..1 /\ b \in 0..1 /\ Other(b) \in 0..1 /\ Other(Other(b)) = b
      /\ Other(Other(t.sel)) = t.sel
      /\ t.buf[0] \in Seq(Nat) /\ t.buf[1] \in Seq(Nat)
  BY DEF TxState, Other
<1>3. CASE t.ongoing \/ t.sof = now
  <2>1. r = <<t, x>>
    BY <1>3 DEF TxSend
  <2>2. r[1] = t /\ r[2] = x
    BY <2>1
  <2> QED BY <1>1, <2>2 DEF InOrder
<1>4. CASE ~(t.ongoing \/ t.sof = now)
  <2>1. r = <<u, Run(x, t.buf[b])>>
    BY <1>4 DEF TxSend
  <2>2. u.buf = t.buf /\ u.ongoing /\ u.sel = Other(b)
    BY <1>2 DEF TxState
  <2>3. Run(x, t.buf[b]).busy => Run(x, t.buf[b]).job = t.buf[b]
    <3>1. ~x.busy
      BY <1>4 DEF InOrder
    <3>2. x \in [on : BOOLEAN, stalled : BOOLEAN, wanted : BOOLEAN, watch : BOOLEAN,
          busy : BOOLEAN, job : JobsOf("in") \cup {<<>>}]
      BY DEF Endpoint
    <3> QED BY <3>1, <3>2 DEF Run
  <2> HIDE DEF u
  <2>4. InOrder(r[1], r[2])
    BY <1>2, <2>1, <2>2, <2>3 DEF InOrder
  <2>5. ASSUME t.both \/ t.buf[Other(t.sel)] = <<>>
        PROVE  Buffered(r[1]) = Buffered(t)
    <3>1. r[1].buf[Other(r[1].sel)] = t.buf[b] /\ r[1].buf[r[1].sel] = t.buf[Other(b)]
      BY <1>2, <2>1, <2>2
    <3>2. CASE t.both
      BY <1>2, <3>1, <3>2, Zenon DEF Buffered
    <3>3. CASE ~t.both /\ t.buf[Other(t.sel)] = <<>>
      <4>1. b = t.sel
        BY <3>3
      <4>2. t.buf[t.sel] \in Seq(Nat)
        BY <1>2 DEF TxState
      <4>3. <<>> \o t.buf[t.sel] = t.buf[t.sel] /\ t.buf[t.sel] \o <<>> = t.buf[t.sel]
        BY <4>2, ConcatEmptySeq
      <4> HIDE DEF b
      <4> QED BY <3>1, <3>3, <4>1, <4>3, Zenon DEF Buffered
    <3> QED BY <2>5, <3>2, <3>3
  <2> QED BY <1>1, <1>4, <2>4, <2>5 DEF Spare
<1> QED BY <1>3, <1>4

\* ToHost, without regard to the grouping of its three parts.
LEMMA InLineForm ==
  ASSUME NEW S, NEW b \in Seq(Seq(S)), NEW t, t.sel \in 0..1, \A c \in 0..1 : t.buf[c] \in Seq(S)
  PROVE  /\ (FlattenSeq(b) \o t.buf[Other(t.sel)]) \o t.buf[t.sel] = InLine(b, t)
         /\ InLine(b, t) \in Seq(S)
<1> DEFINE f == FlattenSeq(b)
           x == t.buf[Other(t.sel)]
           y == t.buf[t.sel]
<1>1. f \in Seq(S) /\ x \in Seq(S) /\ y \in Seq(S)
  BY FlattenType DEF Other
<1>2. (f \o x) \o y = f \o (x \o y) /\ f \o (x \o y) \in Seq(S)
  <2> HIDE DEF f, x, y
  <2> QED BY <1>1, ConcatThree, Zenon
<1> QED BY <1>2 DEF InLine, Buffered

\* The bytes on their way to the host.
LEMMA HostBytesInOrder ==
  ASSUME TypeOK, MadeBytes
  PROVE  /\ tx.sel \in 0..1 /\ Other(tx.sel) \in 0..1 /\ Other(Other(tx.sel)) = tx.sel
         /\ FlattenSeq(bank["in"]) \in Seq(0 .. made)
         /\ tx.buf[Other(tx.sel)] \in Seq(0 .. made) /\ tx.buf[tx.sel] \in Seq(0 .. made)
         /\ ToHost \in Seq(0 .. made)
         /\ Up => ToHost = InLine(bank["in"], tx)
         /\ Up => ToHost = (FlattenSeq(bank["in"]) \o tx.buf[Other(tx.sel)]) \o tx.buf[tx.sel]
         /\ ~Up => ToHost = <<>>
<1> DEFINE S == 0 .. made
           f == FlattenSeq(bank["in"])
           a == tx.buf[Other(tx.sel)]
           b == tx.buf[tx.sel]
<1>1. tx.sel \in 0..1 /\ Other(tx.sel) \in 0..1 /\ Other(Other(tx.sel)) = tx.sel
  BY EndpointTypes DEF TxState, Other
<1>2. f \in Seq(S)
  BY FlattenType DEF MadeBytes
<1>3. a \in Seq(S) /\ b \in Seq(S)
  BY <1>1 DEF MadeBytes
<1>4. /\ Up => ToHost = (f \o a) \o b
      /\ ~Up => ToHost = <<>>
  BY Zenon DEF ToHost
<1>5. (f \o a) \o b = InLine(bank["in"], tx) /\ InLine(bank["in"], tx) \in Seq(S)
  BY <1>1, InLineForm, Zenon DEF MadeBytes
<1>6. ToHost \in Seq(S)
  BY <1>4, <1>5, EmptySeq, Zenon
<1> QED BY <1>1, <1>2, <1>3, <1>4, <1>5, <1>6

\* After a call of udi_cdc_tx_send the line is as before.
LEMMA WriterSends ==
  ASSUME TypeOK, WriterInv, UNCHANGED <<scene, pc, todo, calls, made, host.last>>,
         NEW t \in TxState, NEW x \in Endpoint("in"), NEW now \in Nat,
         InOrder(t, x), t.both => tx.both, x.on = ep["in"].on,
         \A b \in 0..1 : t.buf[b] \in Seq(0 .. made),
         bank'["in"] \in Seq(Seq(0 .. made)),
         ~Contended => Spare(t), Up => InLine(bank'["in"], t) = ToHost,
         NEW r, r = TxSend(t, x, now), tx' = r[1], ep'["in"] = r[2]
  PROVE  WriterInv' /\ HostSideKept
<1>1. /\ r[1] \in TxState /\ r[2] \in Endpoint("in") /\ SameFlags(x, r[2])
      /\ r[1].buf = t.buf /\ r[1].both = t.both
      /\ InOrder(r[1], r[2]) /\ (Spare(t) => Buffered(r[1]) = Buffered(t))
  BY TxSendOrder
<1>2. Writers' = Writers /\ (Contended' <=> Contended) /\ Budget' = Budget
  BY DEF Writers, Contended, Job, Budget
<1>3. SentInOrder' /\ MadeBytes'
  BY <1>1 DEF SentInOrder, MadeBytes
<1>4. WithinBudget' /\ SwitchesOnce'
  BY <1>1, <1>2 DEF WriterInv, WithinBudget, SwitchesOnce
<1>5. Up' <=> Up
  BY <1>1 DEF Up, SameFlags
<1>6. HostSideKept
  <2>1. LineReceived' = LineReceived
    BY <1>2 DEF LineReceived
  <2>2. CASE Contended
    BY <1>2, <2>1, <2>2 DEF HostSideKept, LineHost
  <2>3. CASE ~Contended /\ ~Up
    <3>1. ToHost' = <<>> /\ ToHost = <<>>
      BY <1>5, <2>3 DEF ToHost
    <3> QED BY <1>2, <2>1, <2>3, <3>1 DEF HostSideKept, LineHost
  <2>4. CASE ~Contended /\ Up
    <3>1. ToHost' = (FlattenSeq(bank'["in"]) \o r[1].buf[Other(r[1].sel)]) \o r[1].buf[r[1].sel]
      BY <1>5, <2>4, Zenon DEF ToHost
    <3>2. r[1].sel \in 0..1 /\ \A c \in 0..1 : r[1].buf[c] \in Seq(0 .. made)
      BY <1>1 DEF TxState
    <3>3. ToHost' = InLine(bank'["in"], r[1])
      BY <3>1, <3>2, InLineForm, ZenonT(30)
    <3>4. InLine(bank'["in"], r[1]) = InLine(bank'["in"], t)
      BY <1>1, <2>4, Zenon DEF InLine
    <3>7. ToHost' = ToHost
      BY <2>4, <3>3, <3>4
    <3> QED BY <1>2, <2>1, <2>4, <3>7 DEF HostSideKept, LineHost
  <2> QED BY <2>2, <2>3, <2>4
<1> QED BY <1>3, <1>4, <1>6 DEF WriterInv

\* The buffer that is not selected is empty, or is sent, or waits for that.
LEMMA RoomWithoutRivals ==
  ASSUME RoomInv, ~Contended
  PROVE  Roomy(tx)
BY OneWriter DEF RoomInv

\* A start of frame, and the end of a transfer: what was in a buffer is in the banks.
LEMMA WriterSof ==
  ASSUME TypeOK, WriterInv, RoomInv, Sof
  PROVE  WriterInv' /\ HostSideKept
<1>1. frame' \in Nat
  BY CdcAssumption DEF TypeOK, DriverOK, Sof
<1>2. UNCHANGED <<scene, pc, todo, calls, made, host, bank>>
  BY DEF Sof, taskVars, histVars
<1>3. CASE configured
  <2> DEFINE r == TxSend(tx, ep["in"], frame')
  <2>1. tx' = r[1] /\ ep' = [ep EXCEPT !["in"] = r[2]]
    BY <1>3 DEF Sof
  <2> HIDE DEF r
  <2>2. ep'["in"] = r[2]
    BY <2>1, EndpointTypes DEF EPs
  <2>3. ~Contended => Spare(tx)
    BY RoomWithoutRivals DEF Roomy, Spare
  <2>4. /\ Up => InLine(bank'["in"], tx) = ToHost
        /\ bank'["in"] \in Seq(Seq(0 .. made)) /\ \A b \in 0..1 : tx.buf[b] \in Seq(0 .. made)
    BY <1>2, HostBytesInOrder DEF WriterInv, MadeBytes
  <2>5. InOrder(tx, ep["in"])
    BY DEF WriterInv, SentInOrder
  <2> QED BY <1>1, <1>2, <2>1, <2>2, <2>3, <2>4, <2>5, EndpointTypes, WriterSends, Zenon DEF r
<1>4. CASE ~configured
  <2>1. UNCHANGED tx /\ ep' = [ep EXCEPT !["in"] = ep["in"]]
    BY <1>4 DEF Sof
  <2>2. ep' = ep
    BY <2>1, EndpointTypes
  <2> QED BY <1>2, <2>1, <2>2, WriterFrame
<1> QED BY <1>3, <1>4

LEMMA WriterDataSent ==
  ASSUME TypeOK, WriterInv, RoomInv, DataSent
  PROVE  WriterInv' /\ HostSideKept
<1> DEFINE done == [tx EXCEPT !.buf[Other(tx.sel)] = <<>>, !.both = FALSE, !.ongoing = FALSE]
           x    == Finished(ep["in"])
           r    == TxSend(done, x, frame)
           f    == FlattenSeq(bank["in"])
           a    == tx.buf[Other(tx.sel)]
           b    == tx.buf[tx.sel]
           S    == 0 .. made
<1>1. /\ done \in TxState /\ ~done.ongoing /\ ~done.both /\ done.sel = tx.sel
      /\ done.buf = [tx.buf EXCEPT ![Other(tx.sel)] = <<>>]
  BY EndpointTypes, DataSentFacts, Zenon
<1>2. x \in Endpoint("in") /\ SameFlags(ep["in"], x) /\ ~x.busy
  BY EndpointTypes, FinishedFacts DEF EPs
<1>3. /\ tx' = r[1] /\ ep' = [ep EXCEPT !["in"] = r[2]]
      /\ bank' = [bank EXCEPT !["in"] = Append(bank["in"], ep["in"].job)]
      /\ UNCHANGED <<scene, pc, todo, calls, made, host>>
  BY DEF DataSent, taskVars, histVars
<1>4. ep["in"].job = a /\ frame \in Nat
  BY EndpointTypes DEF DataSent, WriterInv, SentInOrder, InOrder
<1>5. /\ tx.sel \in 0..1 /\ Other(tx.sel) \in 0..1 /\ Other(tx.sel) # tx.sel
      /\ f \in Seq(S) /\ a \in Seq(S) /\ b \in Seq(S) /\ (Up => ToHost = (f \o a) \o b)
      /\ bank["in"] \in Seq(Seq(S)) /\ tx.buf \in [0..1 -> Seq(Nat)]
      /\ \A c \in 0..1 : tx.buf[c] \in Seq(S)
  <2>1. MadeBytes
    BY DEF WriterInv
  <2>2. f \in Seq(S) /\ a \in Seq(S) /\ b \in Seq(S) /\ (Up => ToHost = (f \o a) \o b)
    BY <2>1, HostBytesInOrder, Zenon
  <2>3. tx.sel \in 0..1 /\ Other(tx.sel) \in 0..1 /\ Other(tx.sel) # tx.sel
        /\ tx.buf \in [0..1 -> Seq(Nat)]
    BY EndpointTypes DEF TxState, Other
  <2> QED BY <2>1, <2>2, <2>3, Zenon DEF MadeBytes
<1>6. bank'["in"] = Append(bank["in"], a)
  BY <1>3, <1>4 DEF TypeOK, EndpointsOK, EPs
<1>7. done.buf[Other(done.sel)] = <<>> /\ done.buf[done.sel] = b
  BY <1>1, <1>5
<1>8. \A c \in 0..1 : done.buf[c] \in Seq(S)
  <2> DEFINE T == Seq(S)
  <2>1. <<>> \in T
    BY EmptySeq
  <2>2. \A c \in 0..1 : tx.buf[c] \in T
    BY <1>5
  <2> HIDE DEF done, T
  <2>3. \A c \in 0..1 : done.buf[c] \in T
    BY <1>1, <1>5, <2>1, <2>2
  <2> QED BY <2>3 DEF T
<1> HIDE DEF done, x
<1>9. ep'["in"] = r[2]
  <2> HIDE DEF r
  <2> QED BY <1>3, EndpointTypes DEF EPs
<1>10. bank'["in"] \in Seq(Seq(S))
  BY <1>5, <1>6, AppendProperties
<1>11. FlattenSeq(bank'["in"]) = f \o a
  BY <1>5, <1>6, FlattenAppend, Zenon
<1>12. <<>> \o b = b
  BY <1>5, ConcatEmptySeq
<1>13. Up => InLine(bank'["in"], done) = ToHost
  BY <1>5, <1>7, <1>11, <1>12, Zenon DEF InLine, Buffered
<1> HIDE DEF f, a, b
<1>14. x.on = ep["in"].on /\ InOrder(done, x) /\ Spare(done)
  BY <1>2, <1>7 DEF SameFlags, InOrder, Spare
<1> QED
  BY <1>1, <1>2, <1>3, <1>4, <1>7, <1>8, <1>9, <1>10, <1>13, <1>14, WriterSends, Zenon

\* The host takes a packet from the front of the line.
LEMMA WriterHostGetsData ==
  ASSUME TypeOK, WriterInv, HostGetsData, Paired
  PROVE  /\ WriterInv'
         /\ \/ HostSideKept
            \/ \E n \in 0 .. Len(LineHost) : /\ LineHost' = SubSeq(LineHost, n + 1, Len(LineHost))
                                             /\ LineReceived' = SubSeq(LineHost, 1, n)
<1> DEFINE S == 0 .. made
           p == Head(bank["in"])
           q == Tail(bank["in"])
           c == Buffered(tx)
<1>1. /\ bank["in"] # <<>> /\ bank' = [bank EXCEPT !["in"] = q] /\ Up
      /\ UNCHANGED <<ep, tx, scene, pc, todo, calls, made>> /\ host' = [host EXCEPT !.last = p]
  BY DEF HostGetsData, HostReads, taskVars, Up
<1>2. bank'["in"] = q /\ host'.last = p
  BY <1>1 DEF TypeOK, EndpointsOK, DriverOK, EPs
<1>3. /\ bank["in"] \in Seq(Seq(S)) /\ p \in Seq(S) /\ q \in Seq(Seq(S))
  BY <1>1, HeadTailProperties, Zenon DEF WriterInv, MadeBytes
<1>4. Writers' = Writers /\ (Contended' <=> Contended) /\ Budget' = Budget
  BY <1>1 DEF Writers, Contended, Job, Budget
<1>5. WriterInv'
  BY <1>1, <1>2, <1>3, <1>4 DEF WriterInv, SentInOrder, MadeBytes, WithinBudget, SwitchesOnce
<1>6. CASE Contended
  BY <1>4, <1>5, <1>6 DEF HostSideKept, LineHost, LineReceived
<1>7. CASE ~Contended
  <2>1. FlattenSeq(bank["in"]) = p \o FlattenSeq(q)
    BY <1>1, <1>3, FlattenHead, Zenon
  <2>2. /\ ToHost = FlattenSeq(bank["in"]) \o c
        /\ tx.buf[Other(tx.sel)] \in Seq(S) /\ tx.buf[tx.sel] \in Seq(S)
    BY <1>1, HostBytesInOrder DEF WriterInv, InLine
  <2>3. ToHost' = FlattenSeq(q) \o c
    <3>1. ToHost' = (FlattenSeq(q) \o tx.buf[Other(tx.sel)]) \o tx.buf[tx.sel]
      BY <1>1, <1>2, Zenon DEF ToHost, Up
    <3>2. tx.sel \in 0..1 /\ \A b \in 0..1 : tx.buf[b] \in Seq(S)
      BY EndpointTypes DEF TxState, WriterInv, MadeBytes
    <3>3. ToHost' = InLine(q, tx)
      BY <1>3, <3>1, <3>2, InLineForm, Zenon
    <3> QED BY <3>3 DEF InLine
  <2>4. FlattenSeq(q) \in Seq(S) /\ c \in Seq(S)
    BY <1>3, <2>2, FlattenType, ConcatProperties DEF Buffered
  <2> HIDE DEF p, q, c, S
  <2>5. ToHost = p \o ToHost' /\ ToHost' \in Seq(S)
    <3> DEFINE f == FlattenSeq(q)
    <3>1. f \in Seq(S) /\ ToHost = (p \o f) \o c /\ ToHost' = f \o c
      BY <2>1, <2>2, <2>3, <2>4
    <3> HIDE DEF f
    <3>2. p \in Seq(S) /\ c \in Seq(S)
      BY <1>3, <2>4
    <3>3. (p \o f) \o c = p \o (f \o c)
      BY <3>1, <3>2, ConcatThree
    <3>4. f \o c \in Seq(S)
      BY <3>1, <3>2, ConcatProperties
    <3> QED BY <3>1, <3>3, <3>4
  <2>6. /\ SubSeq(ToHost, 1, Len(p)) = p
        /\ SubSeq(ToHost, Len(p) + 1, Len(ToHost)) = ToHost'
        /\ Len(p) \in 0 .. Len(ToHost)
    BY <1>3, <2>5, ConcatFront
  <2>7. LineHost = ToHost /\ LineHost' = ToHost' /\ LineReceived' = p
    BY <1>2, <1>4, <1>7 DEF LineHost, LineReceived
  <2> QED BY <1>5, <2>6, <2>7, Zenon
<1> QED BY <1>6, <1>7

HostSideCut == LineHost' = <<>> /\ LineReceived' = LineReceived

\* A direction that is off, or enabled anew, carries nothing.
LEMMA WriterOff ==
  ASSUME TypeOK, WriterInv, UNCHANGED <<scene, pc, todo, calls, made, tx, host.last>>,
         bank'["in"] = <<>>, ep'["in"] = Freed(ep["in"])
  PROVE  WriterInv' /\ HostSideCut
<1>1. ~ep'["in"].busy /\ ~ep'["in"].on
  BY EndpointTypes, FreedFacts, Zenon DEF EPs
<1>2. Writers' = Writers /\ (Contended' <=> Contended) /\ Budget' = Budget
  BY DEF Writers, Contended, Job, Budget
<1>3. WriterInv'
  BY <1>1, <1>2, EmptySeq DEF WriterInv, SentInOrder, InOrder, MadeBytes, WithinBudget, SwitchesOnce
<1>4. HostSideCut
  BY <1>1, <1>2 DEF HostSideCut, LineHost, LineReceived, ToHost, Up
<1> QED BY <1>3, <1>4

LEMMA WriterOn ==
  ASSUME TypeOK, WriterInv, UNCHANGED <<scene, pc, todo, calls, made, host.last>>,
         bank'["in"] = <<>>, NEW out \in Endpoint("out"), NEW comm \in Endpoint("comm"),
         DataEnable(Allocated(Freed(ep["in"])), out, comm)
  PROVE  WriterInv' /\ HostSideCut
<1> DEFINE in == Allocated(Freed(ep["in"]))
           t == [ongoing |-> FALSE, both |-> FALSE, sel |-> 0, sof |-> 0,
                 buf |-> [b \in 0..1 |-> <<>>]]
           r == TxSend(t, in, frame)
<1>1. in \in Endpoint("in") /\ ~in.busy
  BY EndpointTypes, FreedFacts, AllocatedFacts, Zenon DEF EPs
<1>2. /\ tx' \in TxState /\ ~tx'.both /\ \A b \in 0..1 : tx'.buf[b] = <<>>
      /\ ep'["in"] = r[2] /\ tx' = r[1]
  <2>1. DataEnable(in, out, comm)
    OBVIOUS
  <2>2. tx' \in TxState /\ ~tx'.both /\ \A b \in 0..1 : tx'.buf[b] = <<>>
    <3> HIDE DEF in
    <3> QED BY <1>1, <2>1, DataEnableFacts
  <2>3. ep'["in"] = r[2] /\ tx' = r[1]
    BY DEF DataEnable
  <2> QED BY <2>2, <2>3
<1>3. t \in TxState
  BY DEF TxState
<1>4. InOrder(r[1], r[2])
  <2>1. InOrder(t, in)
    BY <1>1 DEF InOrder
  <2> HIDE DEF t, in
  <2> QED BY <1>1, <1>3, <2>1, EndpointTypes, TxSendOrder
<1> HIDE DEF in, t, r
<1>5. Writers' = Writers /\ (Contended' <=> Contended) /\ Budget' = Budget
  BY DEF Writers, Contended, Job, Budget
<1>6. SentInOrder'
  BY <1>2, <1>4 DEF SentInOrder
<1>7. MadeBytes'
  BY <1>2, EmptySeq, Zenon DEF MadeBytes
<1>8. WithinBudget' /\ SwitchesOnce'
  BY <1>2, <1>5 DEF WriterInv, WithinBudget, SwitchesOnce
<1>9. HostSideCut
  <2>1. tx'.sel \in 0..1 /\ Other(tx'.sel) \in 0..1
    BY <1>2 DEF TxState, Other
  <2>2. tx'.buf[tx'.sel] = <<>> /\ tx'.buf[Other(tx'.sel)] = <<>>
    BY <1>2, <2>1
  <2>3. FlattenSeq(bank'["in"]) = <<>>
    BY FlattenEmpty
  <2>4. (<<>> \o <<>>) \o <<>> = <<>>
    BY EmptySeq, ConcatEmptySeq
  <2>5. ToHost' = <<>>
    BY <2>2, <2>3, <2>4 DEF ToHost
  <2> QED BY <1>5, <2>5 DEF HostSideCut, LineHost, LineReceived
<1> QED BY <1>6, <1>7, <1>8, <1>9 DEF WriterInv

\* What a writer still puts is within its budget.
LEMMA BudgetKept ==
  ASSUME TypeOK, WriterInv, NEW t \in Writers, UNCHANGED scene, TypeOK',
         todo'[t] \in Nat, pc'[t] = "idle" => todo'[t] = 0,
         made' + todo'[t] + Chunk * calls'[t] <= made + todo[t] + Chunk * calls[t],
         pc'[t] = "switch" => ~tx'.both
  PROVE  WithinBudget' /\ SwitchesOnce'
<1>1. Writers' = Writers /\ (Contended' <=> Contended) /\ Budget' = Budget
  BY DEF Writers, Contended, Job, Budget
<1>2. SUFFICES ASSUME ~Contended PROVE WithinBudget' /\ SwitchesOnce'
  BY <1>1 DEF WithinBudget, SwitchesOnce
<1>3. \A u \in Writers : u = t
  BY <1>2, OneWriter
<1>4. made + todo[t] + Chunk * calls[t] <= Budget
  BY <1>2 DEF WriterInv, WithinBudget
<1>5. t \in Task
  BY DEF Writers
<1>6. /\ made \in Nat /\ made' \in Nat /\ todo[t] \in Int /\ calls[t] \in Nat /\ calls'[t] \in Nat
      /\ Budget \in Nat /\ Chunk \in Nat
  <2>1. made \in Nat /\ made' \in Nat
    BY DEF TypeOK, DriverOK
  <2>2. calls \in [Task -> Nat] /\ calls' \in [Task -> Nat] /\ todo \in [Task -> Int] /\ scene \in Scenes
    BY DEF TypeOK, TasksOK
  <2>3. scene.calls \in Nat /\ Chunk \in Nat
    BY <2>2, CdcAssumption
  <2> QED BY <1>5, <2>1, <2>2, <2>3 DEF Budget
<1>7. Chunk * calls[t] \in Nat /\ Chunk * calls'[t] \in Nat
  BY <1>6
<1> DEFINE c == Chunk * calls[t]
           d == Chunk * calls'[t]
<1>8. c \in Nat /\ d \in Nat /\ made' + todo'[t] + d <= made + todo[t] + c /\ made + todo[t] + c <= Budget
  BY <1>4, <1>7
<1> HIDE DEF c, d
<1>9. made' <= Budget /\ made' + todo'[t] + d <= Budget
  BY <1>6, <1>8
<1>10. made' + todo'[t] + Chunk * calls'[t] <= Budget
  BY <1>9 DEF d
<1> QED BY <1>1, <1>3, <1>9, <1>10 DEF WithinBudget, SwitchesOnce

\* The steps of a writer that move no bytes.
LEMMA WriterMovesNothing ==
  ASSUME TypeOK, WriterInv, RoomInv, NEW t \in Task, TypeOK', UNCHANGED scene,
         Put(t) \/ TestRoom(t) \/ TestRoomAgain(t) \/ Full(t)
  PROVE  /\ t \in Writers /\ UNCHANGED <<tx, ep, made>>
         /\ WithinBudget' /\ SwitchesOnce'
<1>1. /\ pc \in [Task -> Labels] /\ todo \in [Task -> Int] /\ calls \in [Task -> Nat]
      /\ made \in Nat /\ tx.both \in BOOLEAN /\ Chunk \in Nat /\ Chunk >= 1
  <2>1. pc \in [Task -> Labels] /\ todo \in [Task -> Int] /\ calls \in [Task -> Nat]
    BY DEF TypeOK, TasksOK
  <2>2. made \in Nat
    BY DEF TypeOK, DriverOK
  <2>3. tx.both \in BOOLEAN
    BY EndpointTypes DEF TxState
  <2> QED BY <2>1, <2>2, <2>3, CdcAssumption
<1>2. UNCHANGED <<tx, ep, made>>
  BY DEF Put, TestRoom, TestRoomAgain, Full
<1>3. t \in Writers
  <2>1. CASE Put(t)
    BY <2>1 DEF Put
  <2>2. CASE ~Put(t)
    <3>1. pc[t] \in WriterLabels
      BY <2>2 DEF TestRoom, TestRoomAgain, Full, At, WriterLabels
    <3> QED BY <3>1, LabelFacts DEF TypeOK
  <2> QED BY <2>1, <2>2
<1>4. CASE Put(t)
  <2>1. PICK l \in {"test", "idle"}, n \in {0, 1, Chunk} :
          Begin(t, l, n) /\ (l = "idle" => n = 0)
    BY <1>4 DEF Put
  <2>2. /\ calls'[t] = calls[t] - 1 /\ todo'[t] = n /\ pc'[t] = l /\ pc[t] = "idle" /\ calls[t] > 0
    BY <1>1, <2>1 DEF Begin, At, GoTo
  <2>3. n \in Nat /\ n <= Chunk
    BY <1>1
  <2>4. CASE Contended
    <3>1. Contended'
      BY <2>4 DEF Contended, Writers, Job
    <3> QED BY <1>2, <1>3, <3>1 DEF WithinBudget, SwitchesOnce
  <2>5. CASE ~Contended
    <3>1. todo[t] = 0
      BY <1>3, <2>2, <2>5 DEF WriterInv, WithinBudget
    <3>2. Chunk * calls'[t] = Chunk * calls[t] - Chunk /\ Chunk * calls[t] \in Int
      BY <1>1, <2>2
    <3> DEFINE c == Chunk * calls[t]
               d == Chunk * calls'[t]
    <3>3. c \in Int /\ d = c - Chunk
      BY <3>2
    <3> HIDE DEF c, d
    <3>4. made' + todo'[t] + d <= made + todo[t] + c
      BY <1>1, <1>2, <2>2, <2>3, <3>1, <3>3
    <3>5. made' + todo'[t] + Chunk * calls'[t] <= made + todo[t] + Chunk * calls[t]
      BY <3>4 DEF c, d
    <3>6. pc'[t] # "switch" /\ (pc'[t] = "idle" => todo'[t] = 0) /\ todo'[t] \in Nat
      BY <2>1, <2>2, <2>3
    <3> QED BY <1>2, <1>3, <3>5, <3>6, BudgetKept
  <2> QED BY <1>2, <1>3, <2>4, <2>5
<1>5. CASE TestRoom(t) \/ TestRoomAgain(t) \/ (Full(t) /\ running)
  <2>1. /\ UNCHANGED <<todo, calls>> /\ pc'[t] # "idle"
        /\ pc[t] \in WriterLabels /\ (pc'[t] = "switch" => ~tx.both)
    BY <1>1, <1>5 DEF TestRoom, TestRoomAgain, Full, GoTo, At, WriterLabels
  <2>2. todo[t] \in Nat /\ calls[t] \in Nat
    BY <1>1, <2>1, LabelFacts DEF TypeOK
  <2>3. made' + todo'[t] + Chunk * calls'[t] <= made + todo[t] + Chunk * calls[t]
    <3>1. Chunk * calls[t] \in Int
      BY <1>1
    <3> QED BY <1>1, <1>2, <2>1, <2>2, <3>1
  <2> QED BY <1>2, <1>3, <2>1, <2>2, <2>3, BudgetKept
<1>6. CASE Full(t) /\ ~running
  <2>1. /\ UNCHANGED calls /\ pc'[t] = "idle" /\ todo'[t] = 0 /\ pc[t] \in WriterLabels
    BY <1>1, <1>6 DEF Full, Abandon, GoTo, At, WriterLabels
  <2>2. todo[t] \in Nat /\ calls[t] \in Nat
    BY <1>1, <2>1, LabelFacts DEF TypeOK
  <2>3. made' + todo'[t] + Chunk * calls'[t] <= made + todo[t] + Chunk * calls[t]
    <3>1. Chunk * calls[t] \in Int
      BY <1>1
    <3> QED BY <1>1, <1>2, <2>1, <2>2, <3>1
  <2> QED BY <1>2, <1>3, <2>1, <2>2, <2>3, BudgetKept
<1> QED BY <1>4, <1>5, <1>6

\* The switch of the buffers does not overtake the bytes that are being sent.
LEMMA WriterSwitches ==
  ASSUME TypeOK, WriterInv, RoomInv, NEW t \in Task, TypeOK', UNCHANGED <<scene, bank, host>>,
         SwitchBuffer(t)
  PROVE  WriterInv' /\ HostSideKept
<1>1. /\ pc[t] = "switch" /\ pc' = [pc EXCEPT ![t] = "again"]
      /\ tx' = IF tx.ongoing THEN tx ELSE [tx EXCEPT !.both = TRUE, !.sel = Other(tx.sel)]
      /\ UNCHANGED <<todo, calls, made, ep>>
  BY DEF SwitchBuffer, At, GoTo
<1>2. pc \in [Task -> Labels] /\ calls \in [Task -> Nat] /\ made \in Nat /\ Chunk \in Nat
  BY CdcAssumption, Zenon DEF TypeOK, TasksOK, DriverOK
<1>3. t \in Writers /\ todo[t] \in Nat
  BY <1>1, LabelFacts DEF TypeOK, WriterLabels
<1>4. WithinBudget' /\ SwitchesOnce'
  <2>1. made' + todo'[t] + Chunk * calls'[t] <= made + todo[t] + Chunk * calls[t]
    <3>1. Chunk * calls[t] \in Int
      BY <1>2
    <3> QED BY <1>1, <1>2, <1>3, <3>1
  <2>2. pc'[t] # "idle" /\ pc'[t] # "switch"
    BY <1>1, <1>2
  <2> QED BY <1>1, <1>3, <2>1, <2>2, BudgetKept
<1>5. Writers' = Writers /\ (Contended' <=> Contended)
  BY DEF Writers, Contended, Job
<1>6. CASE tx.ongoing
  <2>1. tx' = tx
    BY <1>1, <1>6
  <2>2. SentInOrder' /\ MadeBytes'
    BY <1>1, <2>1 DEF WriterInv, SentInOrder, InOrder, MadeBytes
  <2>3. HostSideKept
    BY <1>1, <1>5, <2>1, Zenon DEF HostSideKept, LineHost, LineReceived, ToHost, Up
  <2> QED BY <1>4, <2>2, <2>3 DEF WriterInv
<1>7. CASE ~tx.ongoing
  <2>1. /\ tx'.buf = tx.buf /\ tx'.sel = Other(tx.sel) /\ tx.sel \in 0..1
        /\ Other(tx.sel) \in 0..1 /\ Other(Other(tx.sel)) = tx.sel
    BY <1>1, <1>7, EndpointTypes DEF TxState, Other
  <2>2. ~ep["in"].busy
    BY <1>7 DEF WriterInv, SentInOrder, InOrder
  <2>3. SentInOrder' /\ MadeBytes'
    BY <1>1, <2>1, <2>2 DEF WriterInv, SentInOrder, InOrder, MadeBytes
  <2>4. LineReceived' = LineReceived
    BY <1>5 DEF LineReceived
  <2>5. CASE Contended
    BY <1>4, <1>5, <2>3, <2>4, <2>5 DEF WriterInv, HostSideKept, LineHost
  <2>6. CASE ~Contended
    <3>1. tx.buf[Other(tx.sel)] = <<>>
      BY <1>1, <1>3, <1>7, <2>6, RoomWithoutRivals DEF Roomy, WriterInv, SwitchesOnce
    <3>2. tx.buf[tx.sel] \in Seq(0 .. made) /\ FlattenSeq(bank["in"]) \in Seq(0 .. made)
      BY HostBytesInOrder DEF WriterInv
    <3> DEFINE f == FlattenSeq(bank["in"])
               b == tx.buf[tx.sel]
               S == 0 .. made
    <3>3. /\ ToHost = IF Up THEN (f \o <<>>) \o b ELSE <<>>
          /\ ToHost' = IF Up THEN (f \o b) \o <<>> ELSE <<>>
      <4>1. Up' <=> Up
        BY <1>1 DEF Up
      <4>2. tx'.buf[Other(tx'.sel)] = b /\ tx'.buf[tx'.sel] = <<>>
        BY <2>1, <3>1
      <4> QED BY <3>1, <4>1, <4>2 DEF ToHost
    <3>4. f \in Seq(S) /\ b \in Seq(S)
      BY <3>2
    <3> HIDE DEF f, b, S
    <3>5. f \o b \in Seq(S)
      BY <3>4, ConcatProperties
    <3>6. f \o <<>> = f /\ (f \o b) \o <<>> = f \o b
      BY <3>4, <3>5, ConcatEmptySeq
    <3>7. ToHost' = ToHost
      BY <3>3, <3>6
    <3> QED BY <1>4, <1>5, <2>3, <2>4, <2>6, <3>7 DEF WriterInv, HostSideKept, LineHost
  <2> QED BY <2>5, <2>6
<1> QED BY <1>6, <1>7

HostSidePut ==
  /\ LineHost' \in Seq(LineByte) /\ IsStrictPrefix(LineHost, LineHost')
  /\ LineReceived' = LineReceived

LEMMA WriterWrites ==
  ASSUME TypeOK, WriterInv, NEW t \in Task, TypeOK', UNCHANGED <<scene, bank, host>>,
         Write(t), ~Overrun
  PROVE  WriterInv' /\ (HostSideKept \/ HostSidePut)
<1> DEFINE n == IF Job(t) = "putc" THEN 1 ELSE Least(Size - Len(tx.buf[tx.sel]), todo[t])
           p == [i \in 1..n |-> made + i]
           f == [tx.buf EXCEPT ![tx.sel] = tx.buf[tx.sel] \o p]
<1>1. /\ pc[t] = "write" /\ GoTo(t, IF todo[t] = n THEN "idle" ELSE "test")
      /\ tx' = [tx EXCEPT !.buf = f] /\ made' = made + n
      /\ todo' = [todo EXCEPT ![t] = todo[t] - n] /\ UNCHANGED <<calls, ep>>
  BY DEF Write, At
<1>2. /\ pc \in [Task -> Labels] /\ calls \in [Task -> Nat] /\ todo \in [Task -> Int]
      /\ made \in Nat /\ Chunk \in Nat
  BY CdcAssumption, Zenon DEF TypeOK, TasksOK, DriverOK
<1>3. t \in Writers /\ todo[t] \in Nat /\ (Job(t) = "putc" => todo[t] = 1)
  BY <1>1, LabelFacts DEF TypeOK, WriterLabels
<1>4. /\ tx.sel \in 0..1 /\ Other(tx.sel) \in 0..1 /\ Other(tx.sel) # tx.sel
      /\ tx.buf \in [0..1 -> Seq(Nat)]
  BY EndpointTypes DEF TxState, Other
<1>5. n \in Nat /\ n <= todo[t]
  <2>1. Len(tx.buf[tx.sel]) \in Nat /\ Len(tx.buf[tx.sel]) <= Size
    BY <1>4, CdcAssumption DEF Overrun
  <2> QED BY <1>3, <2>1, CdcAssumption DEF Least
<1> HIDE DEF n
<1>6. p \in Seq(0 .. made + n) /\ Len(p) = n
  BY <1>2, <1>5
<1>7. \A b \in 0..1 : tx.buf[b] \in Seq(0 .. made) /\ tx.buf[b] \in Seq(0 .. made + n)
  <2>1. 0 .. made \subseteq 0 .. made + n
    BY <1>2, <1>5
  <2> QED BY <2>1, SeqMonotonic, Zenon DEF WriterInv, MadeBytes
<1> HIDE DEF p
<1>8. \A b \in 0..1 : f[b] \in Seq(0 .. made + n)
  <2>1. tx.buf[tx.sel] \o p \in Seq(0 .. made + n)
    BY <1>4, <1>6, <1>7, ConcatProperties
  <2> QED BY <1>4, <1>7, <2>1, Zenon
<1>9. f[Other(tx.sel)] = tx.buf[Other(tx.sel)] /\ f[tx.sel] = tx.buf[tx.sel] \o p
  BY <1>4, Zenon
<1> HIDE DEF f
<1>10. tx'.buf = f /\ tx'.sel = tx.sel /\ tx'.both = tx.both /\ tx'.ongoing = tx.ongoing
  BY <1>1, EndpointTypes DEF TxState
<1>11. SentInOrder'
  BY <1>1, <1>9, <1>10 DEF WriterInv, SentInOrder, InOrder
<1>12. MadeBytes'
  <2>1. Seq(0 .. made) \subseteq Seq(0 .. made + n)
    <3>1. 0 .. made \subseteq 0 .. made + n
      BY <1>2, <1>5
    <3> QED BY <3>1, SeqMonotonic, Zenon
  <2>2. bank["in"] \in Seq(Seq(0 .. made + n))
    BY <2>1, SeqMonotonic DEF WriterInv, MadeBytes
  <2> QED BY <1>1, <1>8, <1>10, <2>2 DEF MadeBytes
<1>13. WithinBudget' /\ SwitchesOnce'
  <2>1. pc'[t] # "switch" /\ (pc'[t] = "idle" => todo'[t] = 0) /\ todo'[t] = todo[t] - n
    BY <1>1, <1>2, <1>3, <1>5 DEF GoTo
  <2>2. made' + todo'[t] + Chunk * calls'[t] <= made + todo[t] + Chunk * calls[t]
    <3>1. Chunk * calls[t] \in Int
      BY <1>2
    <3> QED BY <1>1, <1>2, <1>3, <1>5, <2>1, <3>1
  <2> QED BY <1>3, <1>5, <2>1, <2>2, BudgetKept
<1>14. WriterInv'
  BY <1>11, <1>12, <1>13 DEF WriterInv
<1>15. Writers' = Writers /\ (Contended' <=> Contended) /\ LineReceived' = LineReceived
  BY DEF Writers, Contended, Job, LineReceived
<1>16. CASE Contended \/ ~Up
  <2>1. Up' <=> Up
    BY <1>1 DEF Up
  <2>2. LineHost' = LineHost
    BY <1>15, <1>16, <2>1 DEF LineHost, ToHost
  <2> QED BY <1>14, <1>15, <2>2 DEF HostSideKept
<1>17. CASE ~Contended /\ Up
  <2> DEFINE h == FlattenSeq(bank["in"]) \o tx.buf[Other(tx.sel)]
             b == tx.buf[tx.sel]
             S == 0 .. made + n
  <2>1. ToHost = h \o b /\ ToHost' = h \o (b \o p)
    BY <1>1, <1>9, <1>10, <1>17, Zenon DEF ToHost, Up
  <2>2. h \in Seq(0 .. made)
    BY <1>4, <1>7, HostBytesInOrder, ConcatProperties DEF WriterInv
  <2>3. h \in Seq(S) /\ b \in Seq(S) /\ p \in Seq(S) /\ Len(p) = n
    <3>1. 0 .. made \subseteq S
      BY <1>2, <1>5
    <3> QED BY <1>4, <1>6, <1>7, <2>2, <3>1, SeqMonotonic, Zenon
  <2>4. 0 .. made + n \subseteq LineByte
    <3>1. made' <= Budget /\ made' = made + n
      BY <1>1, <1>13, <1>15, <1>17 DEF WithinBudget, Budget
    <3> QED BY <1>2, <1>5, <3>1, BudgetBytes
  <2>5. S \subseteq LineByte
    BY <2>4
  <2>6. LineHost = ToHost /\ LineHost' = ToHost'
    BY <1>15, <1>17 DEF LineHost
  <2> HIDE DEF h, b, S
  <2>7. ToHost' = ToHost \o p /\ ToHost \in Seq(S) /\ ToHost' \in Seq(S)
    <3>1. (h \o b) \o p = h \o (b \o p)
      BY <2>3, ConcatThree
    <3>2. h \o b \in Seq(S)
      BY <2>3, ConcatProperties
    <3>3. (h \o b) \o p \in Seq(S)
      BY <2>3, <3>2, ConcatProperties
    <3> QED BY <2>1, <3>1, <3>2, <3>3
  <2>8. CASE n = 0
    <3>1. p = <<>>
      BY <2>3, <2>8, EmptySeq
    <3>2. ToHost' = ToHost
      BY <2>7, <3>1, ConcatEmptySeq
    <3> QED BY <1>14, <1>15, <2>6, <3>2 DEF HostSideKept
  <2>9. CASE n # 0
    <3>1. p # <<>>
      BY <2>3, <2>9, EmptySeq
    <3>2. IsPrefix(ToHost, ToHost') /\ ToHost # ToHost'
      BY <2>3, <2>7, <3>1, ConcatFront
    <3>3. ToHost' \in Seq(LineByte)
      BY <2>5, <2>7, SeqMonotonic
    <3> QED BY <1>14, <1>15, <2>6, <3>2, <3>3 DEF HostSidePut, IsStrictPrefix
  <2> QED BY <2>8, <2>9
<1> QED BY <1>16, <1>17

-----------------------------------------------------------------------------
(* The direction from the host.  The invariant has three layers, one for each *)
(* degree of trust: a reader never leaves its buffer; while there is trust in *)
(* the line, jobs fill the buffer that is not read; while the line is firm, the *)
(* reader reads only what is there.                                          *)

\* The bytes that the host sends, and those of its packets when it has sent n.
HostByte == 0 .. MaxBytes
HostPackets(n) == {p \in Seq(HostByte) : Len(p) <= Size /\ Len(p) <= n}

\* The buffers for the reader, when the host has sent n bytes.
Filled(r, n) ==
  /\ r.pos \in 0 .. Size
  /\ \A b \in 0..1 : /\ r.buf[b] \in [1..Size -> HostByte]
                     /\ r.nb[b] <= Size /\ r.nb[b] <= n

\* What is left for the reader in the buffer it reads, and in the other one.
Left(r)   == SubSeq(r.buf[r.sel], r.pos + 1, r.nb[r.sel])
Queued(r) == IF r.ongoing THEN <<>> ELSE SubSeq(r.buf[Other(r.sel)], 1, r.nb[Other(r.sel)])

\* A reader never leaves its buffer, whatever befalls the line.
InBuffer(t, r) ==
  /\ pc[t] = "compare" =>
       \/ seen[t][1] = "sel" /\ seen[t][2] \in 0..1 /\ (seen[t][2] = r.sel \/ r.pos = 0)
       \/ seen[t][1] = "pos" /\ seen[t][2] \in Nat /\ (seen[t][2] = r.pos \/ r.pos = 0)
  /\ pc[t] = "read" => r.pos = 0 \/ Unread(r)
  /\ pc[t] = "advance" /\ Job(t) = "getc" => r.pos < Size /\ seen[t][2] \in HostByte
  /\ pc[t] = "advance" /\ Job(t) = "read_buf" =>
       seen[t][2] \in 0 .. todo[t] /\ r.pos + seen[t][2] <= Size
  /\ Job(t) = "read_buf" /\ pc[t] # "idle" => todo[t] \in Nat

\* While there is trust in the line, a job x fills the buffer that is not read,
InTurn(r, x) == x.busy => r.ongoing /\ x.job = <<Other(r.sel)>>

\* and a reader takes no more than there is and starts the job that it has claimed.
Orderly(t, r, x) ==
  /\ pc[t] = "run" => seen[t][2] = Other(r.sel) /\ r.ongoing /\ ~x.busy
  /\ pc[t] = "advance" /\ Job(t) = "read_buf" =>
       seen[t][2] = 0 \/ r.pos + seen[t][2] <= r.nb[r.sel]

\* While the line is firm, it reads only what there is.
Exact(t, r) ==
  /\ pc[t] = "compare" =>
       \/ r.pos = 0 /\ Unread(r)
       \/ seen[t][1] = "sel" /\ seen[t][2] = r.sel
       \/ seen[t][1] = "pos" /\ seen[t][2] = r.pos
  /\ pc[t] = "read" => Unread(r)
  /\ pc[t] = "advance" /\ Job(t) = "getc" =>
       Unread(r) /\ seen[t][2] = r.buf[r.sel][r.pos + 1]

\* The direction from the host: bytes that it has sent, in buffers and in banks,
HostBytes ==
  /\ sent \in HostByte /\ delivered \in HostByte /\ trust \in {"firm", "weak", "none"}
  /\ Filled(rx, sent) /\ bank["out"] \in Seq(HostPackets(sent))

\* in order while there is trust in the line,
Trusted ==
  Up /\ trust # "none" =>
    InTurn(rx, ep["out"]) /\ \A t \in Readers : Orderly(t, rx, ep["out"])

\* without empty packets while it is firm.
FirmLine ==
  Up /\ trust = "firm" =>
    /\ bank["out"] \in Seq(Seq(HostByte) \ {<<>>})
    /\ \A t \in Readers : Exact(t, rx)

\* The inductive invariant of the direction from the host.
ReaderInv ==
  /\ HostBytes /\ \A t \in Readers : InBuffer(t, rx)
  /\ Trusted /\ FirmLine

LEMMA ReaderInit == Init => ReaderInv
<1> SUFFICES ASSUME Init PROVE ReaderInv
  OBVIOUS
<1>1. /\ sent = 0 /\ delivered = 0 /\ trust = "firm" /\ bank["out"] = <<>> /\ rx.pos = 0
      /\ \A b \in 0..1 : rx.buf[b] = [i \in 1..Size |-> 0] /\ rx.nb[b] = 0
      /\ ~Up /\ \A t \in Task : pc[t] = "idle"
  BY DEF Init, EPs, Up, Off
<1>2. 0 \in HostByte /\ 0 \in 0 .. Size /\ 0 <= Size
  BY CdcAssumption DEF HostByte
<1>3. HostBytes
  BY <1>1, <1>2, EmptySeq DEF HostBytes, Filled
<1>4. \A t \in Readers : InBuffer(t, rx)
  BY <1>1 DEF InBuffer, Readers
<1> QED BY <1>1, <1>3, <1>4 DEF ReaderInv, Trusted, FirmLine

\* The buffers, and what is left in them.
LEMMA FilledFacts ==
  ASSUME NEW r \in RxState, NEW n, Filled(r, n)
  PROVE  /\ r.sel \in 0..1 /\ Other(r.sel) \in 0..1 /\ Other(r.sel) # r.sel
         /\ Other(Other(r.sel)) = r.sel /\ r.pos \in Nat /\ r.pos <= Size
         /\ \A b \in 0..1 : /\ r.buf[b] \in Seq(HostByte) /\ Len(r.buf[b]) = Size
                            /\ r.nb[b] \in Nat /\ r.nb[b] <= Size /\ r.nb[b] <= n
                            /\ \A i \in 1..Size : r.buf[b][i] \in HostByte
         /\ Size \in Nat
<1>1. Size \in Nat
  BY CdcAssumption
<1>2. r.sel \in 0..1 /\ \A b \in 0..1 : r.nb[b] \in Nat
  BY DEF RxState
<1>3. Other(r.sel) \in 0..1 /\ Other(r.sel) # r.sel /\ Other(Other(r.sel)) = r.sel
  BY <1>2 DEF Other
<1>4. \A b \in 0..1 : r.buf[b] \in [1..Size -> HostByte]
  BY DEF Filled
<1>5. \A b \in 0..1 : r.buf[b] \in Seq(HostByte) /\ Len(r.buf[b]) = Size
  BY <1>1, <1>4
<1> QED BY <1>1, <1>2, <1>3, <1>4, <1>5 DEF Filled

LEMMA LeftFacts ==
  ASSUME NEW r \in RxState, NEW n, Filled(r, n)
  PROVE  /\ Left(r) \in Seq(HostByte) /\ Queued(r) \in Seq(HostByte)
         /\ ~Unread(r) => Left(r) = <<>>
         /\ Unread(r) => Left(r) # <<>> /\ Left(r)[1] = r.buf[r.sel][r.pos + 1]
         /\ Unread(r) => Len(Left(r)) = r.nb[r.sel] - r.pos
<1> DEFINE s == r.buf[r.sel]
           k == r.pos
           m == r.nb[r.sel]
<1>1. /\ s \in Seq(HostByte) /\ Len(s) = Size /\ k \in Nat /\ m \in Nat /\ m <= Size /\ Size \in Nat
      /\ \A i \in 1..Size : s[i] \in HostByte
  BY FilledFacts
<1>2. Left(r) = SubSeq(s, k + 1, m) /\ (Unread(r) <=> k < m)
  BY DEF Left, Unread
<1> HIDE DEF s, k, m
<1>3. /\ SubSeq(s, k + 1, m) \in Seq(HostByte)
      /\ Len(SubSeq(s, k + 1, m)) = IF k + 1 <= m THEN m - (k + 1) + 1 ELSE 0
      /\ \A i \in 1 .. m - (k + 1) + 1 : SubSeq(s, k + 1, m)[i] = s[(k + 1) + i - 1]
  <2>1. k + 1 \in Int /\ m \in Int /\ \A i \in k + 1 .. m : s[i] \in HostByte
    BY <1>1
  <2> QED BY <2>1, SubSeqProperties
<1>4. Unread(r) => Len(Left(r)) = m - k /\ Left(r) # <<>> /\ Left(r)[1] = s[k + 1]
  <2> SUFFICES ASSUME k < m PROVE Len(Left(r)) = m - k /\ Left(r) # <<>> /\ Left(r)[1] = s[k + 1]
    BY <1>2, Zenon
  <2>1. k + 1 <= m /\ m - (k + 1) + 1 = m - k /\ 1 \in 1 .. m - (k + 1) + 1 /\ (k + 1) + 1 - 1 = k + 1
    BY <1>1
  <2>2. Len(Left(r)) = m - k /\ Left(r)[1] = s[k + 1]
    BY <1>2, <1>3, <2>1
  <2>3. Left(r) # <<>>
    BY <1>1, <2>2, EmptySeq
  <2> QED BY <2>2, <2>3
<1>5. ~Unread(r) => Left(r) = <<>>
  <2> SUFFICES ASSUME ~(k < m) PROVE Left(r) = <<>>
    BY <1>2
  <2>1. k + 1 \in Int /\ m \in Int /\ m < k + 1
    BY <1>1
  <2> QED BY <1>2, <2>1, SubSeqEmpty
<1>6. Queued(r) \in Seq(HostByte)
  <2>1. /\ \A i \in 1 .. r.nb[Other(r.sel)] : r.buf[Other(r.sel)][i] \in HostByte
        /\ r.nb[Other(r.sel)] \in Int
    BY FilledFacts
  <2>2. SubSeq(r.buf[Other(r.sel)], 1, r.nb[Other(r.sel)]) \in Seq(HostByte)
    BY <2>1, SubSeqProperties
  <2> QED BY <2>2, EmptySeq DEF Queued
<1>7. Left(r) \in Seq(HostByte)
  BY <1>2, <1>3
<1> QED BY <1>4, <1>5, <1>6, <1>7 DEF s, k, m

\* udi_cdc_rx_start goes to the other buffer when the reader has come to the end of
\* its own: nothing is lost.
LEMMA SwitchedQueue ==
  ASSUME NEW r \in RxState, NEW n, Filled(r, n)
  PROVE  /\ Filled(Switched(r), n) /\ Switched(r) \in RxState
         /\ Switched(r).pos = 0 /\ Switched(r).sel = Other(r.sel) /\ Switched(r).ongoing
         /\ Switched(r).nb = r.nb /\ Switched(r).buf = r.buf
         /\ Queued(Switched(r)) = <<>>
         /\ ~r.ongoing => Left(Switched(r)) = Queued(r)
<1>1. r.sel \in 0..1 /\ Other(r.sel) \in 0..1 /\ Size \in Nat
  BY FilledFacts
<1>2. /\ Switched(r).pos = 0 /\ Switched(r).sel = Other(r.sel) /\ Switched(r).ongoing
      /\ Switched(r).nb = r.nb /\ Switched(r).buf = r.buf
  BY DEF Switched, RxState
<1>3. Switched(r) \in RxState
  BY SwitchedFacts
<1> DEFINE q == Switched(r)
<1> HIDE DEF q
<1>4. q.pos = 0 /\ q.sel = Other(r.sel) /\ q.ongoing /\ q.nb = r.nb /\ q.buf = r.buf
  BY <1>2 DEF q
<1>5. Filled(q, n)
  BY <1>1, <1>4 DEF Filled
<1>6. Queued(q) = <<>> /\ (~r.ongoing => Left(q) = Queued(r))
  <2>1. Left(q) = SubSeq(r.buf[Other(r.sel)], q.pos + 1, r.nb[Other(r.sel)]) /\ q.pos + 1 = 1
    BY <1>4 DEF Left
  <2>2. ~r.ongoing => Queued(r) = SubSeq(r.buf[Other(r.sel)], 1, r.nb[Other(r.sel)])
    BY Zenon DEF Queued
  <2>3. Queued(q) = <<>>
    BY <1>4 DEF Queued
  <2> QED BY <2>1, <2>2, <2>3
<1> QED BY <1>2, <1>3, <1>5, <1>6 DEF q

\* udi_cdc_data_recevied: the packet is in the buffer that was filled.
Arrived(r, b, p) ==
  [r EXCEPT !.nb[Other(r.sel)] = Len(p), !.ongoing = FALSE,
            !.buf[b] = [i \in 1..Size |-> IF i <= Len(p) THEN p[i] ELSE @[i]]]

LEMMA ArrivedQueue ==
  ASSUME NEW r \in RxState, NEW n, Filled(r, n), NEW p \in HostPackets(n), NEW b \in 0..1,
         NEW d, d = Arrived(r, b, p)
  PROVE  /\ d \in RxState /\ Filled(d, n) /\ d.sel = r.sel /\ d.pos = r.pos /\ ~d.ongoing
         /\ d.nb[r.sel] = r.nb[r.sel] /\ d.nb[Other(r.sel)] = Len(p)
         /\ b = Other(r.sel) =>
              Left(d) = Left(r) /\ Queued(d) = p /\ d.buf[r.sel] = r.buf[r.sel]
<1> DEFINE o == Other(r.sel)
           g == [i \in 1..Size |-> IF i <= Len(p) THEN p[i] ELSE r.buf[b][i]]
           nb == [r.nb EXCEPT ![o] = Len(p)]
           bf == [r.buf EXCEPT ![b] = g]
<1>1. /\ r.sel \in 0..1 /\ o \in 0..1 /\ o # r.sel /\ Size \in Nat
      /\ \A c \in 0..1 : r.nb[c] \in Nat /\ \A i \in 1..Size : r.buf[c][i] \in HostByte
  BY FilledFacts
<1>2. p \in Seq(HostByte) /\ Len(p) \in Nat /\ Len(p) <= Size /\ Len(p) <= n
  BY DEF HostPackets
<1>3. g \in [1..Size -> HostByte]
  <2>1. ASSUME NEW i \in 1..Size PROVE g[i] \in HostByte
    <3>1. CASE i <= Len(p)
      <4>1. i \in 1 .. Len(p)
        BY <1>1, <1>2, <3>1
      <4>2. p[i] \in HostByte
        BY <1>2, <4>1
      <4> QED BY <3>1, <4>2
    <3>2. CASE ~(i <= Len(p))
      BY <1>1, <3>2
    <3> QED BY <3>1, <3>2
  <2> QED BY <2>1
<1>4. HostByte \subseteq Nat
  BY DEF HostByte
<1>5. d = [r EXCEPT !.nb = nb, !.ongoing = FALSE, !.buf = bf]
  BY DEF Arrived
<1>6. g \in [1..Size -> Nat]
  BY <1>3, <1>4
<1>7. \A i \in 1 .. Len(p) : g[i] = p[i]
  BY <1>1, <1>2
<1> HIDE DEF g
<1>8. /\ nb \in [0..1 -> Nat] /\ nb[o] = Len(p) /\ nb[r.sel] = r.nb[r.sel]
      /\ bf \in [0..1 -> [1..Size -> Nat]] /\ bf[b] = g /\ \A c \in 0..1 \ {b} : bf[c] = r.buf[c]
  BY <1>1, <1>2, <1>6, Zenon DEF RxState
<1> HIDE DEF nb, bf, o
<1>9. /\ d \in RxState /\ d.sel = r.sel /\ d.pos = r.pos /\ ~d.ongoing
      /\ d.nb = nb /\ d.buf = bf
  BY <1>5, <1>8, Zenon DEF RxState
<1>10. Filled(d, n)
  <2>1. \A c \in 0..1 : nb[c] <= Size /\ nb[c] <= n
    BY <1>1, <1>2, <1>8 DEF Filled
  <2>2. \A c \in 0..1 : bf[c] \in [1..Size -> HostByte]
    BY <1>3, <1>8 DEF Filled
  <2> QED BY <1>9, <2>1, <2>2 DEF Filled
<1>11. ASSUME b = o PROVE Left(d) = Left(r) /\ Queued(d) = p /\ d.buf[r.sel] = r.buf[r.sel]
  <2>1. bf[r.sel] = r.buf[r.sel] /\ bf[o] = g
    BY <1>1, <1>8, <1>11
  <2>2. Left(d) = Left(r)
    BY <1>8, <1>9, <2>1, Zenon DEF Left
  <2>3. Queued(d) = SubSeq(g, 1, Len(p))
    BY <1>8, <1>9, <2>1 DEF Queued, o
  <2>4. SubSeq(g, 1, Len(p)) = p
    <3> DEFINE l == SubSeq(g, 1, Len(p))
    <3>1. \A i \in 1 .. Len(p) : g[i] \in HostByte
      BY <1>1, <1>2, <1>3
    <3>2. 1 \in Int /\ Len(p) \in Int
      BY <1>2
    <3>3. /\ l \in Seq(HostByte) /\ Len(l) = (IF 1 <= Len(p) THEN Len(p) - 1 + 1 ELSE 0)
          /\ \A i \in 1 .. Len(p) - 1 + 1 : l[i] = g[1 + i - 1]
      BY <3>1, <3>2, SubSeqProperties
    <3> HIDE DEF l
    <3>4. Len(l) = Len(p) /\ \A i \in 1 .. Len(l) : l[i] = p[i]
      BY <1>2, <1>7, <3>3
    <3>5. l = p
      BY <1>2, <3>3, <3>4, SeqEqual
    <3> QED BY <3>5 DEF l
  <2> QED BY <1>9, <2>1, <2>2, <2>3, <2>4
<1> QED BY <1>8, <1>9, <1>10, <1>11 DEF o

\* The reader goes on in its buffer.
LEMMA AdvancedQueue ==
  ASSUME NEW r \in RxState, NEW n, Filled(r, n), NEW k \in Nat, r.pos + k <= Size,
         NEW d, d = [r EXCEPT !.pos = r.pos + k]
  PROVE  /\ d \in RxState /\ Filled(d, n) /\ d.pos = r.pos + k /\ d.sel = r.sel /\ d.nb = r.nb
         /\ d.buf = r.buf /\ d.ongoing = r.ongoing /\ Queued(d) = Queued(r)
         /\ r.pos + k <= r.nb[r.sel] =>
              k \in 0 .. Len(Left(r)) /\ Left(d) = SubSeq(Left(r), k + 1, Len(Left(r)))
         /\ ~Unread(r) => Left(d) = <<>>
<1>1. /\ r.pos \in Nat /\ Size \in Nat /\ r.sel \in 0..1 /\ r.nb[r.sel] \in Nat
      /\ r.nb[r.sel] <= Size
      /\ r.buf[r.sel] \in Seq(HostByte) /\ Len(r.buf[r.sel]) = Size
  BY FilledFacts
<1>2. /\ d \in RxState /\ d.pos = r.pos + k /\ d.sel = r.sel /\ d.nb = r.nb
      /\ d.buf = r.buf /\ d.ongoing = r.ongoing
  <2>1. r.pos + k \in Int
    BY <1>1
  <2>2. ASSUME NEW z \in Int, NEW e, e = [r EXCEPT !.pos = z]
        PROVE  /\ e \in RxState /\ e.pos = z /\ e.sel = r.sel /\ e.nb = r.nb
               /\ e.buf = r.buf /\ e.ongoing = r.ongoing
    BY <2>2, Zenon DEF RxState
  <2> QED BY <2>1, <2>2
<1>3. Filled(d, n)
  BY <1>1, <1>2 DEF Filled
<1>4. Queued(d) = Queued(r)
  BY <1>2 DEF Queued
<1>5. ASSUME ~Unread(r) PROVE Left(d) = <<>>
  <2>1. ~Unread(d)
    BY <1>1, <1>2, <1>5 DEF Unread
  <2> QED BY <1>2, <1>3, <2>1, LeftFacts
<1>6. ASSUME r.pos + k <= r.nb[r.sel]
      PROVE  k \in 0 .. Len(Left(r)) /\ Left(d) = SubSeq(Left(r), k + 1, Len(Left(r)))
  <2> DEFINE s == r.buf[r.sel]
             a == r.pos
             m == r.nb[r.sel]
             l == SubSeq(s, a + 1, m)
             f == SubSeq(s, (a + k) + 1, m)
             h == SubSeq(l, k + 1, Len(l))
  <2>1. /\ s \in Seq(HostByte) /\ Len(s) = Size /\ a \in Nat /\ m \in Nat /\ m <= Size
        /\ a + k <= m /\ Left(r) = l /\ Left(d) = f
    BY <1>1, <1>2, <1>6, Zenon DEF Left
  <2> HIDE DEF s, a, m
  <2>2. /\ l \in Seq(HostByte) /\ Len(l) = m - a /\ \A i \in 1 .. m - a : l[i] = s[a + i]
    <3>1. a + 1 \in Int /\ m \in Int /\ \A i \in a + 1 .. m : s[i] \in HostByte
      BY <1>1, <2>1, ElementOfSeq
    <3>2. /\ l \in Seq(HostByte) /\ Len(l) = (IF a + 1 <= m THEN m - (a + 1) + 1 ELSE 0)
          /\ \A i \in 1 .. m - (a + 1) + 1 : l[i] = s[(a + 1) + i - 1]
      BY <3>1, SubSeqProperties
    <3> HIDE DEF l
    <3>3. m - (a + 1) + 1 = m - a /\ Len(l) = m - a
      BY <2>1, <3>2
    <3>4. ASSUME NEW i \in 1 .. m - a PROVE l[i] = s[a + i]
      <4>1. (a + 1) + i - 1 = a + i /\ i \in 1 .. m - (a + 1) + 1
        BY <2>1, <3>3
      <4> QED BY <3>2, <4>1
    <3> QED BY <3>2, <3>3, <3>4
  <2>3. /\ f \in Seq(HostByte) /\ Len(f) = m - (a + k) /\ \A i \in 1 .. m - (a + k) : f[i] = s[a + k + i]
    <3>1. (a + k) + 1 \in Int /\ m \in Int /\ \A i \in (a + k) + 1 .. m : s[i] \in HostByte
      BY <1>1, <2>1, ElementOfSeq
    <3>2. /\ f \in Seq(HostByte) /\ Len(f) = (IF (a + k) + 1 <= m THEN m - ((a + k) + 1) + 1 ELSE 0)
          /\ \A i \in 1 .. m - ((a + k) + 1) + 1 : f[i] = s[((a + k) + 1) + i - 1]
      BY <3>1, SubSeqProperties
    <3> HIDE DEF f
    <3>3. m - ((a + k) + 1) + 1 = m - (a + k) /\ Len(f) = m - (a + k)
      BY <2>1, <3>2
    <3>4. ASSUME NEW i \in 1 .. m - (a + k) PROVE f[i] = s[a + k + i]
      <4>1. ((a + k) + 1) + i - 1 = a + k + i /\ i \in 1 .. m - ((a + k) + 1) + 1
        BY <2>1, <3>3
      <4> QED BY <3>2, <4>1
    <3> QED BY <3>2, <3>3, <3>4
  <2> HIDE DEF l, f
  <2>4. /\ h \in Seq(HostByte) /\ Len(h) = Len(l) - k /\ \A i \in 1 .. Len(l) - k : h[i] = l[k + i]
    <3>1. k + 1 \in Int /\ Len(l) \in Int /\ \A i \in k + 1 .. Len(l) : l[i] \in HostByte
      BY <2>1, <2>2, ElementOfSeq
    <3>2. /\ h \in Seq(HostByte) /\ Len(h) = (IF k + 1 <= Len(l) THEN Len(l) - (k + 1) + 1 ELSE 0)
          /\ \A i \in 1 .. Len(l) - (k + 1) + 1 : h[i] = l[(k + 1) + i - 1]
      BY <3>1, SubSeqProperties
    <3> HIDE DEF h
    <3>3. Len(l) - (k + 1) + 1 = Len(l) - k /\ Len(h) = Len(l) - k
      BY <2>1, <2>2, <3>2
    <3>4. ASSUME NEW i \in 1 .. Len(l) - k PROVE h[i] = l[k + i]
      <4>1. (k + 1) + i - 1 = k + i /\ i \in 1 .. Len(l) - (k + 1) + 1
        BY <2>1, <3>3
      <4> QED BY <3>2, <4>1
    <3> QED BY <3>2, <3>3, <3>4
  <2>5. k \in 0 .. Len(l)
    BY <2>1, <2>2
  <2> HIDE DEF h
  <2>6. ASSUME NEW i \in 1 .. Len(f) PROVE f[i] = h[i]
    <3>1. /\ i \in 1 .. m - (a + k) /\ i \in 1 .. Len(l) - k /\ k + i \in 1 .. m - a
          /\ a + (k + i) = a + k + i
      BY <2>1, <2>2, <2>3
    <3> QED BY <2>2, <2>3, <2>4, <3>1, Zenon
  <2>7. Len(f) = Len(h)
    BY <2>1, <2>2, <2>3, <2>4
  <2>8. f = h
    BY <2>3, <2>4, <2>6, <2>7, SeqEqual, Zenon
  <2> QED BY <2>1, <2>5, <2>8, Zenon DEF h
<1> QED BY <1>2, <1>3, <1>4, <1>5, <1>6, Zenon

\* The bytes for the reader in the buffers r and in the banks b.
Waiting(r, b) == (Left(r) \o Queued(r)) \o FlattenSeq(b)

\* What waits is bytes of the host, which the line may carry.
LEMMA PacketTypes ==
  ASSUME NEW n
  PROVE  HostPackets(n) \subseteq Seq(HostByte) /\ Seq(HostPackets(n)) \subseteq Seq(Seq(HostByte))
<1>1. HostPackets(n) \subseteq Seq(HostByte)
  BY DEF HostPackets
<1> QED BY <1>1, SeqMonotonic

LEMMA WaitingType ==
  ASSUME NEW r \in RxState, NEW n, Filled(r, n), NEW b \in Seq(HostPackets(n))
  PROVE  Waiting(r, b) \in Seq(HostByte)
<1> DEFINE f == FlattenSeq(b)
           x == Left(r)
           y == Queued(r)
<1>1. f \in Seq(HostByte) /\ x \in Seq(HostByte) /\ y \in Seq(HostByte)
  BY PacketTypes, FlattenType, LeftFacts
<1> HIDE DEF f, x, y
<1>2. x \o y \in Seq(HostByte)
  BY <1>1, ConcatProperties
<1>3. (x \o y) \o f \in Seq(HostByte)
  BY <1>1, <1>2, ConcatProperties
<1> QED BY <1>3 DEF Waiting, f, x, y

LEMMA HostByteIsLineByte ==
  ASSUME TypeOK
  PROVE  HostByte \subseteq LineByte /\ Seq(HostByte) \subseteq Seq(LineByte)
<1>1. Chunk * scene.calls \in Nat /\ MaxBytes \in Nat
  BY CdcAssumption DEF TypeOK, TasksOK
<1>2. Cardinality(Task) \in Nat
  BY CdcAssumption, FS_CardinalityType
<1>3. Chunk * scene.calls * Cardinality(Task) \in Nat
  BY <1>1, <1>2
<1>4. HostByte \subseteq LineByte
  BY <1>1, <1>3 DEF HostByte, LineByte
<1> QED BY <1>4, SeqMonotonic

LEMMA ToDeviceForm ==
  ToDevice = IF Up THEN Waiting(rx, bank["out"]) ELSE <<>>
BY DEF ToDevice, Waiting, Left, Queued

LEMMA ToDeviceFacts ==
  ASSUME TypeOK, HostBytes
  PROVE  ToDevice \in Seq(HostByte)
<1>1. Waiting(rx, bank["out"]) \in Seq(HostByte)
  BY EndpointTypes, WaitingType DEF HostBytes
<1> QED BY <1>1, ToDeviceForm, EmptySeq

DeviceSideKept == ToDevice' = ToDevice /\ UNCHANGED <<sent, delivered, trust>>

DeviceSideAnything ==
  /\ trust = "none" /\ UNCHANGED <<sent, trust>>
  /\ delivered' \in LineByte /\ ToDevice' \in Seq(LineByte)

\* Steps that do not concern the direction to the device.
LEMMA ReaderFrame ==
  ASSUME ReaderInv, UNCHANGED <<scene, rx, sent, delivered, trust>>,
         bank'["out"] = bank["out"], ep'["in"].on = ep["in"].on,
         ep'["out"].busy = ep["out"].busy, ep'["out"].job = ep["out"].job,
         \A t \in Readers : pc'[t] = pc[t] /\ seen'[t] = seen[t] /\ todo'[t] = todo[t]
  PROVE  ReaderInv' /\ DeviceSideKept
<1>1. Readers' = Readers /\ (Up' <=> Up)
  BY DEF Readers, Job, Up
<1>2. HostBytes'
  BY DEF ReaderInv, HostBytes
<1>3. \A t \in Readers' : InBuffer(t, rx)'
  BY <1>1 DEF ReaderInv, InBuffer, Job
<1>4. Trusted'
  BY <1>1 DEF ReaderInv, Trusted, InTurn, Orderly, Job
<1>5. FirmLine'
  BY <1>1 DEF ReaderInv, FirmLine, Exact, Job
<1>6. ToDevice' = ToDevice
  BY <1>1 DEF ToDevice
<1> QED BY <1>2, <1>3, <1>4, <1>5, <1>6 DEF ReaderInv, DeviceSideKept

\* The interrupt of a transfer: what the reader sees of its buffer stays, unless
\* it had come to the end of it.
LEMMA Received ==
  ASSUME TypeOK, ReaderInv, DataReceived,
         NEW p, p = Head(bank["out"]),
         NEW b, b = ep["out"].job[1],
         NEW d, d = Arrived(rx, b, p)
  PROVE  /\ ep["out"].busy /\ bank["out"] # <<>> /\ b \in 0..1 /\ ep["out"].job = <<b>>
         /\ p \in HostPackets(sent) /\ Tail(bank["out"]) \in Seq(HostPackets(sent))
         /\ bank'["out"] = Tail(bank["out"])
         /\ UNCHANGED <<scene, pc, todo, seen, sent, delivered, trust>>
         /\ ep'["in"] = ep["in"]
         /\ \/ Unread(d) /\ rx' = d /\ ~ep'["out"].busy
            \/ /\ ~Unread(d) /\ rx' = Switched(d)
               /\ ep'["out"].busy => ep'["out"].job = <<rx.sel>>
         /\ d \in RxState /\ Filled(d, sent) /\ d.sel = rx.sel /\ d.pos = rx.pos /\ ~d.ongoing
         /\ d.nb[rx.sel] = rx.nb[rx.sel] /\ d.nb[Other(rx.sel)] = Len(p)
         /\ b = Other(rx.sel) => Left(d) = Left(rx) /\ Queued(d) = p /\ d.buf[rx.sel] = rx.buf[rx.sel]
         /\ Unread(d) <=> Unread(rx)
<1> DEFINE x == Finished(ep["out"])
           r == RxStart(d, x)
<1>1. /\ rx' = r[1] /\ ep' = [ep EXCEPT !["out"] = r[2]]
      /\ bank' = [bank EXCEPT !["out"] = Tail(bank["out"])]
      /\ UNCHANGED <<scene, pc, todo, seen, sent, delivered, trust>>
      /\ ep["out"].busy /\ bank["out"] # <<>>
  BY DEF DataReceived, Arrived, taskVars, histVars
<1>2. b \in 0..1 /\ ep["out"].job = <<b>>
  <2>1. ep["out"].job \in JobsOf("out")
    BY <1>1, EndpointTypes DEF Endpoint
  <2>2. PICK c \in 0..1 : ep["out"].job = <<c>>
    BY <2>1 DEF JobsOf
  <2>3. b = c
    BY <2>2
  <2> QED BY <2>2, <2>3
<1>3. /\ p \in HostPackets(sent) /\ Tail(bank["out"]) \in Seq(HostPackets(sent))
      /\ Filled(rx, sent)
  BY <1>1, HeadTailProperties DEF ReaderInv, HostBytes
<1>4. bank'["out"] = Tail(bank["out"])
  BY <1>1 DEF TypeOK, EndpointsOK, EPs
<1>5. /\ d \in RxState /\ Filled(d, sent) /\ d.sel = rx.sel /\ d.pos = rx.pos /\ ~d.ongoing
      /\ d.nb[rx.sel] = rx.nb[rx.sel] /\ d.nb[Other(rx.sel)] = Len(p)
      /\ b = Other(rx.sel) => Left(d) = Left(rx) /\ Queued(d) = p /\ d.buf[rx.sel] = rx.buf[rx.sel]
  <2>1. rx \in RxState
    BY EndpointTypes
  <2>2. Filled(rx, sent) /\ p \in HostPackets(sent) /\ b \in 0..1 /\ d = Arrived(rx, b, p)
    BY <1>2, <1>3
  <2>3. d \in RxState /\ Filled(d, sent)
    BY <2>1, <2>2, ArrivedQueue
  <2>4. b = Other(rx.sel) => Left(d) = Left(rx) /\ Queued(d) = p /\ d.buf[rx.sel] = rx.buf[rx.sel]
    BY <2>1, <2>2, ArrivedQueue
  <2>5. d.sel = rx.sel /\ d.pos = rx.pos /\ ~d.ongoing
    BY <2>1, <2>2, ArrivedQueue
  <2>6. d.nb[rx.sel] = rx.nb[rx.sel] /\ d.nb[Other(rx.sel)] = Len(p)
    BY <2>1, <2>2, ArrivedQueue
  <2> QED BY <2>3, <2>4, <2>5, <2>6
<1>6. Unread(d) <=> Unread(rx)
  BY <1>5 DEF Unread
<1>7. x \in Endpoint("out") /\ ~x.busy
  BY EndpointTypes, FinishedFacts DEF EPs
<1> HIDE DEF x
<1>8. \/ Unread(d) /\ r[1] = d /\ ~r[2].busy
      \/ ~Unread(d) /\ r[1] = Switched(d) /\ (r[2].busy => r[2].job = <<rx.sel>>)
  <2>1. CASE Unread(d)
    BY <1>7, <2>1 DEF RxStart
  <2>2. CASE ~Unread(d)
    <3>1. r[1] = Switched(d) /\ r[2] = Run(x, <<rx.sel>>)
      BY <1>5, <2>2 DEF RxStart
    <3>2. Run(x, <<rx.sel>>).busy => Run(x, <<rx.sel>>).job = <<rx.sel>>
      BY <1>7 DEF Run, Endpoint
    <3> QED BY <2>2, <3>1, <3>2
  <2> QED BY <2>1, <2>2
<1> HIDE DEF r
<1>9. ep'["out"] = r[2] /\ ep'["in"] = ep["in"]
  BY <1>1, EndpointTypes DEF EPs
<1> QED BY <1>1, <1>2, <1>3, <1>4, <1>5, <1>6, <1>8, <1>9

\* The packet is taken from the banks and waits in the buffer instead.
LEMMA ReaderDataReceived ==
  ASSUME TypeOK, ReaderInv, DataReceived
  PROVE  ReaderInv' /\ (DeviceSideKept \/ DeviceSideAnything)
<1> DEFINE p == Head(bank["out"])
           b == ep["out"].job[1]
           d == Arrived(rx, b, p)
           q == Tail(bank["out"])
<1>1. /\ ep["out"].busy /\ bank["out"] # <<>> /\ b \in 0..1 /\ ep["out"].job = <<b>>
      /\ p \in HostPackets(sent) /\ q \in Seq(HostPackets(sent))
      /\ bank'["out"] = q
      /\ UNCHANGED <<scene, pc, todo, seen, sent, delivered, trust>>
      /\ ep'["in"] = ep["in"]
      /\ \/ Unread(d) /\ rx' = d /\ ~ep'["out"].busy
         \/ /\ ~Unread(d) /\ rx' = Switched(d)
            /\ ep'["out"].busy => ep'["out"].job = <<rx.sel>>
      /\ d \in RxState /\ Filled(d, sent) /\ d.sel = rx.sel /\ d.pos = rx.pos /\ ~d.ongoing
      /\ d.nb[rx.sel] = rx.nb[rx.sel] /\ d.nb[Other(rx.sel)] = Len(p)
      /\ b = Other(rx.sel) => Left(d) = Left(rx) /\ Queued(d) = p /\ d.buf[rx.sel] = rx.buf[rx.sel]
      /\ Unread(d) <=> Unread(rx)
  BY Received
<1> HIDE DEF d, b
<1>2. Readers' = Readers /\ (Up' <=> Up)
  BY <1>1 DEF Readers, Job, Up
<1>3. /\ Filled(Switched(d), sent) /\ Switched(d) \in RxState
      /\ Switched(d).pos = 0 /\ Switched(d).sel = Other(rx.sel) /\ Switched(d).ongoing
      /\ Switched(d).nb = d.nb /\ Switched(d).buf = d.buf
      /\ Queued(Switched(d)) = <<>> /\ Left(Switched(d)) = Queued(d)
  BY <1>1, SwitchedQueue
<1>4. rx' \in RxState /\ Filled(rx', sent) /\ sent' = sent
  BY <1>1, <1>3
<1>5. HostBytes'
  BY <1>1, <1>4 DEF ReaderInv, HostBytes, Filled
<1>6. Unread(rx) <=> rx.pos < rx.nb[rx.sel]
  BY DEF Unread
<1>7. Filled(rx, sent)
  BY DEF ReaderInv, HostBytes
<1>8. /\ rx.sel \in 0..1 /\ Other(rx.sel) \in 0..1 /\ Other(Other(rx.sel)) = rx.sel
      /\ rx.pos \in Nat /\ rx.nb[rx.sel] \in Nat /\ rx.pos <= Size
  BY <1>7, EndpointTypes, FilledFacts
<1>9. ASSUME NEW t \in Readers PROVE InBuffer(t, rx)'
  <2>1. InBuffer(t, rx)
    BY DEF ReaderInv
  <2>2. CASE rx' = d
    <3>1. rx'.pos = rx.pos /\ rx'.sel = rx.sel /\ (Unread(rx)' <=> Unread(rx))
      BY <1>1, <2>2 DEF Unread
    <3> QED BY <1>1, <2>1, <3>1 DEF InBuffer, Job
  <2>3. CASE rx' = Switched(d)
    <3>1. rx'.pos = 0
      BY <1>3, <2>3
    <3>2. t \in Task
      BY DEF Readers
    <3>3. todo[t] \in Int
      BY <3>2 DEF TypeOK, TasksOK
    <3>4. Size \in Nat /\ Size > 0
      BY CdcAssumption
    <3>5. pc[t] = "advance" /\ Job(t) = "read_buf" => rx'.pos + seen[t][2] <= Size
      BY <1>8, <2>1, <3>1, <3>3, <3>4 DEF InBuffer
    <3> QED BY <1>1, <2>1, <3>1, <3>4, <3>5 DEF InBuffer, Job
  <2> QED BY <1>1, <2>2, <2>3
<1>10. ASSUME Up, trust # "none"
       PROVE  /\ rx.ongoing /\ b = Other(rx.sel)
              /\ \A t \in Readers : pc[t] # "run" /\ Orderly(t, rx, ep["out"])
  <2>1. InTurn(rx, ep["out"]) /\ \A t \in Readers : Orderly(t, rx, ep["out"])
    BY <1>10 DEF ReaderInv, Trusted
  <2>2. rx.ongoing /\ <<b>> = <<Other(rx.sel)>>
    BY <1>1, <2>1 DEF InTurn
  <2> QED BY <1>1, <2>1, <2>2 DEF Orderly
<1>11. Trusted'
  <2> SUFFICES ASSUME Up, trust # "none"
               PROVE  InTurn(rx, ep["out"])' /\ \A t \in Readers : Orderly(t, rx, ep["out"])'
    BY <1>1, <1>2 DEF Trusted
  <2>1. CASE rx' = d /\ ~ep'["out"].busy
    <3>1. rx'.pos = rx.pos /\ rx'.sel = rx.sel /\ rx'.nb[rx.sel] = rx.nb[rx.sel]
      BY <1>1, <2>1
    <3> QED BY <1>1, <1>10, <2>1, <3>1 DEF InTurn, Orderly, Job
  <2>2. CASE ~Unread(rx) /\ rx' = Switched(d) /\ (ep'["out"].busy => ep'["out"].job = <<rx.sel>>)
    <3>1. rx'.sel = Other(rx.sel) /\ rx'.ongoing
      BY <1>3, <2>2
    <3>2. InTurn(rx, ep["out"])'
      BY <1>8, <2>2, <3>1 DEF InTurn
    <3>3. ASSUME NEW t \in Readers, pc[t] = "advance", Job(t) = "read_buf" PROVE seen[t][2] = 0
      <4>1. seen[t][2] = 0 \/ rx.pos + seen[t][2] <= rx.nb[rx.sel]
        BY <1>10, <3>3 DEF Orderly
      <4>2. t \in Task
        BY DEF Readers
      <4>3. seen[t][2] \in Nat
        BY <3>3, <4>2 DEF ReaderInv, InBuffer, TypeOK, TasksOK
      <4> QED BY <1>6, <1>8, <2>2, <4>1, <4>3
    <3> QED BY <1>1, <1>10, <3>2, <3>3 DEF Orderly, Job
  <2> QED BY <1>1, <2>1, <2>2
<1>12. FirmLine'
  <2> SUFFICES ASSUME Up, trust = "firm"
               PROVE  /\ bank'["out"] \in Seq(Seq(HostByte) \ {<<>>})
                      /\ \A t \in Readers : Exact(t, rx)'
    BY <1>1, <1>2 DEF FirmLine
  <2>1. bank["out"] \in Seq(Seq(HostByte) \ {<<>>}) /\ \A t \in Readers : Exact(t, rx)
    BY DEF ReaderInv, FirmLine
  <2>2. q \in Seq(Seq(HostByte) \ {<<>>}) /\ p \in Seq(HostByte) \ {<<>>}
    BY <1>1, <2>1, HeadTailProperties
  <2>3. Len(p) > 0
    BY <2>2
  <2> HIDE DEF p, q
  <2>4. b = Other(rx.sel)
    BY <1>10
  <2>5. CASE rx' = d
    <3>1. /\ rx'.pos = rx.pos /\ rx'.sel = rx.sel /\ rx'.buf[rx.sel] = rx.buf[rx.sel]
          /\ Unread(rx)' <=> Unread(rx)
      BY <1>1, <2>4, <2>5 DEF Unread
    <3> QED BY <1>1, <2>1, <2>2, <3>1 DEF Exact, Job
  <2>6. CASE ~Unread(rx) /\ rx' = Switched(d)
    <3>1. rx'.pos = 0 /\ Unread(rx)'
      BY <1>1, <1>3, <2>3, <2>6 DEF Unread
    <3> QED BY <1>1, <2>1, <2>2, <2>6, <3>1 DEF Exact, Job
  <2> QED BY <1>1, <2>5, <2>6
<1>13. CASE ~Up
  <2>1. ToDevice' = ToDevice
    BY <1>2, <1>13 DEF ToDevice
  <2> QED BY <1>1, <1>2, <1>5, <1>9, <1>11, <1>12, <2>1 DEF ReaderInv, DeviceSideKept
<1>14. CASE Up /\ trust = "none"
  <2>1. ToDevice' = Waiting(rx', q)
    BY <1>1, <1>2, <1>14, Zenon DEF ToDevice, Waiting, Left, Queued
  <2>2. Waiting(rx', q) \in Seq(HostByte)
    BY <1>1, <1>4, WaitingType, Zenon
  <2>3. delivered \in HostByte
    BY DEF ReaderInv, HostBytes
  <2> QED
    BY <1>1, <1>2, <1>5, <1>9, <1>11, <1>12, <1>14, <2>1, <2>2, <2>3, HostByteIsLineByte
    DEF ReaderInv, DeviceSideAnything
<1>15. CASE Up /\ trust # "none"
  <2>1. ToDevice' = Waiting(rx', q) /\ ToDevice = Waiting(rx, bank["out"])
    BY <1>1, <1>2, <1>15, Zenon DEF ToDevice, Waiting, Left, Queued
  <2>2. bank["out"] \in Seq(Seq(HostByte)) /\ q \in Seq(Seq(HostByte)) /\ p \in Seq(HostByte)
    BY <1>1, PacketTypes DEF ReaderInv, HostBytes
  <2>3. FlattenSeq(bank["out"]) = p \o FlattenSeq(q) /\ FlattenSeq(q) \in Seq(HostByte)
    BY <1>1, <2>2, FlattenHead, FlattenType, Zenon
  <2>4. Queued(rx) = <<>> /\ Left(d) = Left(rx) /\ Queued(d) = p
    BY <1>1, <1>10, <1>15 DEF Queued
  <2>5. Left(rx) \in Seq(HostByte) /\ (~Unread(rx) => Left(rx) = <<>>)
    BY <1>7, EndpointTypes, LeftFacts
  <2> DEFINE f == FlattenSeq(q)
             l == Left(rx)
  <2>6. f \in Seq(HostByte) /\ l \in Seq(HostByte) /\ p \in Seq(HostByte)
    BY <2>2, <2>3, <2>5
  <2>7. ToDevice = (l \o <<>>) \o (p \o f)
    BY <2>1, <2>3, <2>4 DEF Waiting
  <2>8. \/ ToDevice' = (l \o p) \o f
        \/ l = <<>> /\ ToDevice' = (p \o <<>>) \o f
    <3>1. CASE rx' = d
      BY <2>1, <2>4, <3>1, Zenon DEF Waiting
    <3>2. CASE ~Unread(rx) /\ rx' = Switched(d)
      BY <1>3, <2>1, <2>4, <2>5, <3>2, Zenon DEF Waiting
    <3> QED BY <1>1, <3>1, <3>2, Zenon
  <2> HIDE DEF f, l, p, q
  <2>9. ToDevice' = ToDevice
    <3>1. l \o <<>> = l /\ p \o <<>> = p
      BY <2>6, ConcatEmptySeq
    <3>2. (l \o p) \o f = l \o (p \o f)
      BY <2>6, ConcatThree
    <3>3. p \o f \in Seq(HostByte)
      BY <2>6, ConcatProperties
    <3>4. <<>> \o (p \o f) = p \o f
      BY <3>3, ConcatEmptySeq
    <3> QED BY <2>7, <2>8, <3>1, <3>2, <3>4, Zenon
  <2> QED BY <1>1, <1>2, <1>5, <1>9, <1>11, <1>12, <2>9 DEF ReaderInv, DeviceSideKept
<1> QED BY <1>13, <1>14, <1>15

\* The host adds bytes to the line.
DeviceSideSend ==
  /\ UNCHANGED delivered
  /\ ToDevice' \in Seq(LineByte) /\ IsPrefix(ToDevice, ToDevice')
  /\ (sent > 0)' <=> sent > 0 \/ ToDevice' # ToDevice
  /\ trust' = IF ToDevice' = ToDevice /\ trust = "firm" THEN "weak" ELSE trust

\* The packet of n bytes that the host sends next.
NextPacket(n) == [i \in 1..n |-> sent + i]

LEMMA HostPacketSent ==
  ASSUME sent \in Nat, NEW n \in 0 .. Size, sent + n <= MaxBytes, NEW p, p = NextPacket(n)
  PROVE  /\ p \in HostPackets(sent + n) /\ p \in Seq(HostByte) /\ Len(p) = n
         /\ n = 0 <=> p = <<>>
<1>1. Size \in Nat /\ MaxBytes \in Nat /\ n \in Nat
  BY CdcAssumption
<1>2. p \in [1..n -> HostByte]
  BY <1>1 DEF HostByte, NextPacket
<1>3. p \in Seq(HostByte) /\ Len(p) = n
  <2>1. ASSUME NEW f \in [1..n -> HostByte] PROVE f \in Seq(HostByte) /\ Len(f) = n
    BY <1>1
  <2> QED BY <1>2, <2>1
<1>4. n <= Size /\ n <= sent + n
  BY <1>1
<1> QED BY <1>3, <1>4, EmptySeq DEF HostPackets

\* The host has sent more: what was sent is still what it was.
LEMMA PacketsGrow ==
  ASSUME NEW n \in Nat, NEW m \in Nat, n <= m
  PROVE  /\ HostPackets(n) \subseteq HostPackets(m)
         /\ Seq(HostPackets(n)) \subseteq Seq(HostPackets(m))
         /\ \A r \in RxState : Filled(r, n) => Filled(r, m)
<1>1. HostPackets(n) \subseteq HostPackets(m)
  <2>1. ASSUME NEW p \in HostPackets(n) PROVE p \in HostPackets(m)
    <3>1. p \in Seq(HostByte) /\ Len(p) \in Nat /\ Len(p) <= n /\ Len(p) <= Size
      BY DEF HostPackets
    <3> QED BY <3>1 DEF HostPackets
  <2> QED BY <2>1
<1>2. ASSUME NEW r \in RxState, Filled(r, n) PROVE Filled(r, m)
  BY <1>2 DEF Filled, RxState
<1> QED BY <1>1, <1>2, SeqMonotonic

\* udd's DMA has nothing to do yet: the packet is in its bank.
LEMMA ReaderHostSendsData ==
  ASSUME TypeOK, ReaderInv, Paired, NEW n \in 0 .. Size, HostSendsData(n)
  PROVE  ReaderInv' /\ DeviceSideSend
<1> DEFINE p == NextPacket(n)
           q == Append(bank["out"], p)
<1>1. /\ UNCHANGED <<scene, pc, todo, seen, rx, delivered, ep>>
      /\ bank' = [bank EXCEPT !["out"] = q]
      /\ sent' = sent + n /\ sent + n <= MaxBytes
      /\ trust' = IF n = 0 /\ trust = "firm" THEN "weak" ELSE trust
      /\ ep["out"].on
  BY DEF HostSendsData, HostWrites, NextPacket, taskVars
<1>2. Up /\ Up' /\ Readers' = Readers
  BY <1>1, Zenon DEF Paired, Up, Readers, Job
<1>3. bank'["out"] = q
  BY <1>1 DEF TypeOK, EndpointsOK, EPs
<1>4. sent \in Nat /\ n \in Nat /\ sent' \in HostByte /\ sent <= sent' /\ sent' \in Nat
  <2>1. sent \in HostByte /\ MaxBytes \in Nat /\ Size \in Nat
    BY CdcAssumption DEF ReaderInv, HostBytes
  <2> QED BY <1>1, <2>1 DEF HostByte
<1>5. /\ p \in HostPackets(sent') /\ p \in Seq(HostByte) /\ Len(p) = n
      /\ n = 0 <=> p = <<>>
  BY <1>1, <1>4, HostPacketSent
<1> HIDE DEF p
<1>6. bank["out"] \in Seq(HostPackets(sent)) /\ bank["out"] \in Seq(HostPackets(sent'))
  <2>1. bank["out"] \in Seq(HostPackets(sent))
    BY DEF ReaderInv, HostBytes
  <2> QED BY <1>4, <2>1, PacketsGrow
<1>7. q \in Seq(HostPackets(sent'))
  BY <1>5, <1>6, AppendProperties
<1>8. Filled(rx, sent')
  BY <1>4, EndpointTypes, PacketsGrow DEF ReaderInv, HostBytes
<1>9. HostBytes'
  <2>1. Filled(rx, sent)'
    BY <1>1, <1>8 DEF Filled
  <2>2. bank'["out"] \in Seq(HostPackets(sent)')
    BY <1>3, <1>7 DEF HostPackets
  <2>3. trust' \in {"firm", "weak", "none"} /\ delivered' \in HostByte
    BY <1>1 DEF ReaderInv, HostBytes
  <2> QED BY <1>4, <2>1, <2>2, <2>3 DEF HostBytes
<1>10. \A t \in Readers' : InBuffer(t, rx)'
  BY <1>1, <1>2 DEF ReaderInv, InBuffer, Job
<1>11. Trusted'
  BY <1>1, <1>2 DEF ReaderInv, Trusted, InTurn, Orderly, Job
<1>12. FirmLine'
  <2> SUFFICES ASSUME trust' = "firm"
               PROVE  q \in Seq(Seq(HostByte) \ {<<>>}) /\ \A t \in Readers : Exact(t, rx)'
    BY <1>2, <1>3 DEF FirmLine
  <2>1. trust = "firm" /\ n # 0
    BY <1>1
  <2>2. bank["out"] \in Seq(Seq(HostByte) \ {<<>>}) /\ \A t \in Readers : Exact(t, rx)
    BY <1>2, <2>1 DEF ReaderInv, FirmLine
  <2>3. p \in Seq(HostByte) \ {<<>>}
    BY <1>5, <2>1
  <2>4. q \in Seq(Seq(HostByte) \ {<<>>})
    BY <2>2, <2>3, AppendProperties
  <2> QED BY <1>1, <2>2, <2>4 DEF Exact, Job
<1>13. ToDevice' = ToDevice \o p /\ ToDevice \in Seq(HostByte)
  <2> DEFINE w == Left(rx) \o Queued(rx)
             f == FlattenSeq(bank["out"])
  <2>1. ToDevice = w \o f /\ ToDevice' = w \o FlattenSeq(q)
    <3>1. ToDevice' = Waiting(rx', bank'["out"])
      BY <1>2, Zenon DEF ToDevice, Waiting, Left, Queued
    <3> QED BY <1>1, <1>2, <1>3, <3>1, ToDeviceForm, SMTT(30) DEF Waiting
  <2>2. bank["out"] \in Seq(Seq(HostByte))
    BY <1>6, PacketTypes
  <2>3. FlattenSeq(q) = f \o p /\ f \in Seq(HostByte)
    BY <1>5, <2>2, FlattenAppend, FlattenType, Zenon
  <2>4. w \in Seq(HostByte)
    BY EndpointTypes, LeftFacts, ConcatProperties DEF ReaderInv, HostBytes
  <2> HIDE DEF w, f
  <2>5. w \o (f \o p) = (w \o f) \o p
    BY <1>5, <2>3, <2>4, ConcatThree
  <2>6. w \o f \in Seq(HostByte)
    BY <2>3, <2>4, ConcatProperties
  <2> QED BY <2>1, <2>3, <2>5, <2>6
<1>14. DeviceSideSend
  <2> DEFINE d == ToDevice
  <2>1. d \in Seq(HostByte) /\ ToDevice' = d \o p
    BY <1>13
  <2> HIDE DEF d
  <2>2. IsPrefix(d, d \o p) /\ (p # <<>> => d # d \o p) /\ (p = <<>> => d \o p = d)
    <3>1. IsPrefix(d, d \o p) /\ (p # <<>> => d # d \o p)
      BY <1>5, <2>1, ConcatFront
    <3>2. d \o <<>> = d
      BY <2>1, ConcatEmptySeq
    <3> QED BY <3>1, <3>2, Zenon
  <2>3. d \o p \in Seq(LineByte)
    BY <1>5, <2>1, ConcatProperties, HostByteIsLineByte
  <2>4. (d \o p # d) <=> n # 0
    BY <1>5, <2>2
  <2>5. sent' > 0 <=> sent > 0 \/ n # 0
    BY <1>1, <1>4
  <2>6. IsPrefix(d, ToDevice') /\ ToDevice' \in Seq(LineByte) /\ (ToDevice' # d <=> n # 0)
    BY <2>1, <2>2, <2>3, <2>4
  <2>7. (sent > 0)' <=> sent > 0 \/ ToDevice' # d
    BY <2>5, <2>6
  <2>8. trust' = IF ToDevice' = d /\ trust = "firm" THEN "weak" ELSE trust
    BY <1>1, <2>6
  <2> QED BY <1>1, <2>6, <2>7, <2>8 DEF DeviceSideSend, d
<1> QED BY <1>9, <1>10, <1>11, <1>12, <1>14 DEF ReaderInv

\* The line is cut.
DeviceSideCut ==
  /\ UNCHANGED <<sent, delivered>>
  /\ ToDevice' \in Seq(LineByte) /\ Len(ToDevice') <= Size
  /\ ToDevice' # <<>> => sent > 0
  /\ trust' \in {"firm", "none", trust}

\* The line goes down.
LEMMA ReaderOff ==
  ASSUME TypeOK, ReaderInv, UNCHANGED <<scene, pc, todo, seen, rx, sent, delivered>>,
         bank'["out"] = <<>>, ep'["in"] = Freed(ep["in"]), trust' \in {trust, Renewed}
  PROVE  ReaderInv' /\ DeviceSideCut
<1>1. ~Up' /\ Readers' = Readers
  BY DEF Up, Freed, Off, Readers, Job
<1>2. trust' \in {"firm", "none", trust}
  BY DEF Renewed
<1>3. HostBytes'
  BY <1>2, EmptySeq DEF ReaderInv, HostBytes, Filled
<1>4. \A t \in Readers' : InBuffer(t, rx)'
  BY <1>1 DEF ReaderInv, InBuffer, Job
<1>5. ToDevice' = <<>>
  BY <1>1 DEF ToDevice
<1>6. ReaderInv'
  BY <1>1, <1>3, <1>4 DEF ReaderInv, Trusted, FirmLine
<1>7. Len(<<>>) = 0 /\ Size \in Nat
  BY CdcAssumption
<1> QED BY <1>2, <1>5, <1>6, <1>7, EmptySeq DEF DeviceSideCut

\* What is left in the variables of the direction when it is enabled.
Emptied(r) == [r EXCEPT !.ongoing = FALSE, !.sel = 0, !.nb[0] = 0, !.pos = 0]

LEMMA RenewedQueue ==
  ASSUME NEW r \in RxState, NEW n, Filled(r, n), n \in Nat,
         NEW z, z = Emptied(r),
         NEW x \in Endpoint("out"), ~x.busy, NEW s, s = RxStart(z, x)
  PROVE  /\ s[1] \in RxState /\ Filled(s[1], n) /\ s[1].pos = 0 /\ s[1].sel = 1 /\ s[1].ongoing
         /\ s[2].busy => s[2].job = <<0>>
         /\ Queued(s[1]) = <<>> /\ Left(s[1]) \in Seq(HostByte) /\ Len(Left(s[1])) <= Size
         /\ Left(s[1]) # <<>> => n > 0
<1>1. Size \in Nat
  BY CdcAssumption
<1>2. /\ z \in RxState /\ z.pos = 0 /\ z.sel = 0 /\ ~z.ongoing /\ z.buf = r.buf
      /\ z.nb[0] = 0 /\ z.nb[1] = r.nb[1]
  <2> DEFINE c == [r.nb EXCEPT ![0] = 0]
  <2>1. c \in [0..1 -> Nat] /\ c[0] = 0 /\ c[1] = r.nb[1]
    BY DEF RxState
  <2>2. z = [r EXCEPT !.ongoing = FALSE, !.sel = 0, !.nb = c, !.pos = 0]
    BY DEF Emptied
  <2> HIDE DEF c
  <2>3. z = [ongoing |-> FALSE, sel |-> 0, pos |-> 0, nb |-> c, buf |-> r.buf]
    BY <2>2, Zenon DEF RxState
  <2>4. r.buf \in [0..1 -> [1..Size -> Nat]]
    BY DEF RxState
  <2> QED BY <2>1, <2>3, <2>4 DEF RxState
<1>3. Filled(z, n)
  BY <1>1, <1>2 DEF Filled
<1>4. ~Unread(z)
  BY <1>2 DEF Unread
<1>5. s[1] = Switched(z) /\ s[2] = Run(x, <<0>>)
  BY <1>2, <1>4 DEF RxStart
<1>6. s[2].busy => s[2].job = <<0>>
  <2>1. Run(x, <<0>>).busy => Run(x, <<0>>).job = <<0>>
    BY DEF Run, Endpoint
  <2> QED BY <1>5, <2>1
<1>7. /\ s[1] \in RxState /\ Filled(s[1], n) /\ s[1].pos = 0 /\ s[1].sel = 1 /\ s[1].ongoing
      /\ Queued(s[1]) = <<>>
  <2>1. /\ Filled(Switched(z), n) /\ Switched(z) \in RxState
        /\ Switched(z).pos = 0 /\ Switched(z).sel = Other(z.sel) /\ Switched(z).ongoing
        /\ Queued(Switched(z)) = <<>>
    BY <1>2, <1>3, SwitchedQueue
  <2> QED BY <1>2, <1>5, <2>1 DEF Other
<1>8. /\ Left(s[1]) \in Seq(HostByte) /\ (~Unread(s[1]) => Left(s[1]) = <<>>)
      /\ Unread(s[1]) => Len(Left(s[1])) = s[1].nb[s[1].sel] - s[1].pos
  BY <1>7, LeftFacts
<1>9. s[1].nb[1] \in Nat /\ s[1].nb[1] <= Size /\ s[1].nb[1] <= n
  BY <1>7 DEF RxState, Filled
<1>10. CASE Unread(s[1])
  <2>1. Len(Left(s[1])) = s[1].nb[1] /\ s[1].nb[1] > 0
    BY <1>7, <1>8, <1>9, <1>10 DEF Unread
  <2> QED BY <1>6, <1>7, <1>8, <1>9, <2>1
<1>11. CASE ~Unread(s[1])
  BY <1>1, <1>6, <1>7, <1>8, <1>11, EmptySeq
<1> QED BY <1>10, <1>11

\* A reader that was between two accesses stays within its buffer.
LEMMA InBufferAtZero ==
  ASSUME TypeOK, ReaderInv, NEW t \in Readers, UNCHANGED <<scene, pc, todo, seen>>,
         rx'.pos = 0
  PROVE  InBuffer(t, rx)'
<1>1. InBuffer(t, rx) /\ t \in Task
  BY DEF ReaderInv, Readers
<1>2. Size \in Nat /\ Size > 0 /\ todo[t] \in Int
  BY <1>1, CdcAssumption DEF TypeOK, TasksOK
<1>3. rx.pos \in Nat
  BY EndpointTypes, FilledFacts DEF ReaderInv, HostBytes
<1>4. pc[t] = "advance" /\ Job(t) = "read_buf" => rx'.pos + seen[t][2] <= Size
  BY <1>1, <1>2, <1>3 DEF InBuffer
<1> QED BY <1>1, <1>2, <1>4 DEF InBuffer, Job

\* The line goes up.  Bytes of an older line may be in the second buffer.
LEMMA ReaderOn ==
  ASSUME TypeOK, ReaderInv, UNCHANGED <<scene, pc, todo, seen, sent, delivered>>,
         bank'["out"] = <<>>, NEW in \in Endpoint("in"), NEW comm \in Endpoint("comm"),
         DataEnable(in, Allocated(Freed(ep["out"])), comm), trust' = Renewed
  PROVE  ReaderInv' /\ DeviceSideCut
<1> DEFINE x == Allocated(Freed(ep["out"]))
           z == Emptied(rx)
           s == RxStart(z, x)
<1>1. rx' = s[1] /\ ep'["out"] = s[2]
  BY DEF DataEnable, Emptied
<1>2. x \in Endpoint("out") /\ ~x.busy
  <2>1. Freed(ep["out"]) \in Endpoint("out") /\ ~Freed(ep["out"]).busy
    BY EndpointTypes, FreedFacts, Zenon DEF EPs
  <2> QED BY <2>1, AllocatedFacts DEF EPs, Allocated, Endpoint
<1>3. sent \in Nat /\ Filled(rx, sent) /\ rx \in RxState
  BY EndpointTypes DEF ReaderInv, HostBytes, HostByte
<1> HIDE DEF x
<1>4. /\ s[1] \in RxState /\ Filled(s[1], sent) /\ s[1].pos = 0 /\ s[1].sel = 1 /\ s[1].ongoing
      /\ s[2].busy => s[2].job = <<0>>
      /\ Queued(s[1]) = <<>> /\ Left(s[1]) \in Seq(HostByte) /\ Len(Left(s[1])) <= Size
      /\ Left(s[1]) # <<>> => sent > 0
  <2>1. z = Emptied(rx) /\ s = RxStart(z, x)
    OBVIOUS
  <2> HIDE DEF z, s
  <2>2. s[1] \in RxState /\ Filled(s[1], sent) /\ s[1].pos = 0 /\ s[1].sel = 1 /\ s[1].ongoing
    BY <1>2, <1>3, <2>1, RenewedQueue
  <2>3. s[2].busy => s[2].job = <<0>>
    BY <1>2, <1>3, <2>1, RenewedQueue
  <2>4. /\ Queued(s[1]) = <<>> /\ Left(s[1]) \in Seq(HostByte) /\ Len(Left(s[1])) <= Size
        /\ Left(s[1]) # <<>> => sent > 0
    BY <1>2, <1>3, <2>1, RenewedQueue
  <2> QED BY <2>2, <2>3, <2>4
<1> HIDE DEF s
<1>5. Readers' = Readers
  BY DEF Readers, Job
<1>6. trust' \in {"firm", "none"}
  BY DEF Renewed
<1>7. HostBytes'
  BY <1>1, <1>4, <1>6, EmptySeq DEF ReaderInv, HostBytes, Filled
<1>8. \A t \in Readers' : InBuffer(t, rx)'
  BY <1>1, <1>4, <1>5, InBufferAtZero
<1>9. trust' # "none" => \A t \in Readers : pc[t] \notin {"compare", "read", "advance", "run"}
  BY DEF Renewed
<1>10. Trusted'
  <2>1. InTurn(rx, ep["out"])'
    BY <1>1, <1>4 DEF InTurn, Other
  <2> QED BY <1>5, <1>9, <2>1 DEF Trusted, Orderly
<1>11. FirmLine'
  BY <1>5, <1>9, EmptySeq DEF FirmLine, Exact
<1>12. ToDevice' \in Seq(HostByte) /\ Len(ToDevice') <= Size /\ (ToDevice' # <<>> => sent > 0)
  <2>1. ToDevice' = IF Up' THEN Waiting(rx', bank'["out"]) ELSE <<>>
    BY DEF ToDevice, Waiting, Left, Queued
  <2>2. Waiting(rx', bank'["out"]) = Left(s[1])
    <3> DEFINE l == Left(s[1])
    <3>1. Waiting(rx', bank'["out"]) = (l \o <<>>) \o <<>>
      BY <1>1, <1>4, FlattenEmpty DEF Waiting
    <3>2. l \in Seq(HostByte)
      BY <1>4
    <3> HIDE DEF l
    <3>3. l \o <<>> = l
      BY <3>2, ConcatEmptySeq
    <3> QED BY <3>1, <3>3 DEF l
  <2>3. Size \in Nat /\ Len(<<>>) = 0 /\ <<>> \in Seq(HostByte)
    BY CdcAssumption, EmptySeq
  <2> QED BY <1>4, <2>1, <2>2, <2>3
<1>13. DeviceSideCut
  BY <1>6, <1>12, HostByteIsLineByte DEF DeviceSideCut
<1> QED BY <1>7, <1>8, <1>10, <1>11, <1>13 DEF ReaderInv

\* At most one task reads: udi_cdc_getc keeps nothing from a second one.
OneReader == \A t, u \in Readers : t = u

\* A step of the only reader.
LEMMA ReaderKept ==
  ASSUME ReaderInv, OneReader, NEW t \in Readers, UNCHANGED <<scene, sent, trust, bank>>,
         ep'["in"].on = ep["in"].on, Filled(rx', sent), delivered' \in HostByte,
         InBuffer(t, rx)',
         Up /\ trust # "none" => InTurn(rx, ep["out"])' /\ Orderly(t, rx, ep["out"])',
         Up /\ trust = "firm" => Exact(t, rx)'
  PROVE  ReaderInv'
<1>1. Readers' = Readers /\ (Up' <=> Up) /\ \A u \in Readers : u = t
  BY DEF Readers, Job, Up, OneReader
<1>2. HostBytes'
  BY DEF ReaderInv, HostBytes, Filled
<1>3. \A u \in Readers' : InBuffer(u, rx)'
  BY <1>1
<1>4. Trusted'
  BY <1>1 DEF Trusted
<1>5. FirmLine'
  BY <1>1 DEF ReaderInv, FirmLine
<1> QED BY <1>2, <1>3, <1>4, <1>5 DEF ReaderInv

\* A step of the only reader that does not change what it reads.
LEMMA ReaderLooks ==
  ASSUME ReaderInv, OneReader, NEW t \in Readers,
         UNCHANGED <<scene, sent, trust, bank, rx, ep, delivered>>,
         InBuffer(t, rx)', Orderly(t, rx, ep["out"])',
         Up /\ trust = "firm" => Exact(t, rx)'
  PROVE  ReaderInv' /\ DeviceSideKept
<1>1. Filled(rx', sent) /\ delivered' \in HostByte
  BY DEF ReaderInv, HostBytes
<1>2. Up /\ trust # "none" => InTurn(rx, ep["out"])'
  BY DEF ReaderInv, Trusted, InTurn
<1>3. ReaderInv'
  BY <1>1, <1>2, ReaderKept
<1>4. ToDevice' = ToDevice
  BY DEF ToDevice, Up
<1> QED BY <1>3, <1>4 DEF DeviceSideKept

\* What the reader has before its step.
ReaderHas(t) ==
  /\ t \in Readers /\ t \in Task /\ Job(t) \in {"getc", "read_buf"}
  /\ InBuffer(t, rx) /\ Filled(rx, sent) /\ rx \in RxState
  /\ Size \in Nat /\ Size > 0 /\ Chunk \in Nat

LEMMA ReaderFacts ==
  ASSUME TypeOK, ReaderInv, NEW t \in Task, ReaderStep(t)
  PROVE  ReaderHas(t)
<1>1. t \in Readers
  BY DEF ReaderStep, Get, Look, Compare, Empty, Read, Advance, Claim, RunReception, At,
         TypeOK, TasksOK, ReaderLabels
<1>2. Job(t) \in {"getc", "read_buf"}
  BY <1>1 DEF Readers
<1> QED BY <1>1, <1>2, EndpointTypes, CdcAssumption DEF ReaderInv, HostBytes, ReaderHas

\* Where the reader is after its step.
LEMMA ReaderAt ==
  ASSUME TypeOK, NEW t \in Task
  PROVE  /\ \A l : pc' = [pc EXCEPT ![t] = l] => pc'[t] = l
         /\ \A n : todo' = [todo EXCEPT ![t] = n] => todo'[t] = n
         /\ \A s : seen' = [seen EXCEPT ![t] = s] => seen'[t] = s
BY DEF TypeOK, TasksOK

\* The steps up to the read: the trust in the line says what the reader finds.
LEMMA ReaderGet ==
  ASSUME TypeOK, ReaderInv, OneReader, NEW t \in Task, UNCHANGED <<scene, sent, trust, bank>>, Get(t)
  PROVE  ReaderInv' /\ DeviceSideKept
<1>1. ReaderHas(t)
  BY ReaderFacts DEF ReaderStep
<1>2. UNCHANGED <<rx, ep, delivered, seen>> /\ Job(t)' = Job(t)
  BY DEF Get, Job
<1>3. pc'[t] \in {"idle", "look"} /\ (Job(t) = "read_buf" => todo'[t] = Chunk)
  BY <1>1, ReaderAt DEF Get, Begin, GoTo, ReaderHas
<1>4. InBuffer(t, rx)' /\ Orderly(t, rx, ep["out"])' /\ Exact(t, rx)'
  BY <1>1, <1>2, <1>3 DEF InBuffer, Orderly, Exact, ReaderHas
<1> QED BY <1>1, <1>2, <1>4, ReaderLooks DEF ReaderHas

LEMMA ReaderLook ==
  ASSUME TypeOK, ReaderInv, OneReader, NEW t \in Task, UNCHANGED <<scene, sent, trust, bank>>, Look(t)
  PROVE  ReaderInv' /\ DeviceSideKept
<1>1. ReaderHas(t)
  BY ReaderFacts DEF ReaderStep
<1>2. UNCHANGED <<rx, ep, delivered, todo>> /\ Job(t)' = Job(t) /\ pc[t] = "look"
  BY DEF Look, Job, At
<1>3. pc'[t] = "compare" /\ seen'[t] \in {<<"sel", rx.sel>>, <<"pos", rx.pos>>}
  BY <1>1, ReaderAt, Zenon DEF Look, GoTo
<1>4. rx.sel \in 0..1 /\ rx.pos \in Nat
  BY <1>1, FilledFacts DEF ReaderHas
<1>5. InBuffer(t, rx)' /\ Orderly(t, rx, ep["out"])' /\ Exact(t, rx)'
  <2>1. CASE seen'[t] = <<"sel", rx.sel>>
    BY <1>1, <1>2, <1>3, <1>4, <2>1 DEF InBuffer, Orderly, Exact, ReaderHas
  <2>2. CASE seen'[t] = <<"pos", rx.pos>>
    BY <1>1, <1>2, <1>3, <1>4, <2>2 DEF InBuffer, Orderly, Exact, ReaderHas
  <2> QED BY <1>3, <2>1, <2>2
<1> QED BY <1>1, <1>2, <1>5, ReaderLooks DEF ReaderHas

LEMMA ReaderCompare ==
  ASSUME TypeOK, ReaderInv, OneReader, NEW t \in Task, UNCHANGED <<scene, sent, trust, bank>>,
         Compare(t)
  PROVE  ReaderInv' /\ DeviceSideKept
<1> DEFINE sel == IF seen[t][1] = "sel" THEN seen[t][2] ELSE rx.sel
           pos == IF seen[t][1] = "pos" THEN seen[t][2] ELSE rx.pos
<1>1. ReaderHas(t)
  BY ReaderFacts DEF ReaderStep
<1>2. UNCHANGED <<rx, ep, delivered, todo, seen>> /\ Job(t)' = Job(t) /\ pc[t] = "compare"
  BY DEF Compare, Job, At
<1>3. pc'[t] = IF pos < rx.nb[sel] THEN "read" ELSE "empty"
  BY <1>1, ReaderAt, Zenon DEF Compare, GoTo
<1>4. Unread(rx)' <=> Unread(rx)
  BY <1>2 DEF Unread
<1>5. ASSUME pos < rx.nb[sel] PROVE rx.pos = 0 \/ Unread(rx)
  BY <1>1, <1>2, <1>5 DEF InBuffer, Unread, ReaderHas
<1>6. ASSUME pos < rx.nb[sel], Exact(t, rx) PROVE Unread(rx)
  BY <1>2, <1>6 DEF Exact, Unread
<1> HIDE DEF sel, pos
<1>7. InBuffer(t, rx)' /\ Orderly(t, rx, ep["out"])' /\ (Exact(t, rx) => Exact(t, rx)')
  BY <1>1, <1>2, <1>3, <1>4, <1>5, <1>6 DEF InBuffer, Orderly, Exact, ReaderHas
<1>8. Up /\ trust = "firm" => Exact(t, rx)
  BY <1>1 DEF ReaderInv, FirmLine, ReaderHas
<1> QED BY <1>1, <1>2, <1>7, <1>8, ReaderLooks DEF ReaderHas

LEMMA ReaderEmpty ==
  ASSUME TypeOK, ReaderInv, OneReader, NEW t \in Task, UNCHANGED <<scene, sent, trust, bank>>, Empty(t)
  PROVE  ReaderInv' /\ DeviceSideKept
<1>1. ReaderHas(t)
  BY ReaderFacts DEF ReaderStep
<1>2. UNCHANGED <<rx, ep, delivered, seen>> /\ Job(t)' = Job(t) /\ pc[t] = "empty"
  BY DEF Empty, Abandon, Job, At
<1>3. pc'[t] = "idle" \/ (pc'[t] = "look" /\ todo' = todo)
  BY <1>1, ReaderAt DEF Empty, Abandon, GoTo
<1>4. InBuffer(t, rx)' /\ Orderly(t, rx, ep["out"])' /\ Exact(t, rx)'
  BY <1>1, <1>2, <1>3 DEF InBuffer, Orderly, Exact, ReaderHas
<1> QED BY <1>1, <1>2, <1>4, ReaderLooks DEF ReaderHas

LEMMA ReaderRead ==
  ASSUME TypeOK, ReaderInv, OneReader, NEW t \in Task, UNCHANGED <<scene, sent, trust, bank>>, Read(t)
  PROVE  ReaderInv' /\ DeviceSideKept
<1>1. ReaderHas(t)
  BY ReaderFacts DEF ReaderStep
<1>2. /\ UNCHANGED <<rx, ep, delivered, todo>> /\ Job(t)' = Job(t) /\ pc[t] = "read"
      /\ Unread(rx)' <=> Unread(rx)
  BY DEF Read, Job, At, Unread
<1>3. pc'[t] = "advance"
  BY <1>1, ReaderAt, Zenon DEF Read, GoTo
<1>4. /\ rx.sel \in 0..1 /\ rx.pos \in Nat /\ rx.nb[rx.sel] \in Nat /\ rx.nb[rx.sel] <= Size
      /\ \A i \in 1..Size : rx.buf[rx.sel][i] \in HostByte
      /\ rx.pos = 0 \/ rx.pos < rx.nb[rx.sel]
  <2>1. rx.pos = 0 \/ Unread(rx)
    BY <1>1, <1>2 DEF ReaderHas, InBuffer
  <2> QED BY <1>1, <2>1, FilledFacts DEF ReaderHas, Unread
<1>5. Up /\ trust = "firm" => Unread(rx)
  BY <1>1, <1>2 DEF ReaderInv, FirmLine, ReaderHas, Exact
<1>6. /\ InBuffer(t, rx)' /\ Orderly(t, rx, ep["out"])' /\ (Unread(rx) => Exact(t, rx)')
  <2>1. CASE Job(t) = "getc"
    <3>1. seen'[t][2] = rx.buf[rx.sel][rx.pos + 1]
      BY <1>1, <2>1, ReaderAt DEF Read
    <3>2. rx.pos < Size /\ rx.pos + 1 \in 1..Size
      BY <1>1, <1>4 DEF ReaderHas
    <3>3. seen'[t][2] \in HostByte
      BY <1>4, <3>1, <3>2
    <3> QED BY <1>2, <1>3, <2>1, <3>1, <3>2, <3>3 DEF InBuffer, Orderly, Exact
  <2>2. CASE Job(t) = "read_buf"
    <3> DEFINE n == Least(rx.nb[rx.sel] - rx.pos, todo[t])
    <3>1. seen'[t] = <<"count", n>>
      BY <1>1, <2>2, ReaderAt, Zenon DEF Read
    <3>2. todo[t] \in Nat
      BY <1>1, <1>2, <2>2 DEF ReaderHas, InBuffer
    <3>3. n \in 0 .. todo[t] /\ rx.pos + n <= rx.nb[rx.sel] /\ rx.pos + n <= Size
      BY <1>1, <1>4, <3>2 DEF Least, ReaderHas
    <3> HIDE DEF n
    <3> QED BY <1>2, <1>3, <2>2, <3>1, <3>2, <3>3 DEF InBuffer, Orderly, Exact
  <2> QED BY <1>1, <2>1, <2>2 DEF ReaderHas
<1> QED BY <1>1, <1>2, <1>5, <1>6, ReaderLooks DEF ReaderHas

\* The reader takes bytes from the line, or is given what the trust in it allows.
DeviceSideGet ==
  /\ ToDevice # <<>> /\ delivered' = Head(ToDevice) /\ ToDevice' = Tail(ToDevice)
  /\ UNCHANGED <<sent, trust>>

DeviceSideSkip ==
  /\ \E n \in 1 .. Len(ToDevice) : ToDevice' = SubSeq(ToDevice, n + 1, Len(ToDevice))
  /\ UNCHANGED <<sent, trust, delivered>>

DeviceSidePhantom ==
  /\ trust = "weak" /\ UNCHANGED <<sent, trust>> /\ delivered' \in LineByte
  /\ ToDevice' = ToDevice \/ (ToDevice # <<>> /\ ToDevice' = Tail(ToDevice))

DeviceSideRead ==
  \/ DeviceSideKept \/ DeviceSideGet \/ DeviceSideSkip \/ DeviceSidePhantom
  \/ DeviceSideAnything

\* What is behind the bytes that are left in the buffer.
Behind(r) == Queued(r) \o FlattenSeq(bank["out"])

\* ToDevice with the buffer that is read in front.
LEMMA ToDeviceParts ==
  ASSUME TypeOK, ReaderInv, NEW r \in RxState, Filled(r, sent)
  PROVE  /\ Waiting(r, bank["out"]) = Left(r) \o Behind(r)
         /\ Left(r) \in Seq(HostByte) /\ Queued(r) \in Seq(HostByte) /\ Behind(r) \in Seq(HostByte)
         /\ Waiting(r, bank["out"]) \in Seq(HostByte)
<1> DEFINE l == Left(r)
           q == Queued(r)
           f == FlattenSeq(bank["out"])
<1>1. bank["out"] \in Seq(Seq(HostByte))
  BY PacketTypes DEF ReaderInv, HostBytes
<1>2. l \in Seq(HostByte) /\ q \in Seq(HostByte) /\ f \in Seq(HostByte)
  BY <1>1, LeftFacts, FlattenType
<1> HIDE DEF l, q, f
<1>3. (l \o q) \o f = l \o (q \o f) /\ l \o (q \o f) \in Seq(HostByte)
  BY <1>2, ConcatThree, Zenon
<1>4. q \o f \in Seq(HostByte)
  BY <1>2, ConcatProperties
<1> QED BY <1>2, <1>3, <1>4 DEF Waiting, Behind, l, q, f

\* The only reader goes on by k bytes.
LEMMA ReaderAdvances ==
  ASSUME TypeOK, ReaderInv, NEW k \in Nat, rx.pos + k <= Size, rx' = [rx EXCEPT !.pos = rx.pos + k],
         UNCHANGED <<scene, sent, trust, bank, ep>>
  PROVE  /\ rx' \in RxState /\ Filled(rx', sent)
         /\ rx'.sel = rx.sel /\ rx'.ongoing = rx.ongoing
         /\ Up => ToDevice = Left(rx) \o Behind(rx) /\ ToDevice' = Left(rx') \o Behind(rx)
         /\ ~Up => ToDevice' = ToDevice
         /\ ToDevice' \in Seq(HostByte)
         /\ rx.pos + k <= rx.nb[rx.sel] =>
              k \in 0 .. Len(Left(rx)) /\ Left(rx') = SubSeq(Left(rx), k + 1, Len(Left(rx)))
         /\ ~Unread(rx) => Left(rx') = <<>> /\ Left(rx) = <<>>
         /\ Left(rx) \in Seq(HostByte) /\ Behind(rx) \in Seq(HostByte)
<1>1. Filled(rx, sent) /\ rx \in RxState
  BY EndpointTypes DEF ReaderInv, HostBytes
<1>2. /\ rx' \in RxState /\ Filled(rx', sent) /\ rx'.sel = rx.sel /\ rx'.ongoing = rx.ongoing
      /\ Queued(rx') = Queued(rx)
      /\ rx.pos + k <= rx.nb[rx.sel] =>
           k \in 0 .. Len(Left(rx)) /\ Left(rx') = SubSeq(Left(rx), k + 1, Len(Left(rx)))
      /\ ~Unread(rx) => Left(rx') = <<>>
  <2>1. ASSUME NEW d, d = [rx EXCEPT !.pos = rx.pos + k]
        PROVE  /\ d \in RxState /\ Filled(d, sent) /\ d.sel = rx.sel /\ d.ongoing = rx.ongoing
               /\ Queued(d) = Queued(rx)
    BY <1>1, <2>1, AdvancedQueue
  <2>2. ASSUME NEW d, d = [rx EXCEPT !.pos = rx.pos + k], rx.pos + k <= rx.nb[rx.sel]
        PROVE  k \in 0 .. Len(Left(rx)) /\ Left(d) = SubSeq(Left(rx), k + 1, Len(Left(rx)))
    BY <1>1, <2>2, AdvancedQueue, Zenon
  <2>3. ASSUME NEW d, d = [rx EXCEPT !.pos = rx.pos + k], ~Unread(rx) PROVE Left(d) = <<>>
    BY <1>1, <2>3, AdvancedQueue
  <2> QED BY <2>1, <2>2, <2>3
<1>3. ~Unread(rx) => Left(rx) = <<>>
  BY <1>1, LeftFacts
<1>4. ToDevice' = IF Up THEN Waiting(rx', bank["out"]) ELSE <<>>
  BY DEF ToDevice, Up, Waiting, Left, Queued
<1>5. /\ Waiting(rx, bank["out"]) = Left(rx) \o Behind(rx)
      /\ Left(rx) \in Seq(HostByte) /\ Behind(rx) \in Seq(HostByte)
  BY <1>1, ToDeviceParts
<1>6. /\ Waiting(rx', bank["out"]) = Left(rx') \o Behind(rx')
      /\ Waiting(rx', bank["out"]) \in Seq(HostByte)
  BY <1>2, ToDeviceParts, Zenon
<1>7. Behind(rx') = Behind(rx)
  BY <1>2, Zenon DEF Behind
<1> QED BY <1>2, <1>3, <1>4, <1>5, <1>6, <1>7, ToDeviceForm, EmptySeq, Zenon

\* udi_cdc_rx_pos goes on: this is when bytes leave the line.
LEMMA ReaderAdvance ==
  ASSUME TypeOK, ReaderInv, OneReader, NEW t \in Task, UNCHANGED <<scene, sent, trust, bank>>,
         Advance(t)
  PROVE  ReaderInv' /\ DeviceSideRead
<1> DEFINE n == IF Job(t) = "getc" THEN 1 ELSE seen[t][2]
<1>1. ReaderHas(t)
  BY ReaderFacts DEF ReaderStep
<1>2. /\ UNCHANGED <<ep, seen>> /\ Job(t)' = Job(t) /\ pc[t] = "advance"
      /\ rx' = [rx EXCEPT !.pos = rx.pos + n]
      /\ delivered' = IF Job(t) = "getc" /\ Up THEN seen[t][2] ELSE delivered
  BY DEF Advance, Job, At
<1>3. pc'[t] = "claim" /\ todo'[t] = todo[t] - n
  BY <1>1, ReaderAt, Zenon DEF Advance, GoTo
<1>4. /\ n \in Nat /\ rx.pos + n <= Size
      /\ Job(t) = "read_buf" => todo[t] \in Nat /\ n = seen[t][2] /\ n <= todo[t]
      /\ Job(t) = "getc" => n = 1 /\ seen[t][2] \in HostByte
  <2>1. rx.pos \in Nat
    BY <1>1, FilledFacts DEF ReaderHas
  <2>2. CASE Job(t) = "getc"
    BY <1>1, <1>2, <2>1, <2>2 DEF ReaderHas, InBuffer
  <2>3. CASE Job(t) = "read_buf"
    BY <1>1, <1>2, <2>1, <2>3 DEF ReaderHas, InBuffer
  <2> QED BY <1>1, <2>2, <2>3 DEF ReaderHas
<1> HIDE DEF n
<1>5. /\ rx' \in RxState /\ Filled(rx', sent)
      /\ rx'.sel = rx.sel /\ rx'.ongoing = rx.ongoing
      /\ Up => ToDevice = Left(rx) \o Behind(rx) /\ ToDevice' = Left(rx') \o Behind(rx)
      /\ ~Up => ToDevice' = ToDevice
      /\ ToDevice' \in Seq(HostByte)
      /\ rx.pos + n <= rx.nb[rx.sel] =>
           n \in 0 .. Len(Left(rx)) /\ Left(rx') = SubSeq(Left(rx), n + 1, Len(Left(rx)))
      /\ ~Unread(rx) => Left(rx') = <<>> /\ Left(rx) = <<>>
      /\ Left(rx) \in Seq(HostByte) /\ Behind(rx) \in Seq(HostByte)
  BY <1>2, <1>4, ReaderAdvances, Zenon
<1>6. delivered' \in HostByte /\ delivered' \in LineByte /\ ToDevice' \in Seq(LineByte)
  <2>1. delivered' \in HostByte
    BY <1>2, <1>4 DEF ReaderInv, HostBytes
  <2> QED BY <1>5, <2>1, HostByteIsLineByte
<1>7. ReaderInv'
  <2>1. InBuffer(t, rx)'
    BY <1>1, <1>2, <1>3, <1>4 DEF InBuffer
  <2>2. Orderly(t, rx, ep["out"])' /\ Exact(t, rx)'
    BY <1>3 DEF Orderly, Exact
  <2>3. Up /\ trust # "none" => InTurn(rx, ep["out"])'
    BY <1>2, <1>5 DEF ReaderInv, Trusted, InTurn
  <2> QED BY <1>1, <1>2, <1>5, <1>6, <2>1, <2>2, <2>3, ReaderKept, Zenon DEF ReaderHas
<1>8. CASE ~Up
  BY <1>2, <1>5, <1>7, <1>8 DEF DeviceSideRead, DeviceSideKept
<1>9. CASE Up /\ trust = "none"
  BY <1>6, <1>7, <1>9 DEF DeviceSideRead, DeviceSideAnything
<1>10. CASE Up /\ trust # "none" /\ Job(t) = "getc"
  <2> DEFINE l == Left(rx)
             b == Behind(rx)
  <2>1. trust \in {"firm", "weak"} /\ n = 1 /\ delivered' = seen[t][2]
    BY <1>2, <1>4, <1>10 DEF ReaderInv, HostBytes
  <2>2. ToDevice = l \o b /\ ToDevice' = Left(rx') \o b /\ l \in Seq(HostByte) /\ b \in Seq(HostByte)
    BY <1>5, <1>10, Zenon
  <2>3. ASSUME Unread(rx)
        PROVE  ToDevice # <<>> /\ ToDevice' = Tail(ToDevice)
               /\ Head(ToDevice) = rx.buf[rx.sel][rx.pos + 1]
    <3>1. l # <<>> /\ l[1] = rx.buf[rx.sel][rx.pos + 1]
      BY <1>1, <2>3, LeftFacts DEF ReaderHas
    <3>2. rx.pos + n <= rx.nb[rx.sel]
      BY <1>1, <2>1, <2>3, FilledFacts DEF ReaderHas, Unread
    <3>3. Left(rx') = SubSeq(l, 2, Len(l))
      BY <1>5, <2>1, <3>2
    <3> HIDE DEF l, b
    <3>4. l \o b # <<>> /\ Head(l \o b) = l[1] /\ Tail(l \o b) = SubSeq(l, 2, Len(l)) \o b
      BY <2>2, <3>1, ConcatFirst, Zenon
    <3> QED BY <2>2, <3>1, <3>3, <3>4, Zenon
  <2>4. ~Unread(rx) => ToDevice' = ToDevice
    BY <1>5, <1>10
  <2>5. trust = "firm" => Unread(rx) /\ delivered' = rx.buf[rx.sel][rx.pos + 1]
    BY <1>1, <1>2, <1>10, <2>1 DEF ReaderInv, FirmLine, Exact, ReaderHas
  <2> QED BY <1>6, <1>7, <2>1, <2>3, <2>4, <2>5 DEF DeviceSideRead, DeviceSideGet, DeviceSidePhantom
<1>11. CASE Up /\ trust # "none" /\ Job(t) = "read_buf"
  <2> DEFINE l == Left(rx)
             b == Behind(rx)
  <2>1. n = 0 \/ rx.pos + n <= rx.nb[rx.sel]
    BY <1>1, <1>2, <1>4, <1>11 DEF ReaderInv, Trusted, Orderly, ReaderHas
  <2>2. ToDevice = l \o b /\ ToDevice' = Left(rx') \o b /\ l \in Seq(HostByte) /\ b \in Seq(HostByte)
    BY <1>5, <1>11, Zenon
  <2>3. delivered' = delivered
    BY <1>2, <1>11
  <2>4. CASE n = 0
    <3>1. rx.pos \in Int /\ rx.pos + n = rx.pos
      BY <1>1, <2>4, FilledFacts DEF ReaderHas
    <3>2. rx' = rx
      BY <1>1, <1>2, <3>1 DEF ReaderHas, RxState
    <3> QED BY <1>7, <2>2, <2>3, <3>2 DEF DeviceSideRead, DeviceSideKept
  <2>5. CASE n # 0 /\ rx.pos + n <= rx.nb[rx.sel]
    <3>1. n \in 0 .. Len(l) /\ Left(rx') = SubSeq(l, n + 1, Len(l))
      BY <1>5, <2>5
    <3> HIDE DEF l, b
    <3>2. SubSeq(l \o b, n + 1, Len(l \o b)) = SubSeq(l, n + 1, Len(l)) \o b
      BY <2>2, <3>1, ConcatParts, Zenon
    <3>3. Len(l) \in 0 .. Len(l \o b)
      BY <2>2, ConcatFront
    <3>4. Len(l \o b) \in Nat
      BY <2>2
    <3>5. n \in 1 .. Len(ToDevice)
      BY <1>4, <2>2, <2>5, <3>1, <3>3, <3>4
    <3>6. ToDevice' = SubSeq(ToDevice, n + 1, Len(ToDevice))
      BY <2>2, <3>1, <3>2, Zenon
    <3> QED BY <1>7, <2>3, <3>5, <3>6 DEF DeviceSideRead, DeviceSideSkip
  <2> QED BY <2>1, <2>4, <2>5
<1> QED BY <1>1, <1>8, <1>9, <1>10, <1>11 DEF ReaderHas

\* udi_cdc_rx_start as the reader calls it, in its two parts.
LEMMA ReaderClaim ==
  ASSUME TypeOK, ReaderInv, OneReader, NEW t \in Task, UNCHANGED <<scene, sent, trust, bank>>,
         Claim(t)
  PROVE  ReaderInv' /\ DeviceSideKept
<1>1. ReaderHas(t)
  BY ReaderFacts DEF ReaderStep
<1>2. UNCHANGED <<ep, todo, delivered>> /\ Job(t)' = Job(t) /\ pc[t] = "claim"
  BY DEF Claim, Job, At
<1>3. CASE rx.ongoing \/ Unread(rx)
  <2>1. UNCHANGED <<rx, seen>> /\ pc'[t] \in {"idle", "look"}
    BY <1>1, <1>3, ReaderAt DEF Claim, GoTo
  <2>2. InBuffer(t, rx)' /\ Orderly(t, rx, ep["out"])' /\ Exact(t, rx)'
    BY <1>1, <1>2, <2>1 DEF InBuffer, Orderly, Exact, ReaderHas
  <2> QED BY <1>1, <1>2, <2>1, <2>2, ReaderLooks DEF ReaderHas
<1>4. CASE ~rx.ongoing /\ ~Unread(rx)
  <2>1. pc'[t] = "run" /\ seen'[t] = <<"buf", rx.sel>> /\ rx' = Switched(rx)
    BY <1>1, <1>4, ReaderAt DEF Claim, GoTo
  <2>2. /\ Filled(rx', sent) /\ rx' \in RxState /\ rx'.sel = Other(rx.sel) /\ rx'.ongoing
        /\ Queued(rx') = <<>> /\ Left(rx') = Queued(rx)
        /\ Other(Other(rx.sel)) = rx.sel
    BY <1>1, <1>4, <2>1, SwitchedQueue, FilledFacts DEF ReaderHas
  <2>3. InBuffer(t, rx)' /\ Exact(t, rx)'
    BY <1>1, <1>2, <2>1 DEF InBuffer, Exact, ReaderHas
  <2>4. Up /\ trust # "none" => InTurn(rx, ep["out"])' /\ Orderly(t, rx, ep["out"])'
    BY <1>2, <1>4, <2>1, <2>2 DEF ReaderInv, Trusted, InTurn, Orderly
  <2>5. delivered' \in HostByte
    BY <1>2 DEF ReaderInv, HostBytes
  <2>6. ReaderInv'
    BY <1>1, <1>2, <2>2, <2>3, <2>4, <2>5, ReaderKept DEF ReaderHas
  <2>7. ToDevice' = ToDevice
    <3>1. ToDevice' = IF Up THEN Waiting(rx', bank["out"]) ELSE <<>>
      BY <1>2 DEF ToDevice, Up, Waiting, Left, Queued
    <3>2. Left(rx) = <<>> /\ Queued(rx) \in Seq(HostByte)
      BY <1>1, <1>4, LeftFacts DEF ReaderHas
    <3> DEFINE q == Queued(rx)
               f == FlattenSeq(bank["out"])
    <3>3. Waiting(rx', bank["out"]) = (q \o <<>>) \o f /\ Waiting(rx, bank["out"]) = (<<>> \o q) \o f
      BY <2>2, <3>2 DEF Waiting
    <3>4. q \in Seq(HostByte)
      BY <3>2
    <3> HIDE DEF q, f
    <3>5. q \o <<>> = q /\ <<>> \o q = q
      BY <3>4, ConcatEmptySeq
    <3> QED BY <3>1, <3>3, <3>5, ToDeviceForm
  <2> QED BY <1>2, <2>6, <2>7 DEF DeviceSideKept
<1> QED BY <1>3, <1>4

LEMMA ReaderRunReception ==
  ASSUME TypeOK, ReaderInv, OneReader, NEW t \in Task, UNCHANGED <<scene, sent, trust, bank>>,
         RunReception(t)
  PROVE  ReaderInv' /\ DeviceSideKept
<1> DEFINE j == <<seen[t][2]>>
<1>1. ReaderHas(t)
  BY ReaderFacts DEF ReaderStep
<1>2. /\ UNCHANGED <<rx, todo, seen, delivered>> /\ Job(t)' = Job(t) /\ pc[t] = "run"
      /\ ep' = [ep EXCEPT !["out"] = Run(ep["out"], j)]
  BY DEF RunReception, Job, At
<1>3. pc'[t] \in {"idle", "look"}
  BY <1>1, ReaderAt, Zenon DEF RunReception, GoTo
<1>4. ep'["in"] = ep["in"] /\ ep'["out"] = Run(ep["out"], j)
  BY <1>2, EndpointTypes DEF EPs
<1>5. InBuffer(t, rx)' /\ Orderly(t, rx, ep["out"])' /\ Exact(t, rx)'
  BY <1>1, <1>2, <1>3 DEF InBuffer, Orderly, Exact, ReaderHas
<1>6. ASSUME Up, trust # "none" PROVE InTurn(rx, ep["out"])'
  <2>1. seen[t][2] = Other(rx.sel) /\ rx.ongoing /\ ~ep["out"].busy
    BY <1>1, <1>2, <1>6 DEF ReaderInv, Trusted, Orderly, ReaderHas
  <2>2. ep["out"] \in Endpoint("out")
    BY EndpointTypes
  <2>3. Run(ep["out"], j).busy => Run(ep["out"], j).job = j
    BY <2>1, <2>2 DEF Run, Endpoint
  <2> QED BY <1>2, <1>4, <2>1, <2>3 DEF InTurn
<1>7. Filled(rx', sent) /\ delivered' \in HostByte
  BY <1>1, <1>2 DEF ReaderHas, ReaderInv, HostBytes
<1>8. ReaderInv'
  BY <1>1, <1>4, <1>5, <1>6, <1>7, ReaderKept DEF ReaderHas
<1>9. ToDevice' = ToDevice
  BY <1>2, <1>4 DEF ToDevice, Up
<1> QED BY <1>2, <1>8, <1>9 DEF DeviceSideKept

LEMMA ReaderReads ==
  ASSUME TypeOK, ReaderInv, OneReader, NEW t \in Task, UNCHANGED <<scene, sent, trust, bank>>,
         ReaderStep(t)
  PROVE  ReaderInv' /\ DeviceSideRead
BY ReaderGet, ReaderLook, ReaderCompare, ReaderEmpty, ReaderRead, ReaderAdvance, ReaderClaim,
   ReaderRunReception DEF ReaderStep, DeviceSideRead

-----------------------------------------------------------------------------
(* Both directions.                                                          *)

HostSideCome ==
  \E n \in 0 .. Len(LineHost) : /\ LineHost' = SubSeq(LineHost, n + 1, Len(LineHost))
                                /\ LineReceived' = SubSeq(LineHost, 1, n)

LineInv == WriterInv /\ ReaderInv

\* Each step concerns one direction, except for a reset.
LEMMA HostSideSteps ==
  ASSUME DeviceSideKept, HostSideKept \/ HostSidePut \/ HostSideCome
  PROVE  LineStep
<1>1. ToDevice' = ToDevice /\ UNCHANGED <<delivered, trust, sent>> /\ (sent > 0)' = (sent > 0)
  BY DEF DeviceSideKept
<1>2. CASE HostSideKept
  BY <1>1, <1>2, LineStutter DEF HostSideKept
<1>3. CASE HostSidePut
  BY <1>1, <1>3, LinePut DEF HostSidePut
<1>4. CASE HostSideCome
  BY <1>1, <1>4, LineCome DEF HostSideCome
<1> QED BY <1>2, <1>3, <1>4

LEMMA DeviceSideSteps ==
  ASSUME HostSideKept, DeviceSideRead \/ DeviceSideSend
  PROVE  LineStep
<1>1. LineHost' = LineHost /\ LineReceived' = LineReceived
  BY DEF HostSideKept
<1>2. CASE DeviceSideKept
  BY <1>2, HostSideSteps
<1>3. CASE DeviceSideGet
  BY <1>1, <1>3, LineGet DEF DeviceSideGet
<1>4. CASE DeviceSideSkip
  BY <1>1, <1>4, LineSkip DEF DeviceSideSkip
<1>5. CASE DeviceSidePhantom
  BY <1>1, <1>5, LinePhantom DEF DeviceSidePhantom
<1>6. CASE DeviceSideAnything
  BY <1>1, <1>6, LineAnything DEF DeviceSideAnything
<1>7. CASE DeviceSideSend
  BY <1>1, <1>7, LineSend DEF DeviceSideSend
<1> QED BY <1>2, <1>3, <1>4, <1>5, <1>6, <1>7 DEF DeviceSideRead

LEMMA CutSteps ==
  ASSUME HostSideCut, DeviceSideCut
  PROVE  LineStep
BY LineCut DEF HostSideCut, DeviceSideCut

\* The requests to halt an endpoint, and the interrupt of empty banks, leave the jobs.
LEMMA FlagsOnly ==
  ASSUME EndpointsOK, NEW e \in EPs, SetHalt(e) \/ ClearHalt(e) \/ BankEmpty(e), NEW i \in EPs
  PROVE  /\ ep'[i].on = ep[i].on /\ ep'[i].busy = ep[i].busy /\ ep'[i].job = ep[i].job
         /\ bank' = bank
<1>1. ep = [j \in EPs |-> ep[j]] /\ ep[e] \in Endpoint(e)
  BY DEF EndpointsOK
<1>2. bank' = bank
  BY DEF SetHalt, ClearHalt, BankEmpty
<1>3. PICK y : ep' = [ep EXCEPT ![e] = y] /\ y.on = ep[e].on /\ y.busy = ep[e].busy /\ y.job = ep[e].job
  <2>1. ASSUME NEW x \in Endpoint(e)
        PROVE  /\ [x EXCEPT !.wanted = TRUE, !.watch = TRUE].on = x.on
               /\ [x EXCEPT !.wanted = TRUE, !.watch = TRUE].busy = x.busy
               /\ [x EXCEPT !.wanted = TRUE, !.watch = TRUE].job = x.job
               /\ [x EXCEPT !.stalled = TRUE].on = x.on
               /\ [x EXCEPT !.stalled = TRUE].busy = x.busy
               /\ [x EXCEPT !.stalled = TRUE].job = x.job
               /\ [x EXCEPT !.stalled = FALSE, !.wanted = FALSE].on = x.on
               /\ [x EXCEPT !.stalled = FALSE, !.wanted = FALSE].busy = x.busy
               /\ [x EXCEPT !.stalled = FALSE, !.wanted = FALSE].job = x.job
               /\ [x EXCEPT !.watch = FALSE, !.wanted = FALSE, !.stalled = TRUE].on = x.on
               /\ [x EXCEPT !.watch = FALSE, !.wanted = FALSE, !.stalled = TRUE].busy = x.busy
               /\ [x EXCEPT !.watch = FALSE, !.wanted = FALSE, !.stalled = TRUE].job = x.job
    BY DEF Endpoint
  <2>2. CASE SetHalt(e)
    <3>1. CASE bank[e] # <<>>
      <4>1. ep' = [ep EXCEPT ![e] = [ep[e] EXCEPT !.wanted = TRUE, !.watch = TRUE]]
        BY <2>2, <3>1 DEF SetHalt
      <4> QED BY <1>1, <2>1, <4>1, Zenon
    <3>2. CASE bank[e] = <<>>
      <4>1. ep' = [ep EXCEPT ![e] = [ep[e] EXCEPT !.stalled = TRUE]]
        BY <2>2, <3>2 DEF SetHalt
      <4> QED BY <1>1, <2>1, <4>1, Zenon
    <3> QED BY <3>1, <3>2
  <2>3. CASE ClearHalt(e)
    <3>1. ep' = [ep EXCEPT ![e] = [ep[e] EXCEPT !.stalled = FALSE, !.wanted = FALSE]]
      BY <2>3, Zenon DEF ClearHalt
    <3> QED BY <1>1, <2>1, <3>1, Zenon
  <2>4. CASE BankEmpty(e)
    <3>1. ep' = [ep EXCEPT ![e] = [ep[e] EXCEPT !.watch = FALSE, !.wanted = FALSE, !.stalled = TRUE]]
      BY <2>4, Zenon DEF BankEmpty
    <3> QED BY <1>1, <2>1, <3>1, Zenon
  <2> QED BY <2>2, <2>3, <2>4
<1>4. CASE i = e
  BY <1>1, <1>2, <1>3, <1>4
<1>5. CASE i # e
  BY <1>1, <1>2, <1>3, <1>5
<1> QED BY <1>4, <1>5

\* Steps that concern neither direction.
LEMMA LineUntouched ==
  ASSUME LineInv, UNCHANGED <<scene, tx, rx, made, sent, host.last, delivered, trust>>,
         bank'["in"] = bank["in"], bank'["out"] = bank["out"],
         ep'["in"].busy = ep["in"].busy, ep'["in"].job = ep["in"].job,
         ep'["in"].on = ep["in"].on,
         ep'["out"].busy = ep["out"].busy, ep'["out"].job = ep["out"].job,
         \A t \in Readers \cup Writers :
           pc'[t] = pc[t] /\ todo'[t] = todo[t] /\ calls'[t] = calls[t] /\ seen'[t] = seen[t]
  PROVE  LineInv' /\ LineStep
<1>1. WriterInv' /\ HostSideKept
  BY WriterFrame DEF LineInv
<1>2. ReaderInv' /\ DeviceSideKept
  BY ReaderFrame DEF LineInv
<1> QED BY <1>1, <1>2, HostSideSteps DEF LineInv

\* The interrupts, and the packets that the host moves.
LEMMA LineSof ==
  ASSUME TypeOK, RoomInv, LineInv, Sof
  PROVE  LineInv' /\ LineStep
<1>1. WriterInv' /\ HostSideKept
  BY WriterSof DEF LineInv
<1> DEFINE r == IF configured THEN TxSend(tx, ep["in"], frame') ELSE <<tx, ep["in"]>>
<1>2. /\ UNCHANGED <<scene, pc, todo, seen, rx, sent, delivered, trust, bank>>
      /\ ep' = [ep EXCEPT !["in"] = r[2]] /\ frame' \in Nat
  BY EndpointTypes, CdcAssumption DEF Sof, taskVars, histVars
<1>3. r[2].on = ep["in"].on
  <2>1. TxSend(tx, ep["in"], frame')[2].on = ep["in"].on
    BY <1>2, EndpointTypes, TxSendFacts DEF SameFlags
  <2> QED BY <2>1
<1> HIDE DEF r
<1>4. ep'["in"].on = ep["in"].on /\ ep'["out"] = ep["out"]
  BY <1>2, <1>3, EndpointTypes DEF EPs
<1>5. ReaderInv' /\ DeviceSideKept
  BY <1>2, <1>4, ReaderFrame DEF LineInv
<1> QED BY <1>1, <1>5, HostSideSteps DEF LineInv

LEMMA LineDataSent ==
  ASSUME TypeOK, RoomInv, LineInv, DataSent
  PROVE  LineInv' /\ LineStep
<1>1. WriterInv' /\ HostSideKept
  BY WriterDataSent DEF LineInv
<1> DEFINE done == [tx EXCEPT !.buf[Other(tx.sel)] = <<>>, !.both = FALSE, !.ongoing = FALSE]
           r == TxSend(done, Finished(ep["in"]), frame)
<1>2. /\ UNCHANGED <<scene, pc, todo, seen, rx, sent, delivered, trust>>
      /\ ep' = [ep EXCEPT !["in"] = r[2]]
      /\ bank' = [bank EXCEPT !["in"] = Append(bank["in"], ep["in"].job)]
  BY DEF DataSent, taskVars, histVars
<1>3. r[2].on = ep["in"].on
  <2>1. done \in TxState
    BY EndpointTypes, DataSentFacts, Zenon
  <2>2. Finished(ep["in"]) \in Endpoint("in") /\ Finished(ep["in"]).on = ep["in"].on
    BY EndpointTypes, FinishedFacts DEF EPs, SameFlags
  <2> HIDE DEF done
  <2> QED BY <2>1, <2>2, EndpointTypes, TxSendFacts DEF SameFlags
<1> HIDE DEF r
<1>4. ep'["in"].on = ep["in"].on /\ ep'["out"] = ep["out"] /\ bank'["out"] = bank["out"]
  BY <1>2, <1>3, EndpointTypes, Zenon DEF EPs, TypeOK, EndpointsOK
<1>5. ReaderInv' /\ DeviceSideKept
  BY <1>2, <1>4, ReaderFrame DEF LineInv
<1> QED BY <1>1, <1>5, HostSideSteps DEF LineInv

LEMMA LineDataReceived ==
  ASSUME TypeOK, LineInv, DataReceived
  PROVE  LineInv' /\ LineStep
<1>1. ReaderInv' /\ (DeviceSideKept \/ DeviceSideAnything)
  BY ReaderDataReceived DEF LineInv
<1>2. UNCHANGED <<scene, tx, made, host, pc, todo, calls>>
  BY DEF DataReceived, taskVars, histVars
<1>3. ep'["in"] = ep["in"] /\ bank'["in"] = bank["in"]
  BY EndpointTypes, Zenon DEF DataReceived, TypeOK, EndpointsOK, EPs
<1>4. WriterInv' /\ HostSideKept
  BY <1>2, <1>3, WriterFrame DEF LineInv
<1> QED BY <1>1, <1>4, DeviceSideSteps DEF LineInv, DeviceSideRead

LEMMA LineInterrupts ==
  ASSUME TypeOK, RoomInv, LineInv, Interrupts
  PROVE  LineInv' /\ LineStep
<1>1. ASSUME StateSent PROVE LineInv' /\ LineStep
  <2>1. /\ UNCHANGED <<scene, tx, rx, made, sent, host, delivered, trust, pc, todo, calls, seen>>
        /\ ep'["in"] = ep["in"] /\ ep'["out"] = ep["out"]
        /\ bank'["in"] = bank["in"] /\ bank'["out"] = bank["out"]
    BY <1>1, EndpointTypes, Zenon DEF StateSent, taskVars, histVars, TypeOK, EndpointsOK, EPs
  <2> QED BY <2>1, LineUntouched
<1>2. ASSUME BankInterrupt PROVE LineInv' /\ LineStep
  <2>1. UNCHANGED <<scene, tx, rx, made, sent, host, delivered, trust, pc, todo, calls, seen>>
    BY <1>2 DEF BankInterrupt, taskVars, histVars
  <2>2. PICK e \in EPs : BankEmpty(e)
    BY <1>2 DEF BankInterrupt
  <2>3. \A i \in EPs : /\ ep'[i].on = ep[i].on /\ ep'[i].busy = ep[i].busy /\ ep'[i].job = ep[i].job
                       /\ bank' = bank
    BY <2>2, FlagsOnly DEF TypeOK
  <2> QED BY <2>1, <2>3, LineUntouched DEF EPs
<1> QED BY <1>1, <1>2, LineSof, LineDataSent, LineDataReceived DEF Interrupts

LEMMA LineTraffic ==
  ASSUME TypeOK, Paired, LineInv, Traffic
  PROVE  LineInv' /\ LineStep
<1>1. ASSUME HostGetsData PROVE LineInv' /\ LineStep
  <2>1. WriterInv' /\ (HostSideKept \/ HostSideCome)
    BY <1>1, WriterHostGetsData DEF LineInv, HostSideCome
  <2>2. UNCHANGED <<scene, rx, sent, delivered, trust, pc, todo, seen, ep>>
    BY <1>1 DEF HostGetsData, HostReads, taskVars
  <2>3. bank'["out"] = bank["out"]
    BY <1>1 DEF HostGetsData, HostReads, TypeOK, EndpointsOK, EPs
  <2>4. ReaderInv' /\ DeviceSideKept
    BY <2>2, <2>3, ReaderFrame DEF LineInv
  <2> QED BY <2>1, <2>4, HostSideSteps DEF LineInv
<1>2. ASSUME HostGetsState PROVE LineInv' /\ LineStep
  <2>1. /\ UNCHANGED <<scene, tx, rx, made, sent, delivered, trust, pc, todo, calls, seen, ep>>
        /\ host' = [host EXCEPT !.state = Head(bank["comm"])]
        /\ bank'["in"] = bank["in"] /\ bank'["out"] = bank["out"]
    BY <1>2 DEF HostGetsState, HostReads, taskVars, TypeOK, EndpointsOK, EPs
  <2>2. host'.last = host.last
    BY <2>1 DEF TypeOK, DriverOK
  <2> QED BY <2>1, <2>2, LineUntouched
<1>3. ASSUME NEW n \in 0..Size, HostSendsData(n) PROVE LineInv' /\ LineStep
  <2>1. ReaderInv' /\ DeviceSideSend
    BY <1>3, ReaderHostSendsData DEF LineInv
  <2>2. UNCHANGED <<scene, tx, made, host, pc, todo, calls, ep>> /\ bank'["in"] = bank["in"]
    BY <1>3 DEF HostSendsData, HostWrites, taskVars, TypeOK, EndpointsOK, EPs
  <2>3. WriterInv' /\ HostSideKept
    BY <2>2, WriterFrame DEF LineInv
  <2> QED BY <2>1, <2>3, DeviceSideSteps DEF LineInv
<1> QED BY <1>1, <1>2, <1>3 DEF Traffic

\* The requests: every one that empties the banks of a direction cuts the line.
LEMMA DrainedBanks ==
  ASSUME NEW B \in SUBSET EPs, bank' = Drained(B)
  PROVE  \A e \in EPs : bank'[e] = IF e \in B THEN <<>> ELSE bank[e]
BY DEF Drained

LEMMA LineGoesDown ==
  ASSUME TypeOK, LineInv, BusReset \/ Attach
  PROVE  LineInv' /\ LineStep
<1>1. /\ UNCHANGED <<scene, tx, rx, made, sent, delivered, trust, pc, todo, calls, seen>>
      /\ ep'["in"] = Freed(ep["in"]) /\ bank' = Drained(EPs)
      /\ host' = [host EXCEPT !.state = {}]
  BY DEF BusReset, Attach, Unconfigure, taskVars
<1>2. bank'["in"] = <<>> /\ bank'["out"] = <<>>
  BY <1>1, DrainedBanks DEF EPs
<1>3. host'.last = host.last
  BY <1>1 DEF TypeOK, DriverOK
<1>4. WriterInv' /\ HostSideCut
  BY <1>1, <1>2, <1>3, WriterOff DEF LineInv
<1>5. ReaderInv' /\ DeviceSideCut
  BY <1>1, <1>2, ReaderOff DEF LineInv
<1> QED BY <1>4, <1>5, CutSteps DEF LineInv

LEMMA LineIsConfigured ==
  ASSUME TypeOK, LineInv, SetConfiguration
  PROVE  LineInv' /\ LineStep
<1> DEFINE in == Allocated(Freed(ep["in"]))
           out == Allocated(Freed(ep["out"]))
           comm == Reallocated(Allocated(CommFreed[2]))
<1>1. /\ UNCHANGED <<scene, made, sent, delivered, pc, todo, calls, seen>>
      /\ DataEnable(in, out, comm) /\ bank' = Drained(EPs)
      /\ host' = [host EXCEPT !.state = {}] /\ trust' = Renewed
  BY DEF SetConfiguration, taskVars
<1>2. in \in Endpoint("in") /\ out \in Endpoint("out") /\ comm \in Endpoint("comm")
  <2>1. in \in Endpoint("in") /\ out \in Endpoint("out")
    BY EndpointTypes, FreedFacts, AllocatedFacts, Zenon DEF EPs
  <2>2. comm \in Endpoint("comm")
    BY CommAnewFacts
  <2> QED BY <2>1, <2>2
<1>3. bank'["in"] = <<>> /\ bank'["out"] = <<>>
  BY <1>1, DrainedBanks DEF EPs
<1>4. host'.last = host.last
  BY <1>1 DEF TypeOK, DriverOK
<1>5. WriterInv' /\ HostSideCut
  <2> HIDE DEF out, comm
  <2> QED BY <1>1, <1>2, <1>3, <1>4, WriterOn DEF LineInv
<1>6. ReaderInv' /\ DeviceSideCut
  <2> HIDE DEF in, comm
  <2> QED BY <1>1, <1>2, <1>3, ReaderOn DEF LineInv
<1> QED BY <1>5, <1>6, CutSteps DEF LineInv

LEMMA LineIsSet ==
  ASSUME TypeOK, LineInv, NEW exists \in BOOLEAN, SetDataInterface(exists)
  PROVE  LineInv' /\ LineStep
<1> DEFINE in == Allocated(Freed(ep["in"]))
           out == Allocated(Freed(ep["out"]))
           comm == Reallocated(ep["comm"])
<1>1. /\ UNCHANGED <<scene, made, sent, host, delivered, pc, todo, calls, seen>>
      /\ \/ DataEnable(in, out, comm)
         \/ ep' = [ep EXCEPT !["in"] = Freed(ep["in"]), !["out"] = Freed(ep["out"])]
            /\ UNCHANGED <<tx, rx>>
      /\ bank' \in {Drained(EPs), Drained({"in", "out"})} /\ trust' = Renewed
  BY DEF SetDataInterface, taskVars
<1>2. in \in Endpoint("in") /\ out \in Endpoint("out") /\ comm \in Endpoint("comm")
  BY EndpointTypes, FreedFacts, AllocatedFacts, ReallocatedFacts, Zenon DEF EPs
<1>3. bank'["in"] = <<>> /\ bank'["out"] = <<>>
  BY <1>1, DrainedBanks DEF EPs
<1>4. CASE DataEnable(in, out, comm)
  <2>1. WriterInv' /\ HostSideCut
    <3> HIDE DEF out, comm
    <3> QED BY <1>1, <1>2, <1>3, <1>4, WriterOn DEF LineInv
  <2>2. ReaderInv' /\ DeviceSideCut
    <3> HIDE DEF in, comm
    <3> QED BY <1>1, <1>2, <1>3, <1>4, ReaderOn DEF LineInv
  <2> QED BY <2>1, <2>2, CutSteps DEF LineInv
<1>5. CASE /\ ep' = [ep EXCEPT !["in"] = Freed(ep["in"]), !["out"] = Freed(ep["out"])]
           /\ UNCHANGED <<tx, rx>>
  <2>1. ep'["in"] = Freed(ep["in"])
    BY <1>5, EndpointTypes DEF EPs
  <2>2. WriterInv' /\ HostSideCut
    BY <1>1, <1>3, <1>5, <2>1, WriterOff DEF LineInv
  <2>3. ReaderInv' /\ DeviceSideCut
    BY <1>1, <1>3, <1>5, <2>1, ReaderOff DEF LineInv
  <2> QED BY <2>2, <2>3, CutSteps DEF LineInv
<1> QED BY <1>1, <1>4, <1>5

LEMMA LineRequests ==
  ASSUME TypeOK, LineInv, Requests
  PROVE  LineInv' /\ LineStep
<1>1. ASSUME Detach PROVE LineInv' /\ LineStep
  BY <1>1, LineUntouched DEF Detach, taskVars, epVars
<1>2. ASSUME NEW exists \in BOOLEAN, SetCommInterface(exists) PROVE LineInv' /\ LineStep
  <2>1. /\ UNCHANGED <<scene, tx, rx, made, sent, delivered, trust, pc, todo, calls, seen>>
        /\ \E y : ep' = [ep EXCEPT !["comm"] = y]
        /\ bank' = Drained({"comm"})
        /\ host' = [host EXCEPT !.state = {}]
    BY <1>2 DEF SetCommInterface, taskVars
  <2>2. bank'["in"] = bank["in"] /\ bank'["out"] = bank["out"]
    BY <2>1, DrainedBanks DEF EPs
  <2>3. ep'["in"] = ep["in"] /\ ep'["out"] = ep["out"]
    BY <2>1, EndpointTypes DEF EPs
  <2>4. host'.last = host.last
    BY <2>1 DEF TypeOK, DriverOK
  <2> QED BY <2>1, <2>2, <2>3, <2>4, LineUntouched
<1>3. ASSUME HaltEndpoint \/ ReleaseEndpoint PROVE LineInv' /\ LineStep
  <2>1. UNCHANGED <<scene, tx, rx, made, sent, host, delivered, trust, pc, todo, calls, seen>>
    BY <1>3 DEF HaltEndpoint, ReleaseEndpoint, taskVars, histVars
  <2>2. PICK e \in EPs : SetHalt(e) \/ ClearHalt(e)
    BY <1>3 DEF HaltEndpoint, ReleaseEndpoint
  <2>3. \A i \in EPs : /\ ep'[i].on = ep[i].on /\ ep'[i].busy = ep[i].busy /\ ep'[i].job = ep[i].job
                       /\ bank' = bank
    BY <2>2, FlagsOnly DEF TypeOK
  <2> QED BY <2>1, <2>3, LineUntouched DEF EPs
<1> QED BY <1>1, <1>2, <1>3, LineGoesDown, LineIsConfigured, LineIsSet DEF Requests

\* A task that is not stepping stays where it is.
OthersStay(t) ==
  \A u \in Task \ {t} :
    pc'[u] = pc[u] /\ todo'[u] = todo[u] /\ calls'[u] = calls[u] /\ seen'[u] = seen[u]

LEMMA OnlyOneSteps ==
  ASSUME TasksOK, NEW t \in Task, WriterStep(t) \/ ReaderStep(t) \/ SignalStep(t)
  PROVE  OthersStay(t)
<1>1. /\ pc' = pc \/ \E l : pc' = [pc EXCEPT ![t] = l]
      /\ todo' = todo \/ \E n : todo' = [todo EXCEPT ![t] = n]
      /\ calls' = calls \/ \E n : calls' = [calls EXCEPT ![t] = n]
      /\ seen' = seen \/ \E s : seen' = [seen EXCEPT ![t] = s]
  <2>1. CASE Put(t) \/ Full(t) \/ Get(t) \/ Empty(t) \/ Signal(t)
    BY <2>1 DEF Put, Full, Get, Empty, Signal, Begin, Abandon, GoTo
  <2>2. CASE TestRoom(t) \/ SwitchBuffer(t) \/ TestRoomAgain(t) \/ Compare(t)
    BY <2>2 DEF TestRoom, SwitchBuffer, TestRoomAgain, Compare, GoTo
  <2>3. CASE Write(t) \/ Advance(t)
    BY <2>3 DEF Write, Advance, GoTo
  <2>4. CASE Look(t) \/ Read(t) \/ Claim(t) \/ RunReception(t)
    BY <2>4, Zenon DEF Look, Read, Claim, RunReception, GoTo
  <2>5. CASE NotifyHost(t) \/ RunMessage(t) \/ AssignOngoing(t)
    BY <2>5 DEF NotifyHost, RunMessage, AssignOngoing, GoTo
  <2> QED BY <2>1, <2>2, <2>3, <2>4, <2>5 DEF WriterStep, ReaderStep, SignalStep
<1>2. /\ pc \in [Task -> Labels] /\ todo \in [Task -> Int] /\ calls \in [Task -> Nat]
      /\ seen = [u \in Task |-> seen[u]]
  BY DEF TasksOK
<1> QED BY <1>1, <1>2 DEF OthersStay

\* The steps of the tasks.
LEMMA LineWriter ==
  ASSUME TypeOK, TypeOK', RoomInv, LineInv, NEW t \in Task, WriterStep(t), ~Overrun,
         UNCHANGED <<scene, sent, host, trust, bank>>
  PROVE  LineInv' /\ LineStep
<1>1. t \in Writers
  BY DEF WriterStep, Put, TestRoom, SwitchBuffer, TestRoomAgain, Full, Write, At,
     TypeOK, TasksOK, WriterLabels
<1>2. UNCHANGED <<rx, delivered, ep>>
  BY DEF WriterStep, Put, TestRoom, SwitchBuffer, TestRoomAgain, Full, Write
<1>3. t \notin Readers /\ Readers \subseteq Task
  BY <1>1 DEF Writers, Readers
<1>4. ReaderInv' /\ DeviceSideKept
  <2>1. OthersStay(t)
    BY OnlyOneSteps DEF TypeOK
  <2> QED BY <1>2, <1>3, <2>1, ReaderFrame DEF LineInv, OthersStay
<1>5. WriterInv' /\ (HostSideKept \/ HostSidePut)
  <2>1. CASE Put(t) \/ TestRoom(t) \/ TestRoomAgain(t) \/ Full(t)
    <3>1. UNCHANGED <<tx, ep, made>> /\ WithinBudget' /\ SwitchesOnce'
      BY <2>1, WriterMovesNothing DEF LineInv
    <3>2. Writers' = Writers /\ (Contended' <=> Contended)
      BY DEF Writers, Contended, Job
    <3>3. SentInOrder' /\ MadeBytes'
      BY <3>1 DEF LineInv, WriterInv, SentInOrder, InOrder, MadeBytes
    <3>4. HostSideKept
      BY <3>1, <3>2 DEF HostSideKept, LineHost, LineReceived, ToHost, Up
    <3> QED BY <3>1, <3>3, <3>4 DEF WriterInv
  <2>2. CASE SwitchBuffer(t)
    BY <2>2, WriterSwitches DEF LineInv
  <2>3. CASE Write(t)
    BY <2>3, WriterWrites DEF LineInv
  <2> QED BY <2>1, <2>2, <2>3 DEF WriterStep
<1> QED BY <1>4, <1>5, HostSideSteps DEF LineInv

LEMMA LineReader ==
  ASSUME TypeOK, LineInv, OneReader, NEW t \in Task, ReaderStep(t),
         UNCHANGED <<scene, sent, host, trust, bank>>
  PROVE  LineInv' /\ LineStep
<1>1. ReaderInv' /\ DeviceSideRead
  BY ReaderReads DEF LineInv
<1>2. t \in Readers
  BY ReaderFacts DEF LineInv, ReaderHas
<1>3. t \notin Writers /\ Writers \subseteq Task
  BY <1>2 DEF Writers, Readers
<1>4. UNCHANGED <<tx, made>>
  BY DEF ReaderStep, Get, Look, Compare, Empty, Read, Advance, Claim, RunReception
<1>5. ep'["in"] = ep["in"]
  BY EndpointTypes
     DEF ReaderStep, Get, Look, Compare, Empty, Read, Advance, Claim, RunReception, EPs
<1>6. WriterInv' /\ HostSideKept
  <2>1. OthersStay(t)
    BY OnlyOneSteps DEF TypeOK
  <2> QED BY <1>3, <1>4, <1>5, <2>1, WriterFrame DEF LineInv, OthersStay
<1> QED BY <1>1, <1>6, DeviceSideSteps DEF LineInv

LEMMA LineSignaller ==
  ASSUME TypeOK, LineInv, NEW t \in Task, SignalStep(t),
         UNCHANGED <<scene, sent, host, trust, bank>>
  PROVE  LineInv' /\ LineStep
<1>1. t \in Signallers
  BY DEF SignalStep, Signal, NotifyHost, RunMessage, AssignOngoing, At,
     TypeOK, TasksOK, SignalLabels
<1>2. t \notin Readers \cup Writers /\ Readers \cup Writers \subseteq Task
  BY <1>1 DEF Signallers, Writers, Readers
<1>3. UNCHANGED <<tx, rx, made, delivered>>
  BY DEF SignalStep, Signal, NotifyHost, RunMessage, AssignOngoing
<1>4. ep'["in"] = ep["in"] /\ ep'["out"] = ep["out"]
  BY EndpointTypes DEF SignalStep, Signal, NotifyHost, RunMessage, AssignOngoing, EPs
<1>5. OthersStay(t)
  BY OnlyOneSteps DEF TypeOK
<1> QED BY <1>2, <1>3, <1>4, <1>5, LineUntouched DEF OthersStay

\* In no scene do two tasks read: udi_cdc_getc looks and reads in separate steps.
OneReaderEver ==
  \A s \in Scenes : \A t, u \in Task :
    s.job[t] \in {"getc", "read_buf"} /\ s.job[u] \in {"getc", "read_buf"} => t = u

\* The port is a serial line, for any tasks of which at most one reads, any sizes of
\* the buffers, any number of banks and any resets: through the switching of the
\* buffers in udi_cdc.c, whatever interrupts a task between two accesses to the
\* variables of a direction, no byte is lost, doubled or overtaken while the line is
\* up, except as SerialLine says.
THEOREM PortIsSerialLine == ASSUME OneReaderEver PROVE Spec => ImplementsSerialLine
<1>1. Init => LineInv
  BY WriterInit, ReaderInit DEF LineInv
<1>2. Init => Line!Init
  <2> SUFFICES ASSUME Init PROVE Line!Init
    OBVIOUS
  <2>1. sent = 0 /\ delivered = 0 /\ trust = "firm" /\ ~Up /\ host.last = <<>>
    BY DEF Init, Up, Off, EPs
  <2>2. ToHost = <<>> /\ ToDevice = <<>>
    BY <2>1 DEF ToHost, ToDevice
  <2>3. 0 \in LineByte
    BY TypeInit, ReaderInit, HostByteIsLineByte, <2>1 DEF ReaderInv, HostBytes
  <2> QED BY <2>1, <2>2, <2>3 DEF Line!Init, LineByte
<1>3. ASSUME TypeOK, TypeOK', JobInv, RoomInv, LineInv, [Next]_vars PROVE LineInv' /\ LineStep
  <2>1. OneReader
    BY <1>3 DEF OneReader, OneReaderEver, Readers, Job, TypeOK, TasksOK
  <2>2. CASE UNCHANGED vars
    BY <1>3, <2>2, LineUntouched DEF vars, taskVars, histVars, epVars
  <2>3. CASE Interrupts \/ Requests \/ Traffic
    BY <1>3, <2>3, LineInterrupts, LineRequests, LineTraffic DEF JobInv
  <2>4. CASE ~Overrun /\ \E t \in Task : TaskStep(t)
    BY <1>3, <2>1, <2>4, LineWriter, LineReader, LineSignaller DEF TaskStep
  <2> QED BY <1>3, <2>2, <2>3, <2>4 DEF Next, Goes
<1>4. TypeOK /\ TypeOK' /\ JobInv /\ RoomInv /\ LineInv /\ [Next]_vars => LineInv'
  BY <1>3
<1>5. TypeOK /\ TypeOK' /\ JobInv /\ RoomInv /\ LineInv /\ [Next]_vars => [Line!Next]_(Line!vars)
  BY <1>3 DEF LineStep
<1> QED BY <1>1, <1>2, <1>4, <1>5, RoomAlways, JobAlways, TypeCorrect, PTL
    DEF Spec, ImplementsSerialLine, Line!Spec

-----------------------------------------------------------------------------
(* The control endpoint                                                      *)

Packets == [of : ControlRequests, from : Nat, size : Nat]

Ctrl ==
  [state : {"setup", "stall", "data_in", "data_out", "wait_in", "wait_out"},
   req : ControlRequests \cup {None}, moved : Nat, size : Nat, zlp : BOOLEAN,
   callback : BOOLEAN, setup : ControlRequests \cup {None}, out : Packets \cup {None},
   in : Packets \cup {None}, sends : BOOLEAN, watchIn : BOOLEAN, watchOut : BOOLEAN,
   nakIn : BOOLEAN, nakOut : BOOLEAN, stall : BOOLEAN]

ControlTypeOK ==
  /\ ep0 \in Ctrl
  /\ asked \in ControlRequests \cup {None} /\ stage \in {"data", "status", "done", "refused"}
  /\ put \in Nat /\ got \in Nat /\ broken \in BOOLEAN

HostInv ==
  /\ asked = None => stage = "done" /\ ep0.setup = None
  /\ stage = "data" => ~broken /\ (asked.in \/ put < asked.length)
  /\ stage = "status" /\ ~broken =>
       IF asked.in THEN ep0.setup = None /\ got = asked.payload ELSE put = asked.length
  /\ ep0.setup # None =>
       ep0.setup = asked /\ put = 0 /\ got = 0 /\ ep0.in = None /\ ~ep0.stall /\ Open

RestInv ==
  /\ ep0.callback => ep0.state = "wait_in" /\ ep0.req \in ControlRequests /\ ep0.req.kind = "address"
  /\ ep0.sends => ep0.state \in {"data_in", "wait_in"}
  /\ ep0.state \in {"setup", "stall"} => ep0.out = None
  /\ ep0.stall /\ ~broken => ep0.state = "stall"
  /\ ep0.setup = None =>
      /\ ep0.state = "setup" /\ Open => ep0.stall
      /\ ep0.state = "stall" => ep0.stall /\ (Open => ~Known(asked, address))
      /\ ep0.state \notin {"setup", "stall"} => ep0.req = asked /\ asked # None
      /\ Open /\ asked.in /\ ep0.state # "stall" => ep0.state \in {"data_in", "wait_out"} /\ ep0.out = None

InState(s) == ep0.state = s /\ ep0.setup = None

Remain == ep0.size - ep0.moved
DataIn ==
  InState("data_in") =>
    /\ asked.in /\ ep0.sends /\ ep0.size = asked.payload /\ ep0.moved <= ep0.size
    /\ ep0.moved < ep0.size => Remain % CtrlSize = ep0.size % CtrlSize
    /\ ep0.zlp => ep0.size % CtrlSize = 0
    /\ ep0.moved < ep0.size /\ ep0.size % CtrlSize = 0 => ep0.zlp
    /\ ep0.in # None =>
         /\ ep0.in.of = asked /\ ep0.in.size <= CtrlSize
         /\ ep0.in.from + ep0.in.size = ep0.moved
         /\ ep0.in.size < CtrlSize <=> ep0.moved = ep0.size /\ ~ep0.zlp
    /\ stage = "data" =>
         IF ep0.in = None THEN got = ep0.moved /\ (ep0.moved < ep0.size \/ ep0.zlp)
                          ELSE got = ep0.in.from

WaitOut ==
  InState("wait_out") =>
    /\ asked.in /\ ep0.in = None /\ stage # "data"
    /\ ep0.out = None /\ ~broken => ~ep0.nakIn

DataOut ==
  InState("data_out") =>
    /\ ~asked.in /\ ep0.size = asked.length /\ got = ep0.moved /\ ep0.moved < ep0.size
    /\ ep0.in = None /\ Open /\ ~ep0.stall
    /\ ep0.out = None => put = ep0.moved /\ (~broken => ~ep0.nakIn)
    /\ ep0.out # None =>
         /\ ep0.out.of = asked /\ ep0.out.from = ep0.moved /\ ep0.out.size <= CtrlSize
         /\ ep0.out.size = CtrlSize \/ ~broken => put = ep0.moved + ep0.out.size
         /\ ~broken => ep0.out.size = CtrlSize \/ put = asked.length

WaitIn ==
  InState("wait_in") =>
    /\ ~asked.in /\ ep0.sends /\ stage # "data"
    /\ ep0.callback <=> asked.kind = "address"
    /\ IF ep0.in = None THEN stage = "done" ELSE ep0.in.size = 0 /\ stage # "done"
    /\ ~broken => got = asked.length /\ ~ep0.nakOut /\ ep0.out = None

Inv == ControlTypeOK /\ HostInv /\ RestInv /\ DataIn /\ WaitOut /\ DataOut /\ WaitIn

-----------------------------------------------------------------------------

\* The fields of the driver's state that a step leaves as they are.
SameRequest(x, y) ==
  /\ y.state = x.state /\ y.req = x.req /\ y.moved = x.moved /\ y.size = x.size
  /\ y.zlp = x.zlp /\ y.callback = x.callback
SamePackets(x, y) == y.setup = x.setup /\ y.out = x.out /\ y.in = x.in /\ y.sends = x.sends

LEMMA InvNak ==
  ASSUME ControlAssumption, Inv, NakIn \/ NakOut PROVE Inv'
<1>1. ep0 \in Ctrl
  BY DEF Inv, ControlTypeOK
<1>2. /\ ep0' \in Ctrl /\ SameRequest(ep0, ep0') /\ SamePackets(ep0, ep0')
      /\ ep0'.stall = ep0.stall /\ UNCHANGED <<asked, stage, put, got, broken, address>>
      /\ ep0'.nakIn # ep0.nakIn => Reads /\ (ep0.setup # None \/ (~ep0.stall /\ ep0.in = None))
      /\ ep0'.nakOut # ep0.nakOut => Writes /\ (ep0.setup # None \/ (~ep0.stall /\ ep0.out # None))
  BY <1>1, Zenon DEF NakIn, NakOut, Ctrl, SameRequest, SamePackets, hostVars
<1> USE DEF SameRequest, SamePackets
<1>3. ControlTypeOK'
  BY <1>2 DEF Inv, ControlTypeOK
<1>4. HostInv'
  BY <1>2 DEF Inv, HostInv, Open
<1>5. RestInv'
  BY <1>2 DEF Inv, RestInv, Open
<1>6. DataIn'
  BY <1>2 DEF Inv, DataIn, InState, Remain
<1>7. WaitOut'
  BY <1>2, Zenon DEF Inv, WaitOut, InState, Reads, Open, RestInv
<1>8. DataOut'
  <2>1. ep0.moved \in Nat /\ ep0.size \in Nat
    BY <1>1 DEF Ctrl
  <2>2. ASSUME InState("data_out"), ~broken, ep0.out = None PROVE ~Reads
    <3>1. ~asked.in /\ put = ep0.moved /\ ep0.moved < asked.length
      BY <2>2 DEF Inv, DataOut
    <3>2. asked.in = FALSE
      BY <2>2, <3>1 DEF Inv, RestInv, InState, ControlTypeOK, ControlAssumption
    <3>3. put # asked.length
      BY <2>1, <3>1
    <3> QED BY <2>2, <3>1, <3>2, <3>3, Zenon DEF Inv, HostInv, Reads, Open
  <2> QED BY <1>2, <2>2 DEF Inv, DataOut, InState, Open
<1>9. WaitIn'
  BY <1>2 DEF Inv, WaitIn, InState, Reads, Writes, Open
<1> QED BY <1>3, <1>4, <1>5, <1>6, <1>7, <1>8, <1>9 DEF Inv

LEMMA InvSetup ==
  ASSUME ControlAssumption, Inv, NEW r \in ControlRequests, Setup(r) PROVE Inv'
<1>1. ep0 \in Ctrl /\ r # None
  BY DEF Inv, ControlTypeOK, ControlAssumption
<1>2. /\ ep0' \in Ctrl /\ SameRequest(ep0, ep0') /\ ep0'.setup = r /\ ep0'.in = None
      /\ ep0'.out = ep0.out /\ ep0'.sends = ep0.sends /\ ~ep0'.stall
  BY <1>1, Zenon DEF Setup, Ctrl, SameRequest
<1>3. /\ asked' = r /\ put' = 0 /\ got' = 0 /\ broken' = FALSE
      /\ stage' = IF r.in \/ r.length > 0 THEN "data" ELSE "status"
  BY DEF Setup
<1> USE DEF SameRequest
<1>4. ControlTypeOK'
  BY <1>2, <1>3, Zenon DEF Inv, ControlTypeOK
<1>5. HostInv'
  BY <1>1, <1>2, <1>3 DEF HostInv, Open, ControlAssumption
<1>6. RestInv'
  BY <1>1, <1>2, <1>3 DEF Inv, RestInv
<1> QED BY <1>1, <1>2, <1>4, <1>5, <1>6 DEF Inv, DataIn, WaitOut, DataOut, WaitIn, InState

-----------------------------------------------------------------------------
(* The functions of the driver. *)

LEMMA InitFacts ==
  ASSUME NEW x \in Ctrl, NEW y, y = udd_ctrl_init(x)
  PROVE  /\ y \in Ctrl /\ y.state = "setup" /\ ~y.sends /\ y.out = None /\ ~y.callback
         /\ y.in = x.in /\ y.setup = x.setup /\ y.stall = x.stall
BY Zenon DEF udd_ctrl_init, Ctrl

LEMMA StallFacts ==
  ASSUME NEW x \in Ctrl, NEW y, y = udd_ctrl_stall_data(x)
  PROVE  /\ y \in Ctrl /\ y.state = "stall" /\ y.stall /\ SamePackets(x, y)
         /\ y.callback = x.callback /\ y.req = x.req
BY Zenon DEF udd_ctrl_stall_data, Ctrl, SamePackets

LEMMA ZlpInFacts ==
  ASSUME NEW x \in Ctrl, x.req \in ControlRequests, NEW y, y = udd_ctrl_send_zlp_in(x)
  PROVE  /\ y \in Ctrl /\ y.state = "wait_in" /\ y.in = Nothing(x.req) /\ y.sends /\ ~y.nakOut
         /\ y.callback = x.callback /\ y.req = x.req /\ y.out = x.out
         /\ y.setup = x.setup /\ y.stall = x.stall
BY Zenon DEF udd_ctrl_send_zlp_in, Ctrl, Nothing, Packet, Packets

LEMMA ZlpOutFacts ==
  ASSUME NEW x \in Ctrl, NEW y, y = udd_ctrl_send_zlp_out(x)
  PROVE  /\ y \in Ctrl /\ y.state = "wait_out" /\ ~y.nakIn /\ SamePackets(x, y)
         /\ y.callback = x.callback /\ y.req = x.req /\ y.stall = x.stall
BY Zenon DEF udd_ctrl_send_zlp_out, Ctrl, SamePackets

LEMMA EnteredFacts ==
  ASSUME ep0 \in Ctrl
  PROVE  /\ Entered \in Ctrl /\ SameRequest(ep0, Entered) /\ SamePackets(ep0, Entered)
         /\ Entered.stall = ep0.stall /\ Entered.nakIn = ep0.nakIn
         /\ Entered.nakOut = ep0.nakOut
BY Zenon DEF Entered, Ctrl, SameRequest, SamePackets

\* udd_ctrl_in_sent: the request is over, or is taken to be, or has another packet.
LEMMA SendDataFacts ==
  ASSUME ControlAssumption, NEW x \in Ctrl, x.req \in ControlRequests, x.moved <= x.size,
         NEW y, y = SendData(x), NEW n, n = Lesser(x.size - x.moved, CtrlSize)
  PROVE  /\ y \in Ctrl /\ y.req = x.req /\ y.setup = x.setup /\ y.callback = x.callback
         /\ y.stall = x.stall /\ y.out = x.out /\ y.size = x.size
         /\ \/ /\ x.moved = x.size /\ ~x.zlp
               /\ y.state = "wait_out" /\ ~y.sends /\ y.in = x.in /\ ~y.nakIn
            \/ x.out # None /\ y.state = "wait_out" /\ ~y.sends /\ y.in = x.in
            \/ /\ x.moved < x.size \/ x.zlp
               /\ x.out = None /\ y.state = x.state /\ y.sends
               /\ y.in \in Packets /\ y.in.of = x.req /\ y.in.from = x.moved /\ y.in.size = n
               /\ y.moved = x.moved + n /\ y.zlp = (x.zlp /\ x.moved < x.size)
<1> DEFINE z == x.zlp /\ x.size - x.moved > 0
           w == [x EXCEPT !.sends = FALSE, !.zlp = z]
           p == Packet(x.req, x.moved, n)
<1>1. x.moved \in Nat /\ x.size \in Nat /\ x.zlp \in BOOLEAN
  BY DEF Ctrl
<1>2. w \in Ctrl /\ ~w.sends /\ w.zlp = z
      /\ w.req = x.req /\ w.setup = x.setup /\ w.callback = x.callback /\ w.stall = x.stall
      /\ w.out = x.out /\ w.size = x.size /\ w.in = x.in /\ w.moved = x.moved
      /\ w.state = x.state
  BY Zenon DEF Ctrl
<1>3. n \in Nat /\ p \in Packets /\ p.of = x.req /\ p.from = x.moved /\ p.size = n
  BY <1>1 DEF ControlAssumption, Lesser, Packet, Packets
<1>4. SendData(x) =
        IF x.size - x.moved = 0 /\ ~x.zlp THEN udd_ctrl_send_zlp_out(w)
        ELSE IF x.out # None THEN [w EXCEPT !.state = "wait_out"]
        ELSE [w EXCEPT !.in = p, !.moved = w.moved + n, !.sends = TRUE]
  BY DEF SendData
<1>5. z = (x.zlp /\ x.moved < x.size)
  BY <1>1
<1> HIDE DEF w, z, p
<1>6. CASE x.size - x.moved = 0 /\ ~x.zlp
  <2>1. y = udd_ctrl_send_zlp_out(w) /\ x.moved = x.size
    BY <1>1, <1>4, <1>6
  <2>2. udd_ctrl_send_zlp_out(w).size = w.size
    BY <1>2 DEF udd_ctrl_send_zlp_out, Ctrl
  <2> QED BY <1>2, <1>6, <2>1, <2>2, ZlpOutFacts DEF SamePackets
<1>7. CASE ~(x.size - x.moved = 0 /\ ~x.zlp) /\ x.out # None
  <2>1. y = [w EXCEPT !.state = "wait_out"]
    BY <1>4, <1>7
  <2> QED BY <1>2, <1>7, <2>1 DEF Ctrl
<1>8. CASE ~(x.size - x.moved = 0 /\ ~x.zlp) /\ x.out = None
  <2>1. y = [w EXCEPT !.in = p, !.moved = w.moved + n, !.sends = TRUE]
    BY <1>4, <1>8
  <2>2. w.moved + n \in Nat
    BY <1>1, <1>2, <1>3
  <2>3. x.moved < x.size \/ x.zlp
    BY <1>1, <1>8
  <2> HIDE DEF p
  <2>4. /\ y \in Ctrl /\ y.req = w.req /\ y.setup = w.setup /\ y.callback = w.callback
        /\ y.stall = w.stall /\ y.out = w.out /\ y.size = w.size /\ y.state = w.state
        /\ y.sends /\ y.in = p /\ y.moved = w.moved + n /\ y.zlp = w.zlp
    BY <1>2, <1>3, <2>1, <2>2, Zenon DEF Ctrl
  <2> QED BY <1>2, <1>3, <1>5, <1>8, <2>3, <2>4
<1> QED BY <1>6, <1>7, <1>8

\* Remainders of the packet size.
LEMMA Remainders ==
  ASSUME NEW S \in Nat \ {0}
  PROVE  /\ S % S = 0 /\ 0 % S = 0
         /\ \A x \in 0 .. S - 1 : x % S = x
         /\ \A x \in Nat : x >= S => (x - S) % S = x % S
<1>1. ASSUME NEW x \in 0 .. S - 1 PROVE x % S = x
  BY <1>1
<1>2. ASSUME NEW x \in Nat, x >= S PROVE (x - S) % S = x % S
  <2> DEFINE q == x \div S  r == x % S
  <2>1. q \in Int /\ r \in 0 .. S - 1 /\ x = S * q + r
    OBVIOUS
  <2> HIDE DEF q, r
  <2>2. x - S = S * (q - 1) + r
    BY <2>1
  <2>3. q - 1 \in Int /\ x - S \in Int
    BY <2>1
  <2>4. (x - S) % S = r
    BY <2>1, <2>2, <2>3
  <2> QED BY <2>4 DEF r
<1>3. S % S = 0
  <2>1. (S - S) % S = S % S
    BY <1>2
  <2> QED BY <1>1, <2>1
<1> QED BY <1>1, <1>2, <1>3

\* A packet that does not fill its bank is the last one, also when there were
\* data to fill all packets: then an empty one follows.
LEMMA PacketFacts ==
  ASSUME ControlAssumption, NEW size \in Nat, NEW moved \in Nat, NEW zlp \in BOOLEAN,
         moved <= size,
         moved < size => (size - moved) % CtrlSize = size % CtrlSize,
         zlp => size % CtrlSize = 0,
         moved < size /\ size % CtrlSize = 0 => zlp,
         moved < size \/ zlp,
         NEW n, n = Lesser(size - moved, CtrlSize), NEW m, m = moved + n,
         NEW z, z = (zlp /\ moved < size)
  PROVE  /\ n \in Nat /\ n <= CtrlSize /\ m \in Nat /\ m <= size
         /\ m < size => (size - m) % CtrlSize = size % CtrlSize
         /\ z => size % CtrlSize = 0
         /\ m < size /\ size % CtrlSize = 0 => z
         /\ n < CtrlSize <=> m = size /\ ~z
<1> DEFINE left == size - moved
<1>1. left \in Nat /\ CtrlSize \in Nat \ {0}
  BY DEF ControlAssumption
<1>2. CASE moved = size
  <2>1. n = 0 /\ m = size /\ left = 0
    BY <1>1, <1>2 DEF Lesser
  <2>2. ~(moved < size)
    BY <1>2
  <2>3. ~z /\ zlp
    BY <2>2, Zenon
  <2> QED BY <1>1, <1>2, <2>1, <2>2, <2>3
<1>3. CASE moved < size /\ left < CtrlSize
  <2>1. n = left /\ m = size
    BY <1>1, <1>3 DEF Lesser
  <2>2. left % CtrlSize = left /\ left # 0
    BY <1>1, <1>3, Remainders
  <2>3. ~zlp
    BY <1>3, <2>2
  <2> QED BY <1>1, <1>3, <2>1, <2>3
<1>4. CASE moved < size /\ left = CtrlSize
  <2>1. n = CtrlSize /\ m = size
    BY <1>1, <1>4 DEF Lesser
  <2>2. left % CtrlSize = 0
    BY <1>1, <1>4, Remainders
  <2>3. z = TRUE
    BY <1>4, <2>2
  <2> QED BY <1>1, <1>4, <2>1, <2>3
<1>5. CASE moved < size /\ left > CtrlSize
  <2>1. n = CtrlSize /\ m < size /\ size - m = left - CtrlSize /\ m \in Nat
    BY <1>1, <1>5 DEF Lesser
  <2> HIDE DEF left
  <2>2. (left - CtrlSize) % CtrlSize = left % CtrlSize
    <3>1. left >= CtrlSize
      BY <1>1, <1>5
    <3> QED BY <1>1, <3>1, Remainders, Zenon
  <2> QED BY <1>1, <1>5, <2>1, <2>2 DEF left
<1> QED BY <1>1, <1>2, <1>3, <1>4, <1>5

-----------------------------------------------------------------------------
(* Every step of the driver, of the host and of the controller keeps Inv. *)

LEMMA InvFacts ==
  ASSUME ControlAssumption, Inv
  PROVE  /\ ep0 \in Ctrl
         /\ ep0.moved \in Nat /\ ep0.size \in Nat /\ ep0.zlp \in BOOLEAN
         /\ ep0.callback \in BOOLEAN /\ ep0.setup \in ControlRequests \cup {None}
         /\ ep0.out # None => ep0.out \in Packets /\ ep0.out.size \in Nat
         /\ ep0.in # None => ep0.in \in Packets /\ ep0.in.size \in Nat
         /\ ep0.req \in ControlRequests \cup {None} /\ asked \in ControlRequests \cup {None}
         /\ put \in Nat /\ got \in Nat /\ broken \in BOOLEAN
         /\ Open => asked # None
         /\ \A r \in ControlRequests :
              /\ r # None /\ r.in \in BOOLEAN /\ r.length \in Nat /\ r.payload \in Nat
              /\ r.in => r.payload <= r.length
              /\ r.kind = "address" => ~r.in /\ r.length = 0
         /\ CtrlSize \in Nat /\ CtrlSize > 1
         /\ \A p \in Packets : p # None
BY DEF Inv, ControlTypeOK, Ctrl, HostInv, Open, ControlAssumption, Packets

\* The first part of a request is over: the device has a packet for the host.
LEMMA InvSetupReceived ==
  ASSUME ControlAssumption, Inv, SetupReceived
  PROVE  Inv'
<1> DEFINE r == ep0.setup
           x == IF ep0.state # "setup" THEN udd_ctrl_init(Entered) ELSE Entered
<1>1. r \in ControlRequests /\ r = asked /\ Open /\ put = 0 /\ got = 0 /\ ep0.in = None /\ ~ep0.stall
  BY InvFacts DEF SetupReceived, Inv, HostInv
<1>2. /\ x \in Ctrl /\ x.setup = r /\ x.in = None /\ x.out = None /\ ~x.sends /\ ~x.callback
      /\ ~x.stall
  <2>1. CASE ep0.state = "setup"
    BY <1>1, <2>1, InvFacts, EnteredFacts DEF Inv, RestInv, SamePackets, SameRequest
  <2>2. CASE ep0.state # "setup"
    BY <1>1, <2>2, InvFacts, EnteredFacts, InitFacts DEF SamePackets, SameRequest
  <2> QED BY <2>1, <2>2
<1>3. /\ ep0' = IF Known(r, address') THEN Decoded(x, r) ELSE Refused(x, r)
      /\ UNCHANGED <<asked, stage, put, got, broken>>
  BY DEF SetupReceived, hostVars
<1> HIDE DEF x, r
<1>4. ASSUME ep0' \in Ctrl, ep0'.setup = None, RestInv', DataIn', WaitOut', DataOut', WaitIn'
      PROVE  Inv'
  <2>1. ControlTypeOK'
    BY <1>3, <1>4 DEF Inv, ControlTypeOK
  <2>2. HostInv'
    BY <1>1, <1>3, <1>4, InvFacts DEF Inv, HostInv, Open, r
  <2> QED BY <1>4, <2>1, <2>2 DEF Inv
<1>5. CASE ~Known(r, address')
  <2> DEFINE w == [x EXCEPT !.req = r, !.setup = None, !.callback = FALSE, !.size = 0]
  <2>1. /\ w \in Ctrl /\ w.setup = None /\ w.out = None /\ w.in = None /\ ~w.sends
        /\ ~w.callback
    BY <1>1, <1>2, Zenon DEF Ctrl
  <2>2. ep0' = udd_ctrl_stall_data(w)
    BY <1>3, <1>5 DEF Refused
  <2> HIDE DEF w
  <2>3. /\ ep0' \in Ctrl /\ ep0'.state = "stall" /\ ep0'.stall /\ ep0'.setup = None
        /\ ep0'.out = None /\ ep0'.in = None /\ ~ep0'.sends /\ ~ep0'.callback
    BY <2>1, <2>2, StallFacts DEF SamePackets
  <2>4. RestInv'
    BY <1>1, <1>3, <1>5, <2>3 DEF RestInv, Known
  <2> QED BY <1>4, <2>3, <2>4 DEF DataIn, WaitOut, DataOut, WaitIn, InState
<1>6. CASE Known(r, address') /\ r.in
  <2> DEFINE c == (r.kind = "address")
             z == (r.payload % CtrlSize = 0)
             y == [x EXCEPT !.req = r, !.setup = None, !.callback = c, !.size = r.payload]
             w == [y EXCEPT !.zlp = z, !.moved = 0, !.state = "data_in"]
  <2>1. /\ y \in Ctrl /\ y.req = r /\ y.setup = None /\ ~y.callback /\ y.size = r.payload
        /\ ~y.stall /\ y.out = None
    <3>1. c = FALSE /\ r.payload \in Nat
      BY <1>1, <1>6, InvFacts
    <3> HIDE DEF c
    <3> QED BY <1>1, <1>2, <3>1, Zenon DEF Ctrl
  <2>2. ep0' = SendData(w)
    <3>1. r.in = TRUE
      BY <1>1, <1>6, InvFacts
    <3>2. Decoded(x, r) = SendData([y EXCEPT !.zlp = y.size % CtrlSize = 0, !.moved = 0,
                                             !.state = "data_in"])
      <4>1. y = [x EXCEPT !.req = r, !.setup = None, !.callback = r.kind = "address",
                          !.size = IF r.in THEN r.payload ELSE r.length]
        BY <3>1, Zenon
      <4> HIDE DEF y
      <4> QED BY <3>1, <4>1 DEF Decoded
    <3>3. y.size = r.payload
      BY <2>1
    <3> HIDE DEF y
    <3> QED BY <1>3, <1>6, <3>2, <3>3
  <2> HIDE DEF y
  <2>3. /\ w \in Ctrl /\ w.req = r /\ w.setup = None /\ ~w.callback /\ w.size = r.payload
        /\ ~w.stall /\ w.out = None /\ w.moved = 0 /\ w.state = "data_in"
        /\ w.zlp <=> r.payload % CtrlSize = 0
    <3>1. z \in BOOLEAN /\ (z <=> r.payload % CtrlSize = 0)
      OBVIOUS
    <3> HIDE DEF z
    <3>2. /\ w \in Ctrl /\ w.req = r /\ w.setup = None /\ ~w.callback /\ w.size = r.payload
          /\ ~w.stall /\ w.out = None /\ w.zlp = z /\ w.moved = 0 /\ w.state = "data_in"
      BY <2>1, <3>1, Zenon DEF Ctrl
    <3> HIDE DEF w
    <3> QED BY <3>1, <3>2
  <2> HIDE DEF w, z, c
  <2> DEFINE n == Lesser(w.size - w.moved, CtrlSize)
  <2>4. w.size \in Nat /\ w.moved <= w.size /\ (w.moved < w.size \/ w.zlp)
    <3>1. r.payload \in Nat /\ CtrlSize \in Nat \ {0}
      BY <1>1, InvFacts
    <3>2. r.payload = 0 => r.payload % CtrlSize = 0
      BY <3>1, Remainders
    <3>3. r.payload = 0 => w.zlp
      BY <2>3, <3>2
    <3>4. w.size \in Nat /\ w.moved <= w.size /\ (w.moved < w.size \/ r.payload = 0)
      BY <2>3, <3>1
    <3> QED BY <3>3, <3>4
  <2>5. /\ ep0' \in Ctrl /\ ep0'.req = r /\ ep0'.setup = None /\ ~ep0'.callback
        /\ ~ep0'.stall /\ ep0'.out = None /\ ep0'.size = r.payload
        /\ ep0'.state = "data_in" /\ ep0'.sends
        /\ ep0'.in \in Packets /\ ep0'.in.of = r /\ ep0'.in.from = 0 /\ ep0'.in.size = n
        /\ ep0'.moved = w.moved + n /\ ep0'.zlp = (w.zlp /\ w.moved < w.size)
    <3>1. w.req \in ControlRequests /\ ~(w.moved = w.size /\ ~w.zlp)
      BY <1>1, <2>3, <2>4
    <3> QED BY <2>2, <2>3, <2>4, <3>1, SendDataFacts
  <2>6. /\ n \in Nat /\ n <= CtrlSize /\ ep0'.moved \in Nat /\ ep0'.moved <= w.size
        /\ ep0'.moved < w.size => (w.size - ep0'.moved) % CtrlSize = w.size % CtrlSize
        /\ ep0'.zlp => w.size % CtrlSize = 0
        /\ ep0'.moved < w.size /\ w.size % CtrlSize = 0 => ep0'.zlp
        /\ n < CtrlSize <=> ep0'.moved = w.size /\ ~ep0'.zlp
    <3>1. w.moved \in Nat /\ w.zlp \in BOOLEAN
      BY <2>3 DEF Ctrl
    <3>2. w.zlp <=> w.size % CtrlSize = 0
      BY <2>3
    <3>3. w.size - w.moved = w.size
      BY <2>3, <2>4
    <3>4. /\ w.moved < w.size => (w.size - w.moved) % CtrlSize = w.size % CtrlSize
          /\ w.zlp => w.size % CtrlSize = 0
          /\ w.moved < w.size /\ w.size % CtrlSize = 0 => w.zlp
      BY <3>2, <3>3
    <3>5. n = Lesser(w.size - w.moved, CtrlSize)
      OBVIOUS
    <3>6. ep0'.moved = w.moved + n /\ ep0'.zlp = (w.zlp /\ w.moved < w.size)
      BY <2>5
    <3> HIDE DEF n
    <3> QED BY <2>4, <3>1, <3>4, <3>5, <3>6, PacketFacts
  <2> HIDE DEF n
  <2>7. ep0'.in # None /\ ep0'.in.from + ep0'.in.size = ep0'.moved
    BY <2>3, <2>5, <2>6, InvFacts
  <2>8. DataIn'
    BY <1>1, <1>3, <1>6, <2>3, <2>5, <2>6, <2>7 DEF DataIn, InState, Remain
  <2>9. RestInv'
    BY <1>1, <1>3, <1>6, <2>5, InvFacts DEF RestInv
  <2> QED BY <1>4, <2>5, <2>8, <2>9 DEF WaitOut, DataOut, WaitIn, InState
<1>7. CASE Known(r, address') /\ ~r.in
  <2> DEFINE c == (r.kind = "address")
             y == [x EXCEPT !.req = r, !.setup = None, !.callback = c, !.size = r.length]
  <2>1. r.in = FALSE /\ r.length \in Nat
    BY <1>1, <1>7, InvFacts
  <2>2. /\ y \in Ctrl /\ y.req = r /\ y.setup = None /\ y.size = r.length
        /\ y.callback <=> r.kind = "address"
        /\ ~y.stall /\ y.out = None /\ y.in = None /\ ~y.sends
    <3>1. c \in BOOLEAN /\ (c <=> r.kind = "address")
      OBVIOUS
    <3> HIDE DEF c
    <3>2. /\ y \in Ctrl /\ y.req = r /\ y.setup = None /\ y.callback = c /\ y.size = r.length
          /\ ~y.stall /\ y.out = None /\ y.in = None /\ ~y.sends
      BY <1>1, <1>2, <2>1, <3>1, Zenon DEF Ctrl
    <3> HIDE DEF y
    <3> QED BY <3>1, <3>2
  <2>3. Decoded(x, r) = IF r.length = 0 THEN udd_ctrl_send_zlp_in(y)
                        ELSE [y EXCEPT !.moved = 0, !.state = "data_out", !.nakIn = FALSE,
                                       !.watchIn = TRUE]
    <3>1. y = [x EXCEPT !.req = r, !.setup = None, !.callback = r.kind = "address",
                        !.size = IF r.in THEN r.payload ELSE r.length]
      BY <2>1, Zenon
    <3> HIDE DEF y
    <3> QED BY <2>1, <3>1, Zenon DEF Decoded
  <2> HIDE DEF y
  <2>4. stage = "data" => 0 < r.length
    BY <1>1, <1>7 DEF Inv, HostInv
  <2>5. CASE r.length = 0
    <3>1. /\ ep0' \in Ctrl /\ ep0'.state = "wait_in" /\ ep0'.in = Nothing(r) /\ ep0'.sends
          /\ ~ep0'.nakOut /\ ep0'.callback = y.callback /\ ep0'.req = r /\ ep0'.out = None
          /\ ep0'.setup = None /\ ~ep0'.stall
      BY <1>1, <1>3, <1>7, <2>2, <2>3, <2>5, ZlpInFacts
    <3>2. ep0'.in # None /\ ep0'.in.size = 0
      <4>1. Nothing(r) \in Packets /\ Nothing(r).size = 0
        BY <1>1 DEF Nothing, Packet, Packets
      <4> QED BY <3>1, <4>1, InvFacts
    <3>3. WaitIn'
      BY <1>1, <1>3, <1>7, <2>2, <2>1, <2>4, <2>5, <3>1, <3>2 DEF WaitIn, InState, Open
    <3>4. RestInv'
      BY <1>1, <1>3, <1>7, <2>1, <2>2, <3>1, InvFacts DEF RestInv
    <3> QED BY <1>4, <3>1, <3>3, <3>4 DEF WaitOut, DataOut, DataIn, InState
  <2>6. CASE r.length # 0
    <3>1. ep0' = [y EXCEPT !.moved = 0, !.state = "data_out", !.nakIn = FALSE,
                           !.watchIn = TRUE]
      BY <1>3, <1>7, <2>3, <2>6
    <3>2. /\ ep0' \in Ctrl /\ ep0'.state = "data_out" /\ ep0'.moved = 0 /\ ~ep0'.nakIn
          /\ ep0'.req = r /\ ep0'.setup = None /\ ep0'.callback = y.callback /\ ep0'.size = r.length
          /\ ~ep0'.stall /\ ep0'.out = None /\ ep0'.in = None /\ ~ep0'.sends
      BY <2>2, <3>1, Zenon DEF Ctrl
    <3>3. ~y.callback
      BY <1>1, <2>2, <2>6, InvFacts
    <3>4. DataOut'
      BY <1>1, <1>3, <1>7, <2>1, <2>6, <3>2 DEF DataOut, InState, Open
    <3>5. RestInv'
      BY <1>1, <1>3, <2>1, <3>2, <3>3, InvFacts DEF RestInv
    <3> QED BY <1>4, <3>2, <3>4, <3>5 DEF WaitOut, WaitIn, DataIn, InState
  <2> QED BY <2>5, <2>6
<1> QED BY <1>5, <1>6, <1>7

\* After an interrupt that is not about a SETUP packet.
LEMMA InvDriver ==
  ASSUME ControlAssumption, Inv, ep0.setup = None, ep0' \in Ctrl, ep0'.setup = None,
         UNCHANGED <<asked, stage, put, broken>>,
         got' = got \/ (got' \in Nat /\ ~asked.in),
         RestInv', DataIn', WaitOut', DataOut', WaitIn'
  PROVE  Inv'
<1>1. ControlTypeOK'
  BY DEF Inv, ControlTypeOK
<1>2. HostInv'
  BY DEF Inv, HostInv, Open
<1> QED BY <1>1, <1>2 DEF Inv

\* A packet for the host has gone.
LEMMA InvInSent ==
  ASSUME ControlAssumption, Inv, InSent
  PROVE  Inv'
<1> DEFINE x == Entered
<1>1. /\ ep0.setup = None /\ ep0.in = None /\ ep0.sends
      /\ UNCHANGED <<asked, stage, put, got, broken>>
  BY DEF InSent, Sent, hostVars
<1>2. /\ x \in Ctrl /\ SameRequest(ep0, x) /\ SamePackets(ep0, x) /\ x.stall = ep0.stall
  BY InvFacts, EnteredFacts
<1> USE DEF SameRequest, SamePackets
<1>3. CASE ep0.state = "wait_in"
  <2>1. ep0' = udd_ctrl_init(x)
    BY <1>3 DEF InSent
  <2> HIDE DEF x
  <2>2. /\ ep0' \in Ctrl /\ ep0'.state = "setup" /\ ~ep0'.sends /\ ep0'.out = None
        /\ ~ep0'.callback /\ ep0'.setup = None /\ ep0'.stall = ep0.stall
    BY <1>1, <1>2, <2>1, InitFacts
  <2>3. ~Open
    BY <1>1, <1>3 DEF Inv, WaitIn, InState, Open
  <2>4. RestInv'
    BY <1>1, <1>3, <2>2, <2>3 DEF Inv, RestInv, Open
  <2> QED BY <1>1, <2>2, <2>4, InvDriver DEF DataIn, WaitOut, DataOut, WaitIn, InState
<1>4. CASE ep0.state # "wait_in"
  <2> DEFINE n == Lesser(x.size - x.moved, CtrlSize)
  <2>1. ep0.state = "data_in" /\ ep0' = SendData(x) /\ ~ep0.callback
    BY <1>1, <1>4 DEF InSent, Inv, RestInv
  <2> HIDE DEF x
  <2>2. /\ asked.in /\ ep0.size = asked.payload /\ ep0.moved <= ep0.size
        /\ ep0.moved < ep0.size => (ep0.size - ep0.moved) % CtrlSize = ep0.size % CtrlSize
        /\ ep0.zlp => ep0.size % CtrlSize = 0
        /\ ep0.moved < ep0.size /\ ep0.size % CtrlSize = 0 => ep0.zlp
        /\ stage = "data" => got = ep0.moved /\ (ep0.moved < ep0.size \/ ep0.zlp)
    BY <1>1, <2>1 DEF Inv, DataIn, InState, Remain
  <2>3. /\ ep0.req = asked /\ asked \in ControlRequests
        /\ Open => ep0.out = None
        /\ ep0.stall => broken
    BY <1>1, <2>1, <2>2, InvFacts DEF Inv, RestInv
  <2>4. /\ x.moved \in Nat /\ x.size \in Nat /\ x.zlp \in BOOLEAN /\ x.callback = FALSE
    BY <1>2, <2>1, InvFacts
  <2>5. /\ ep0' \in Ctrl /\ ep0'.req = asked /\ ep0'.setup = None /\ ~ep0'.callback
        /\ ep0'.stall = ep0.stall /\ ep0'.out = ep0.out /\ ep0'.size = ep0.size
        /\ \/ /\ ep0.moved = ep0.size /\ ~ep0.zlp
              /\ ep0'.state = "wait_out" /\ ~ep0'.sends /\ ep0'.in = None /\ ~ep0'.nakIn
           \/ ep0.out # None /\ ep0'.state = "wait_out" /\ ~ep0'.sends /\ ep0'.in = None
           \/ /\ ep0.moved < ep0.size \/ ep0.zlp
              /\ ep0.out = None /\ ep0'.state = "data_in" /\ ep0'.sends
              /\ ep0'.in \in Packets /\ ep0'.in.of = asked /\ ep0'.in.from = ep0.moved
              /\ ep0'.in.size = n
              /\ ep0'.moved = ep0.moved + n /\ ep0'.zlp = (ep0.zlp /\ ep0.moved < ep0.size)
    <3>1. x.req \in ControlRequests /\ x.moved <= x.size
      BY <1>2, <2>2, <2>3
    <3> DEFINE y == SendData(x)
    <3>2. /\ y \in Ctrl /\ y.req = x.req /\ y.setup = x.setup /\ y.callback = x.callback
          /\ y.stall = x.stall /\ y.out = x.out /\ y.size = x.size
          /\ \/ /\ x.moved = x.size /\ ~x.zlp
                /\ y.state = "wait_out" /\ ~y.sends /\ y.in = x.in /\ ~y.nakIn
             \/ x.out # None /\ y.state = "wait_out" /\ ~y.sends /\ y.in = x.in
             \/ /\ x.moved < x.size \/ x.zlp
                /\ x.out = None /\ y.state = x.state /\ y.sends
                /\ y.in \in Packets /\ y.in.of = x.req /\ y.in.from = x.moved
                /\ y.in.size = n
                /\ y.moved = x.moved + n /\ y.zlp = (x.zlp /\ x.moved < x.size)
      BY <1>2, <3>1, SendDataFacts
    <3> HIDE DEF y, n
    <3> QED BY <1>1, <1>2, <2>1, <2>3, <2>4, <3>2 DEF y
  <2>6. n = Lesser(ep0.size - ep0.moved, CtrlSize)
    BY <1>2
  <2> HIDE DEF n
  <2>7. CASE ep0'.state = "wait_out"
    <3>1. /\ ~ep0'.sends /\ ep0'.in = None
          /\ (ep0.moved = ep0.size /\ ~ep0.zlp /\ ~ep0'.nakIn) \/ ep0.out # None
      BY <2>5, <2>7
    <3>2. stage # "data"
      BY <2>2, <2>3, <3>1, InvFacts DEF Open
    <3>3. WaitOut'
      BY <1>1, <2>2, <2>5, <3>1, <3>2 DEF WaitOut, InState
    <3>4. RestInv'
      BY <1>1, <2>2, <2>3, <2>5, <2>7, <3>1, InvFacts DEF RestInv, Open
    <3> QED BY <1>1, <2>5, <2>7, <3>3, <3>4, InvDriver DEF DataIn, DataOut, WaitIn, InState
  <2>8. CASE ep0'.state # "wait_out"
    <3>1. /\ ep0.moved < ep0.size \/ ep0.zlp
          /\ ep0.out = None /\ ep0'.state = "data_in" /\ ep0'.sends
          /\ ep0'.in \in Packets /\ ep0'.in.of = asked /\ ep0'.in.from = ep0.moved
          /\ ep0'.in.size = n
          /\ ep0'.moved = ep0.moved + n /\ ep0'.zlp = (ep0.zlp /\ ep0.moved < ep0.size)
      BY <2>5, <2>8
    <3>2. /\ n \in Nat /\ n <= CtrlSize /\ ep0'.moved \in Nat /\ ep0'.moved <= ep0.size
          /\ ep0'.moved < ep0.size =>
               (ep0.size - ep0'.moved) % CtrlSize = ep0.size % CtrlSize
          /\ ep0'.zlp => ep0.size % CtrlSize = 0
          /\ ep0'.moved < ep0.size /\ ep0.size % CtrlSize = 0 => ep0'.zlp
          /\ n < CtrlSize <=> ep0'.moved = ep0.size /\ ~ep0'.zlp
      BY <2>2, <2>6, <3>1, InvFacts, PacketFacts
    <3>3. ep0'.in # None
      BY <3>1, InvFacts
    <3>4. DataIn'
      BY <1>1, <2>2, <2>5, <3>1, <3>2, <3>3 DEF DataIn, InState, Remain
    <3>5. RestInv'
      BY <1>1, <2>2, <2>3, <2>5, <3>1, InvFacts DEF RestInv, Open
    <3> QED BY <1>1, <2>5, <3>1, <3>4, <3>5, InvDriver DEF WaitOut, DataOut, WaitIn, InState
  <2> QED BY <2>7, <2>8
<1> QED BY <1>3, <1>4

\* Data from the host have come: they are all, or there is room for more.
LEMMA InvOutData ==
  ASSUME ControlAssumption, Inv, OutData
  PROVE  Inv'
<1> DEFINE n == Lesser(ep0.out.size, ep0.size - ep0.moved)
           m == ep0.moved + n
           x == [Entered EXCEPT !.out = None, !.moved = m]
<1>1. /\ ep0.setup = None /\ ep0.out # None /\ ep0.state = "data_out"
      /\ UNCHANGED <<asked, stage, put, broken>>
      /\ got' = IF ep0.out.of = asked /\ ep0.out.from = got THEN got + n ELSE -1
  BY DEF OutData, hostVars
<1>2. /\ Entered \in Ctrl /\ SameRequest(ep0, Entered) /\ SamePackets(ep0, Entered)
      /\ Entered.stall = ep0.stall
  BY InvFacts, EnteredFacts
<1>3. /\ ~asked.in /\ ep0.size = asked.length /\ got = ep0.moved /\ ep0.moved < ep0.size
      /\ ep0.in = None /\ Open /\ ~ep0.stall
      /\ ep0.out.of = asked /\ ep0.out.from = ep0.moved
      /\ ep0.out.size <= CtrlSize
      /\ ep0.out.size = CtrlSize \/ ~broken => put = ep0.moved + ep0.out.size
      /\ ~broken => ep0.out.size = CtrlSize \/ put = asked.length
  BY <1>1 DEF Inv, DataOut, InState
<1>4. /\ ep0.req = asked /\ asked \in ControlRequests /\ asked.kind # "address"
      /\ ~ep0.callback /\ (ep0.stall => broken) /\ ~ep0.sends
  BY <1>1, <1>3, InvFacts DEF Inv, RestInv
<1>5. /\ n \in Nat /\ m \in Nat /\ m <= ep0.size /\ got' = m
      /\ n = CtrlSize => ep0.out.size = CtrlSize
      /\ n # CtrlSize => n < CtrlSize
      /\ n # CtrlSize /\ ep0.out.size = CtrlSize => m = ep0.size
      /\ put = ep0.moved + ep0.out.size /\ put = ep0.size => m = ep0.size
      /\ put = ep0.moved + ep0.out.size /\ put < ep0.size => m = put /\ n = ep0.out.size
  BY <1>1, <1>3, InvFacts DEF Lesser
<1>6. /\ x \in Ctrl /\ x.state = "data_out" /\ x.req = asked /\ x.size = ep0.size
      /\ x.moved = m /\ ~x.callback /\ x.setup = None /\ x.out = None /\ x.in = None
      /\ ~x.sends /\ x.stall = ep0.stall
  <2> HIDE DEF m, n
  <2> QED BY <1>1, <1>2, <1>3, <1>4, <1>5, Zenon DEF Ctrl, SameRequest, SamePackets
<1>7. ep0' = IF n # CtrlSize \/ ep0.req.length <= x.moved THEN udd_ctrl_send_zlp_in(x)
             ELSE IF x.moved = x.size THEN udd_ctrl_stall_data(x)
             ELSE [x EXCEPT !.nakIn = FALSE, !.watchIn = TRUE]
  <2>1. Entered.moved = ep0.moved
    BY <1>2 DEF SameRequest
  <2>2. x = [Entered EXCEPT !.out = None, !.moved = @ + n]
    BY <2>1
  <2> HIDE DEF x
  <2> QED BY <2>2 DEF OutData
<1> HIDE DEF x, m, n
<1>8. CASE n # CtrlSize \/ asked.length <= m
  <2>1. ep0' = udd_ctrl_send_zlp_in(x)
    BY <1>4, <1>6, <1>7, <1>8
  <2>2. /\ ep0' \in Ctrl /\ ep0'.state = "wait_in" /\ ep0'.in = Nothing(asked) /\ ep0'.sends
        /\ ~ep0'.nakOut /\ ~ep0'.callback /\ ep0'.req = asked /\ ep0'.out = None
        /\ ep0'.setup = None /\ ep0'.stall = ep0.stall
    BY <1>4, <1>6, <2>1, ZlpInFacts
  <2>3. ep0'.in # None /\ ep0'.in.size = 0
    <3>1. Nothing(asked) \in Packets /\ Nothing(asked).size = 0
      BY <1>4 DEF Nothing, Packet, Packets
    <3> QED BY <2>2, <3>1, InvFacts
  <2>4. ~broken => m = asked.length
    BY <1>3, <1>4, <1>5, <1>8, InvFacts
  <2>5. stage # "data"
    <3>1. stage = "data" => ~broken /\ put < asked.length
      BY <1>3 DEF Inv, HostInv
    <3> QED BY <1>3, <1>4, <1>5, <1>8, <3>1, InvFacts
  <2>6. WaitIn'
    BY <1>1, <1>3, <1>4, <1>5, <2>2, <2>3, <2>4, <2>5 DEF WaitIn, InState, Open
  <2>7. RestInv'
    BY <1>1, <1>3, <1>4, <2>2, InvFacts DEF RestInv
  <2> QED BY <1>1, <1>3, <1>5, <2>2, <2>6, <2>7, InvDriver DEF DataIn, WaitOut, DataOut, InState
<1>9. CASE n = CtrlSize /\ m < asked.length
  <2>1. ep0' = [x EXCEPT !.nakIn = FALSE, !.watchIn = TRUE]
    BY <1>3, <1>4, <1>5, <1>6, <1>7, <1>9, InvFacts
  <2>2. /\ ep0' \in Ctrl /\ ep0'.state = "data_out" /\ ep0'.req = asked
        /\ ep0'.size = ep0.size /\ ep0'.moved = m /\ ~ep0'.callback /\ ep0'.setup = None
        /\ ep0'.out = None /\ ep0'.in = None /\ ~ep0'.sends /\ ep0'.stall = ep0.stall
        /\ ~ep0'.nakIn
    BY <1>6, <2>1, Zenon DEF Ctrl
  <2>3. put = m
    BY <1>3, <1>5, <1>9, InvFacts DEF m
  <2>4. DataOut'
    BY <1>1, <1>3, <1>5, <1>9, <2>2, <2>3 DEF DataOut, InState, Open
  <2>5. RestInv'
    BY <1>1, <1>3, <1>4, <2>2, InvFacts DEF RestInv
  <2> QED BY <1>1, <1>3, <1>5, <2>2, <2>4, <2>5, InvDriver DEF DataIn, WaitOut, WaitIn, InState
<1> QED
  <2>1. asked.length \in Nat
    BY <1>4, InvFacts
  <2> QED BY <1>5, <1>8, <1>9, <2>1

\* The host has gone to the end of a request, or has sent what it should not.
LEMMA InvOutEnds ==
  ASSUME ControlAssumption, Inv, OutEnds
  PROVE  Inv'
<1>1. /\ ep0.setup = None /\ ~Sent /\ ep0.out # None /\ ep0.state # "data_out"
      /\ UNCHANGED <<asked, stage, put, got, broken>>
  BY DEF OutEnds, hostVars
<1>2. /\ Entered \in Ctrl /\ SameRequest(ep0, Entered) /\ SamePackets(ep0, Entered)
      /\ Entered.stall = ep0.stall
  BY InvFacts, EnteredFacts
<1> USE DEF SameRequest, SamePackets
<1>3. /\ ep0' \in Ctrl /\ ep0'.state = "setup" /\ ~ep0'.sends /\ ep0'.out = None
      /\ ~ep0'.callback /\ ep0'.setup = None
      /\ IF ep0.state \in {"data_in", "wait_out"} THEN ep0'.stall = ep0.stall
                                                  ELSE ep0'.stall
  <2>1. CASE ep0.state \in {"data_in", "wait_out"}
    <3>1. ep0' = udd_ctrl_init(Entered)
      BY <2>1 DEF OutEnds
    <3> QED BY <1>1, <1>2, <2>1, <3>1, InitFacts
  <2>2. CASE ep0.state \notin {"data_in", "wait_out"}
    <3> DEFINE y == udd_ctrl_stall_data(Entered)
    <3>1. ep0' = udd_ctrl_init(y)
      BY <2>2 DEF OutEnds
    <3>2. y \in Ctrl /\ y.stall /\ y.setup = None
      BY <1>1, <1>2, StallFacts
    <3> HIDE DEF y
    <3> QED BY <2>2, <3>1, <3>2, InitFacts
  <2> QED BY <2>1, <2>2
<1>4. CASE ep0.state \in {"data_in", "wait_out"}
  <2>1. ~Open
    BY <1>1, <1>4 DEF Inv, RestInv, DataIn, WaitOut, InState
  <2>2. ep0.stall => broken
    BY <1>4 DEF Inv, RestInv
  <2>3. RestInv'
    BY <1>1, <1>3, <1>4, <2>1, <2>2 DEF RestInv, Open
  <2> QED BY <1>1, <1>3, <2>3, InvDriver DEF DataIn, WaitOut, DataOut, WaitIn, InState
<1>5. CASE ep0.state \notin {"data_in", "wait_out"}
  <2>1. ep0.state = "wait_in"
    BY <1>1, <1>5, InvFacts DEF Inv, RestInv, Ctrl
  <2>2. broken /\ ~asked.in
    BY <1>1, <2>1 DEF Inv, WaitIn, InState
  <2>3. RestInv'
    <3>1. ep0'.stall /\ broken' /\ ~asked'.in
      BY <1>1, <1>3, <1>5, <2>2
    <3> QED BY <1>3, <3>1 DEF RestInv, Open
  <2> QED BY <1>1, <1>3, <2>3, InvDriver DEF DataIn, WaitOut, DataOut, WaitIn, InState
<1> QED BY <1>4, <1>5

\* The host has asked for a packet in the wrong direction.
LEMMA InvOverflow ==
  ASSUME ControlAssumption, Inv, Overflow
  PROVE  Inv'
<1> DEFINE s == ep0.stall \/ (ep0.state = "wait_in" /\ ep0.in # None)
<1>1. /\ ep0.setup = None /\ ep0.nakOut
      /\ UNCHANGED <<asked, stage, put, got, broken, address>>
  BY DEF Overflow, hostVars
<1>2. /\ Entered \in Ctrl /\ SameRequest(ep0, Entered) /\ SamePackets(ep0, Entered)
      /\ Entered.stall = ep0.stall /\ Entered.nakIn = ep0.nakIn
  BY InvFacts, EnteredFacts
<1>3. ep0' = [Entered EXCEPT !.nakOut = FALSE, !.stall = s]
  BY <1>2 DEF Overflow
<1>4. s \in BOOLEAN /\ (s <=> ep0.stall \/ (ep0.state = "wait_in" /\ ep0.in # None))
  OBVIOUS
<1> HIDE DEF s
<1>5. /\ ep0' \in Ctrl /\ SameRequest(ep0, ep0') /\ SamePackets(ep0, ep0')
      /\ ep0'.stall = s /\ ~ep0'.nakOut /\ ep0'.nakIn = ep0.nakIn
  BY <1>2, <1>3, <1>4, Zenon DEF Ctrl, SameRequest, SamePackets
<1> USE DEF SameRequest, SamePackets
<1>6. ep0.state = "wait_in" => broken
  BY <1>1 DEF Inv, WaitIn, InState
<1>7. RestInv'
  BY <1>1, <1>4, <1>5, <1>6 DEF Inv, RestInv, Open
<1>8. DataIn' /\ WaitOut' /\ DataOut' /\ WaitIn'
  BY <1>1, <1>4, <1>5 DEF Inv, DataIn, WaitOut, DataOut, WaitIn, InState, Remain, Open
<1> QED BY <1>1, <1>5, <1>7, <1>8, InvDriver

LEMMA InvUnderflow ==
  ASSUME ControlAssumption, Inv, Underflow
  PROVE  Inv'
<1> DEFINE x == [Entered EXCEPT !.nakIn = FALSE]
<1>1. /\ ep0.setup = None /\ ep0.nakIn /\ ep0.out = None
      /\ UNCHANGED <<asked, stage, put, got, broken, address>>
  BY DEF Underflow, hostVars
<1>2. /\ x \in Ctrl /\ SameRequest(ep0, x) /\ SamePackets(ep0, x)
      /\ x.stall = ep0.stall /\ x.nakOut = ep0.nakOut /\ ~x.nakIn
  <2>1. /\ Entered \in Ctrl /\ SameRequest(ep0, Entered) /\ SamePackets(ep0, Entered)
        /\ Entered.stall = ep0.stall /\ Entered.nakOut = ep0.nakOut
    BY InvFacts, EnteredFacts
  <2> QED BY <2>1, Zenon DEF Ctrl, SameRequest, SamePackets
<1>3. CASE ep0.state = "data_out"
  <2>1. ep0' = udd_ctrl_send_zlp_in(x)
    BY <1>3 DEF Underflow
  <2>2. ~asked.in /\ broken /\ Open /\ ep0.moved < asked.length
    BY <1>1, <1>3 DEF Inv, DataOut, InState
  <2>3. /\ ep0.req = asked /\ asked \in ControlRequests /\ asked.kind # "address" /\ ~ep0.callback
    BY <1>1, <1>3, <2>2, InvFacts DEF Inv, RestInv
  <2> HIDE DEF x
  <2>4. /\ ep0' \in Ctrl /\ ep0'.state = "wait_in" /\ ep0'.in = Nothing(asked) /\ ep0'.sends
        /\ ~ep0'.callback /\ ep0'.req = asked /\ ep0'.out = None /\ ep0'.setup = None
    BY <1>1, <1>2, <2>1, <2>3, ZlpInFacts DEF SameRequest, SamePackets
  <2>5. ep0'.in # None /\ ep0'.in.size = 0
    <3>1. Nothing(asked) \in Packets /\ Nothing(asked).size = 0
      BY <2>3 DEF Nothing, Packet, Packets
    <3> QED BY <2>4, <3>1, InvFacts
  <2>6. stage # "data"
    BY <2>2 DEF Inv, HostInv
  <2>7. WaitIn'
    BY <1>1, <2>2, <2>3, <2>4, <2>5, <2>6 DEF WaitIn, InState, Open
  <2>8. RestInv'
    BY <1>1, <2>2, <2>3, <2>4, InvFacts DEF RestInv
  <2> QED BY <1>1, <2>4, <2>7, <2>8, InvDriver DEF DataIn, WaitOut, DataOut, InState
<1>4. CASE ep0.state # "data_out"
  <2> DEFINE s == ep0.stall \/ ep0.state = "wait_out"
  <2>1. ep0' = [x EXCEPT !.stall = s]
    BY <1>2, <1>4, Zenon DEF Underflow, SameRequest
  <2>2. s \in BOOLEAN /\ (s <=> ep0.stall \/ ep0.state = "wait_out")
    OBVIOUS
  <2> HIDE DEF x, s
  <2>3. /\ ep0' \in Ctrl /\ SameRequest(ep0, ep0') /\ SamePackets(ep0, ep0')
        /\ ep0'.stall = s /\ ep0'.nakOut = ep0.nakOut /\ ~ep0'.nakIn
    BY <1>2, <2>1, <2>2 DEF Ctrl, SameRequest, SamePackets
  <2> USE DEF SameRequest, SamePackets
  <2>4. ep0.state = "wait_out" => broken
    BY <1>1 DEF Inv, WaitOut, InState
  <2>5. RestInv'
    BY <1>1, <2>2, <2>3, <2>4 DEF Inv, RestInv, Open
  <2>6. DataIn' /\ WaitOut' /\ DataOut' /\ WaitIn'
    BY <1>1, <1>4, <2>3 DEF Inv, DataIn, WaitOut, DataOut, WaitIn, InState, Remain, Open
  <2> QED BY <1>1, <2>3, <2>5, <2>6, InvDriver
<1> QED BY <1>3, <1>4

\* The host notes a STALL.
LEMMA InvStalled ==
  ASSUME ControlAssumption, Inv, Stalled
  PROVE  Inv'
<1>1. /\ Open /\ ep0.setup = None /\ ep0.stall /\ stage' = "refused"
      /\ UNCHANGED <<ep0, address, asked, put, got, broken>>
  BY DEF Stalled
<1>2. ControlTypeOK' /\ HostInv'
  BY <1>1, InvFacts DEF Inv, ControlTypeOK, HostInv
<1>3. RestInv'
  BY <1>1 DEF Inv, RestInv, Open
<1>4. DataIn' /\ WaitOut' /\ DataOut' /\ WaitIn'
  BY <1>1 DEF Inv, DataIn, WaitOut, DataOut, WaitIn, InState, Remain, Open
<1> QED BY <1>2, <1>3, <1>4 DEF Inv

\* A packet has come to the host: more data, the last of them or the empty packet
\* at the end.
LEMMA InvReadsData ==
  ASSUME ControlAssumption, Inv, ReadsData
  PROVE  Inv'
<1>1. /\ Open /\ Reads /\ ep0.setup = None /\ ~ep0.stall /\ ep0.in # None
      /\ ep0' = [ep0 EXCEPT !.in = None]
      /\ UNCHANGED <<asked, put, broken>>
  BY DEF ReadsData, Reads
<1>2. /\ ep0 \in Ctrl /\ asked \in ControlRequests /\ asked.in \in BOOLEAN
  BY <1>1, InvFacts
<1>3. /\ ep0' \in Ctrl /\ SameRequest(ep0, ep0') /\ ep0'.in = None /\ ep0'.setup = None
      /\ ep0'.out = ep0.out /\ ep0'.sends = ep0.sends /\ ~ep0'.stall
      /\ ep0'.nakIn = ep0.nakIn /\ ep0'.nakOut = ep0.nakOut
  BY <1>1, <1>2 DEF Ctrl, SameRequest
<1> USE DEF SameRequest
<1>4. ep0.state \notin {"setup", "stall"}
  BY <1>1 DEF Inv, RestInv
<1>5. CASE stage = "data"
  <2>1. asked.in
    BY <1>1, <1>2, <1>5, Zenon DEF Reads
  <2>2. InState("data_in")
    BY <1>1, <1>4, <2>1 DEF Inv, RestInv, WaitOut, InState
  <2>3. /\ ep0.size = asked.payload /\ ep0.moved <= ep0.size /\ ep0.in.of = asked
        /\ ep0.in.size <= CtrlSize /\ got = ep0.in.from /\ ep0.in.from + ep0.in.size = ep0.moved
        /\ ep0.in.size < CtrlSize <=> ep0.moved = ep0.size /\ ~ep0.zlp
    BY <1>1, <1>5, <2>2 DEF Inv, DataIn
  <2>4. got' = ep0.moved
    BY <1>1, <1>5, <2>3 DEF ReadsData
  <2>5. /\ stage' = IF ep0.in.size < CtrlSize \/ got' = asked.length THEN "status" ELSE "data"
        /\ ~broken
    BY <1>5 DEF ReadsData, Inv, HostInv
  <2>6. /\ ep0.moved \in Nat /\ ep0.size \in Nat /\ asked.payload <= asked.length
        /\ asked.length \in Nat /\ asked.payload \in Nat
    BY <1>2, <2>1, InvFacts
  <2>7. stage' = "status" => got' = asked.payload
    BY <2>3, <2>4, <2>5, <2>6
  <2>8. stage' = "data" => ep0.moved < ep0.size \/ ep0.zlp
    BY <2>3, <2>5, <2>6
  <2>9. ControlTypeOK'
    BY <1>1, <1>3, <2>4, <2>5, <2>6 DEF Inv, ControlTypeOK
  <2>10. HostInv'
    BY <1>1, <1>2, <1>3, <2>1, <2>5, <2>7, InvFacts DEF HostInv
  <2>11. RestInv'
    BY <1>1, <1>3, <1>5, <2>5 DEF Inv, RestInv, Open
  <2>12. DataIn'
    BY <1>1, <1>3, <2>2, <2>4, <2>8 DEF Inv, DataIn, InState, Remain
  <2> QED BY <1>3, <2>2, <2>9, <2>10, <2>11, <2>12 DEF Inv, WaitOut, DataOut, WaitIn, InState
<1>6. CASE stage = "status"
  <2>1. ~asked.in
    BY <1>1, <1>2, <1>6, Zenon DEF Reads
  <2>2. InState("wait_in")
    BY <1>1, <1>2, <1>4, <2>1 DEF Inv, WaitOut, DataIn, DataOut, InState, Ctrl
  <2>3. ep0.in.size = 0
    BY <1>1, <2>2 DEF Inv, WaitIn
  <2>4. stage' = "done" /\ got' = got
    BY <1>1, <1>6, <2>3 DEF ReadsData
  <2>5. ControlTypeOK' /\ HostInv'
    BY <1>1, <1>2, <1>3, <2>4, InvFacts DEF Inv, ControlTypeOK, HostInv
  <2>6. RestInv'
    BY <1>1, <1>3, <1>6, <2>4 DEF Inv, RestInv, Open
  <2>7. WaitIn'
    BY <1>1, <1>3, <2>2, <2>4 DEF Inv, WaitIn, InState
  <2> QED BY <1>3, <2>2, <2>5, <2>6, <2>7 DEF Inv, WaitOut, DataOut, DataIn, InState
<1> QED BY <1>1, <1>5, <1>6 DEF Open

\* The host has sent data, or the empty packet at the end.
LEMMA InvWritesData ==
  ASSUME ControlAssumption, Inv, WritesData
  PROVE  Inv'
<1> DEFINE n == IF stage = "data" THEN Lesser(CtrlSize, asked.length - put) ELSE 0
           p == Packet(asked, put, n)
<1>1. /\ Open /\ ~Reads /\ ep0.setup = None /\ ~ep0.stall /\ ep0.out = None
      /\ ep0' = [ep0 EXCEPT !.out = p] /\ put' = put + n
      /\ stage' = IF stage = "status" THEN "done"
                  ELSE IF put' = asked.length THEN "status" ELSE "data"
      /\ UNCHANGED <<asked, got, broken>>
  BY DEF WritesData, Writes
<1>2. /\ ep0 \in Ctrl /\ asked \in ControlRequests /\ asked.in \in BOOLEAN /\ asked.length \in Nat
      /\ put \in Nat /\ CtrlSize \in Nat /\ CtrlSize > 1
  BY <1>1, InvFacts
<1>3. ep0.state \notin {"setup", "stall"}
  BY <1>1 DEF Inv, RestInv
<1>4. stage = "data" => ~asked.in /\ put < asked.length /\ ~broken
  BY <1>1, <1>2 DEF Reads, Inv, HostInv
<1>5. n \in Nat /\ n <= CtrlSize /\ p \in Packets /\ p # None
      /\ p.of = asked /\ p.from = put /\ p.size = n
  <2>1. n \in Nat /\ n <= CtrlSize
    BY <1>2, <1>4 DEF Lesser
  <2> HIDE DEF n
  <2> QED BY <1>2, <2>1, InvFacts DEF Packet, Packets
<1>6. stage = "data" =>
        put' <= asked.length /\ (n = CtrlSize \/ put' = asked.length)
  BY <1>1, <1>2, <1>4 DEF Lesser
<1> HIDE DEF n, p
<1>7. /\ ep0' \in Ctrl /\ SameRequest(ep0, ep0') /\ ep0'.in = ep0.in /\ ep0'.setup = None
      /\ ep0'.out = p /\ ep0'.sends = ep0.sends /\ ~ep0'.stall
      /\ ep0'.nakIn = ep0.nakIn /\ ep0'.nakOut = ep0.nakOut
  BY <1>1, <1>2, <1>5 DEF Ctrl, SameRequest
<1> USE DEF SameRequest
<1>8. ControlTypeOK'
  BY <1>1, <1>2, <1>5, <1>7 DEF Inv, ControlTypeOK
<1>9. CASE stage = "data"
  <2>1. InState("data_out")
    BY <1>1, <1>2, <1>3, <1>4, <1>9 DEF Inv, DataIn, WaitOut, WaitIn, InState, Ctrl
  <2>2. stage' \in {"data", "status"} /\ (stage' = "status" <=> put' = asked.length)
    BY <1>1, <1>9
  <2>3. HostInv'
    <3>1. stage' = "data" => put' < asked.length
      BY <1>1, <1>2, <1>5, <1>6, <1>9, <2>2
    <3> QED BY <1>1, <1>2, <1>4, <1>7, <1>9, <2>2, <3>1, InvFacts DEF HostInv
  <2>4. RestInv'
    BY <1>1, <1>4, <1>7, <1>9, <2>1 DEF Inv, RestInv, InState
  <2>5. DataOut'
    BY <1>1, <1>5, <1>6, <1>7, <1>9, <2>1, <2>2 DEF Inv, DataOut, InState, Open
  <2> QED BY <1>7, <1>8, <2>1, <2>3, <2>4, <2>5 DEF Inv, WaitOut, WaitIn, DataIn, InState
<1>10. CASE stage = "status"
  <2>1. asked.in
    BY <1>1, <1>2, <1>10 DEF Reads
  <2>2. ep0.state \in {"data_in", "wait_out"}
    BY <1>1, <1>3, <2>1 DEF Inv, RestInv
  <2>3. stage' = "done"
    BY <1>1, <1>10
  <2>4. HostInv'
    BY <1>1, <1>2, <1>7, <2>3, InvFacts DEF HostInv
  <2>5. RestInv'
    BY <1>1, <1>7, <2>2, <2>3 DEF Inv, RestInv, Open
  <2>6. DataIn' /\ WaitOut'
    BY <1>1, <1>5, <1>7, <2>3 DEF Inv, DataIn, WaitOut, InState, Remain
  <2> QED BY <1>7, <1>8, <2>2, <2>4, <2>5, <2>6 DEF Inv, DataOut, WaitIn, InState
<1> QED BY <1>1, <1>9, <1>10 DEF Open

LEMMA InvGoesToEnd ==
  ASSUME ControlAssumption, Inv, GoesToEnd
  PROVE  Inv'
<1>1. /\ stage = "data" /\ stage' = "status" /\ broken' = TRUE /\ ~broken
      /\ UNCHANGED <<ep0, address, asked, put, got>>
  BY DEF GoesToEnd, Inv, HostInv
<1>2. ControlTypeOK' /\ HostInv'
  BY <1>1, InvFacts DEF Inv, ControlTypeOK, HostInv, Open
<1>3. RestInv'
  BY <1>1 DEF Inv, RestInv, Open
<1>4. DataIn' /\ WaitOut' /\ DataOut' /\ WaitIn'
  BY <1>1 DEF Inv, DataIn, WaitOut, DataOut, WaitIn, InState, Remain, Open
<1> QED BY <1>2, <1>3, <1>4 DEF Inv

LEMMA InvReadsMore ==
  ASSUME ControlAssumption, Inv, ReadsMore
  PROVE  Inv'
<1>1. /\ stage = "status" /\ asked.in /\ ep0.setup = None /\ ~ep0.stall /\ broken' = TRUE
      /\ UNCHANGED <<address, asked, stage, put, got>>
  BY DEF ReadsMore, hostVars
<1>2. /\ ep0' \in Ctrl /\ SameRequest(ep0, ep0') /\ ep0'.setup = None /\ ep0'.in = None
      /\ ep0'.out = ep0.out /\ ep0'.sends = ep0.sends /\ ~ep0'.stall
  <2>1. ep0 \in Ctrl
    BY InvFacts
  <2>2. CASE ep0.in = None
    <3>1. ep0' = [ep0 EXCEPT !.nakIn = TRUE]
      BY <2>2 DEF ReadsMore
    <3> QED BY <1>1, <2>1, <2>2, <3>1, Zenon DEF Ctrl, SameRequest
  <2>3. CASE ep0.in # None
    <3>1. ep0' = [ep0 EXCEPT !.in = None]
      BY <2>3 DEF ReadsMore
    <3> QED BY <1>1, <2>1, <3>1 DEF Ctrl, SameRequest
  <2> QED BY <2>2, <2>3
<1> USE DEF SameRequest
<1>3. ep0.state \in {"data_in", "wait_out"}
  BY <1>1 DEF Inv, RestInv, Open
<1>4. ControlTypeOK' /\ HostInv'
  BY <1>1, <1>2, InvFacts DEF Inv, ControlTypeOK, HostInv, Open
<1>5. RestInv'
  BY <1>1, <1>2, <1>3 DEF Inv, RestInv, Open
<1>6. DataIn' /\ WaitOut'
  BY <1>1, <1>2 DEF Inv, DataIn, WaitOut, InState, Remain
<1> QED BY <1>2, <1>3, <1>4, <1>5, <1>6 DEF Inv, DataOut, WaitIn, InState

LEMMA InvWritesMore ==
  ASSUME ControlAssumption, Inv, WritesMore
  PROVE  Inv'
<1> DEFINE p == Packet(asked, put, 1)
<1>1. /\ stage = "status" /\ ~asked.in /\ ep0.setup = None /\ ~ep0.stall /\ broken' = TRUE
      /\ UNCHANGED <<address, asked, stage, put, got>>
      /\ \/ ep0' = [ep0 EXCEPT !.nakOut = TRUE]
         \/ ep0.out = None /\ ep0' = [ep0 EXCEPT !.out = p]
  BY DEF WritesMore, hostVars
<1>2. /\ ep0 \in Ctrl /\ asked \in ControlRequests /\ CtrlSize \in Nat /\ CtrlSize > 1
      /\ p \in Packets /\ p # None /\ p.of = asked /\ p.from = put /\ p.size = 1
  BY <1>1, InvFacts DEF Packet, Packets, Open
<1> HIDE DEF p
<1>3. /\ ep0' \in Ctrl /\ SameRequest(ep0, ep0') /\ ep0'.setup = None /\ ep0'.in = ep0.in
      /\ ep0'.sends = ep0.sends /\ ~ep0'.stall
      /\ ep0'.out = ep0.out \/ (ep0.out = None /\ ep0'.out = p)
  <2>1. CASE ep0' = [ep0 EXCEPT !.nakOut = TRUE]
    BY <1>1, <1>2, <2>1, Zenon DEF Ctrl, SameRequest
  <2>2. CASE ep0.out = None /\ ep0' = [ep0 EXCEPT !.out = p]
    BY <1>1, <1>2, <2>2 DEF Ctrl, SameRequest
  <2> QED BY <1>1, <2>1, <2>2
<1> USE DEF SameRequest
<1>4. ep0.state \in {"data_out", "wait_in"}
  BY <1>1, <1>2 DEF Inv, RestInv, DataIn, WaitOut, InState, Open, Ctrl
<1>5. ControlTypeOK' /\ HostInv'
  BY <1>1, <1>2, <1>3, InvFacts DEF Inv, ControlTypeOK, HostInv, Open
<1>6. RestInv'
  BY <1>1, <1>3, <1>4 DEF Inv, RestInv, Open
<1>7. DataOut'
  <2>1. CASE ep0'.out = ep0.out
    BY <1>1, <1>3, <2>1 DEF Inv, DataOut, InState, Open
  <2>2. CASE ep0.out = None /\ ep0'.out = p
    BY <1>1, <1>2, <1>3, <2>2 DEF Inv, DataOut, InState, Open
  <2> QED BY <1>3, <2>1, <2>2
<1>8. WaitIn'
  BY <1>1, <1>3 DEF Inv, WaitIn, InState
<1> QED BY <1>3, <1>4, <1>5, <1>6, <1>7, <1>8 DEF Inv, DataIn, WaitOut, InState

LEMMA InvAfterReset ==
  ASSUME ControlAssumption
  PROVE  /\ ControlInit => Inv
         /\ ControlReset => Inv'
<1>1. AfterReset \in Ctrl /\ AfterReset.setup = None /\ AfterReset.state = "setup"
      /\ ~AfterReset.callback /\ ~AfterReset.sends /\ AfterReset.out = None /\ ~AfterReset.stall
  BY DEF AfterReset, Ctrl
<1>2. ASSUME ControlInit PROVE Inv
  <2> USE <1>2 DEF ControlInit
  <2>1. ControlTypeOK /\ HostInv /\ RestInv
    BY <1>1, Zenon DEF ControlTypeOK, HostInv, RestInv, Open
  <2> QED BY <1>1, <2>1 DEF Inv, DataIn, WaitOut, DataOut, WaitIn, InState
<1>3. ASSUME ControlReset PROVE Inv'
  <2> USE <1>3 DEF ControlReset
  <2>1. ControlTypeOK' /\ HostInv' /\ RestInv'
    BY <1>1, Zenon DEF ControlTypeOK, HostInv, RestInv, Open
  <2> QED BY <1>1, <2>1 DEF Inv, DataIn, WaitOut, DataOut, WaitIn, InState
<1> QED BY <1>2, <1>3

LEMMA InvNext ==
  ASSUME ControlAssumption, Inv, [ControlNext]_controlVars
  PROVE  Inv'
<1>1. CASE UNCHANGED controlVars
  BY <1>1 DEF controlVars, Inv, ControlTypeOK, HostInv, RestInv, DataIn, WaitOut, DataOut, WaitIn, InState,
              Remain, Open
<1>2. CASE udd_ctrl_interrupt
  BY <1>2, InvSetupReceived, InvInSent, InvOutData, InvOutEnds, InvOverflow, InvUnderflow
  DEF udd_ctrl_interrupt
<1>3. CASE HostGoesOn
  BY <1>3, InvStalled, InvReadsData, InvWritesData DEF HostGoesOn
<1>4. CASE NakIn \/ NakOut \/ GoesToEnd \/ ReadsMore \/ WritesMore \/ ControlReset
  BY <1>4, InvNak, InvGoesToEnd, InvReadsMore, InvWritesMore, InvAfterReset
<1>5. CASE \E r \in ControlRequests : Setup(r)
  BY <1>5, InvSetup
<1> QED BY <1>1, <1>2, <1>3, <1>4, <1>5 DEF ControlNext

\* The driver, the host and the controller agree on the request and on how far it is,
\* as Inv says.
THEOREM ControlInvariant == ASSUME ControlAssumption PROVE ControlSpec => []Inv
<1>1. ControlInit => Inv
  BY InvAfterReset
<1>2. Inv /\ [ControlNext]_controlVars => Inv'
  BY InvNext
<1> QED BY <1>1, <1>2, PTL DEF ControlSpec

-----------------------------------------------------------------------------
(* Every step is one of ControlPipe, or changes nothing that it speaks of. *)

End  == IF stage \in {"done", "refused"} THEN stage ELSE "no"
Owed == IF ep0.callback THEN ep0.req.value ELSE None
Due  == ep0.callback /\ (ep0.setup # None \/ broken \/ stage # "status")

PipeStep == [Pipe!Next]_(Pipe!vars)

LEMMA Stutter ==
  ASSUME UNCHANGED <<asked, got, stage, broken, address>>, Owed' = Owed, Due' <=> Due
  PROVE  PipeStep
BY DEF PipeStep, Pipe!vars, Owed, Due

\* An address is taken only after a request for it, which has no data.
LEMMA AddressFacts ==
  ASSUME ControlAssumption, Inv
  PROVE  /\ Owed # None <=> ep0.callback
         /\ ep0.callback => ep0.state = "wait_in"
         /\ ep0.callback /\ ep0.setup = None =>
              Owed = asked.value /\ stage # "data"
<1>1. ep0.callback => ep0.state = "wait_in" /\ ep0.req \in ControlRequests
  BY DEF Inv, RestInv
<1>2. Owed # None <=> ep0.callback
  BY <1>1, InvFacts DEF Owed, ControlAssumption
<1>3. ASSUME ep0.callback, ep0.setup = None
      PROVE  Owed = asked.value /\ stage # "data"
  <2>1. ep0.req = asked
    BY <1>1, <1>3 DEF Inv, RestInv
  <2> QED BY <1>1, <1>3, <2>1 DEF Owed, Inv, WaitIn, InState
<1> QED BY <1>1, <1>2, <1>3

LEMMA PipeSetup ==
  ASSUME ControlAssumption, Inv, NEW r \in ControlRequests, Setup(r)
  PROVE  PipeStep
<1>1. ep0 \in Ctrl /\ r # None
  BY InvFacts
<1>2. /\ ep0'.setup = r /\ ep0'.callback = ep0.callback /\ ep0'.req = ep0.req
      /\ asked' = r /\ got' = 0 /\ broken' = FALSE /\ stage' \in {"data", "status"}
      /\ UNCHANGED address
  BY <1>1 DEF Setup, Ctrl
<1>3. Owed' = Owed /\ (Due' <=> Owed # None)
  BY <1>1, <1>2, AddressFacts DEF Owed, Due
<1>4. Pipe!Ask(r)
  BY <1>2, <1>3 DEF Pipe!Ask, Owed, Due
<1> QED BY <1>4 DEF PipeStep, Pipe!Next

LEMMA PipeBreakOff ==
  ASSUME ControlAssumption, Inv, GoesToEnd \/ ReadsMore \/ WritesMore
  PROVE  PipeStep
<1>1. ep0 \in Ctrl
  BY InvFacts
<1>2. /\ ep0'.callback = ep0.callback /\ ep0'.req = ep0.req
      /\ stage \in {"data", "status"} /\ stage' \in {"data", "status"} /\ broken' = TRUE
      /\ UNCHANGED <<asked, got, address>>
  BY <1>1 DEF GoesToEnd, ReadsMore, WritesMore, hostVars, Ctrl
<1>3. Owed' = Owed /\ (Due' <=> Owed # None)
  BY <1>1, <1>2, AddressFacts DEF Owed, Due
<1>4. Pipe!BreakOff
  BY <1>2, <1>3 DEF Pipe!BreakOff, Owed, Due
<1> QED BY <1>4 DEF PipeStep, Pipe!Next

LEMMA PipeReset ==
  ASSUME ControlReset PROVE PipeStep
<1>1. /\ ~ep0'.callback /\ asked' = None /\ got' = 0 /\ stage' = "done" /\ broken' = FALSE
      /\ address' = 0
  BY DEF ControlReset, AfterReset
<1>2. Pipe!Reset
  BY <1>1 DEF Pipe!Reset
<1> QED BY <1>2 DEF PipeStep, Pipe!Next

\* The host does not refuse what the device knows, unless it has broken off.
LEMMA PipeStalled ==
  ASSUME ControlAssumption, Inv, Stalled
  PROVE  PipeStep
<1>1. /\ Open /\ ep0.setup = None /\ ep0.stall /\ stage' = "refused"
      /\ UNCHANGED <<ep0, address, asked, got, broken>>
  BY DEF Stalled
<1>2. broken \/ (~Known(asked, address) /\ ~ep0.callback)
  BY <1>1 DEF Inv, RestInv
<1>3. Due => broken
  BY <1>1, AddressFacts DEF Due, Open
<1>4. Owed' = Owed /\ (Due' <=> Due)
  BY <1>1, <1>2 DEF Owed, Due
<1>5. Pipe!Refuse
  BY <1>1, <1>2, <1>3, <1>4 DEF Pipe!Refuse, Pipe!Known, Known, Owed, Due, Open
<1> QED BY <1>5 DEF PipeStep, Pipe!Next

\* Data come to the host in their order, and the packet at the end after all data
\* have come to the device.
LEMMA PipeReadsData ==
  ASSUME ControlAssumption, Inv, ReadsData
  PROVE  PipeStep
<1>1. /\ Open /\ Reads /\ ep0.setup = None /\ ~ep0.stall /\ ep0.in # None
      /\ ep0' = [ep0 EXCEPT !.in = None]
      /\ UNCHANGED <<asked, address, broken>>
  BY DEF ReadsData, Reads
<1>2. /\ ep0 \in Ctrl /\ asked \in ControlRequests /\ asked.in \in BOOLEAN
  BY <1>1, InvFacts
<1>3. ep0'.setup = None /\ ep0'.callback = ep0.callback /\ ep0'.req = ep0.req
  BY <1>1, <1>2 DEF Ctrl
<1>4. ep0.state \notin {"setup", "stall"}
  BY <1>1 DEF Inv, RestInv
<1>5. CASE stage = "data"
  <2>1. asked.in
    BY <1>1, <1>2, <1>5, Zenon DEF Reads
  <2>2. InState("data_in")
    BY <1>1, <1>4, <2>1 DEF Inv, RestInv, WaitOut, InState
  <2>3. /\ ep0.size = asked.payload /\ ep0.moved <= ep0.size /\ ep0.in.of = asked
        /\ ep0.in.size <= CtrlSize /\ got = ep0.in.from /\ ep0.in.from + ep0.in.size = ep0.moved
    BY <1>1, <1>5, <2>2 DEF Inv, DataIn
  <2>4. /\ got' = got + ep0.in.size /\ stage' \in {"data", "status"}
        /\ ep0.in.size \in 0 .. CtrlSize /\ got \in Nat
    BY <1>1, <1>5, <2>3, InvFacts DEF ReadsData
  <2>5. ~ep0.callback
    BY <2>2, AddressFacts DEF InState
  <2>6. CASE ep0.in.size = 0
    BY <1>1, <1>3, <1>5, <2>4, <2>5, <2>6 DEF PipeStep, Pipe!vars
  <2>7. CASE ep0.in.size # 0
    <3>1. ep0.in.size \in 1 .. CtrlSize /\ got + ep0.in.size <= asked.payload
      BY <2>3, <2>4, <2>7
    <3>2. Pipe!Move(ep0.in.size)
      BY <1>1, <1>3, <1>5, <2>1, <2>4, <2>5, <3>1 DEF Pipe!Move, Pipe!Bytes
    <3> QED BY <3>1, <3>2 DEF PipeStep, Pipe!Next
  <2> QED BY <2>6, <2>7
<1>6. CASE stage = "status"
  <2>1. ~asked.in
    BY <1>1, <1>2, <1>6, Zenon DEF Reads
  <2>2. InState("wait_in")
    BY <1>1, <1>2, <1>4, <2>1 DEF Inv, WaitOut, DataIn, DataOut, InState, Ctrl
  <2>3. /\ ep0.in.size = 0 /\ (ep0.callback <=> asked.kind = "address")
        /\ broken \/ got = asked.length
    BY <1>1, <2>2 DEF Inv, WaitIn
  <2>4. stage' = "done" /\ got' = got
    BY <1>1, <1>6, <2>3 DEF ReadsData
  <2>5. /\ Due => broken
        /\ Due' <=> Owed # None
        /\ Owed' = Owed
        /\ asked.kind = "address" => Owed = asked.value
    BY <1>1, <1>3, <1>6, <2>3, <2>4, AddressFacts DEF Due, Owed
  <2>6. Pipe!Done
    BY <1>1, <1>6, <2>1, <2>3, <2>4, <2>5 DEF Pipe!Done, Pipe!Bytes, Owed, Due
  <2> QED BY <2>6 DEF PipeStep, Pipe!Next
<1> QED BY <1>1, <1>5, <1>6 DEF Open

\* The host ends a request only when it has got all data.
LEMMA PipeWritesData ==
  ASSUME ControlAssumption, Inv, WritesData
  PROVE  PipeStep
<1> DEFINE n == IF stage = "data" THEN Lesser(CtrlSize, asked.length - put) ELSE 0
           p == Packet(asked, put, n)
<1>1. /\ Open /\ ~Reads /\ ep0.setup = None /\ ~ep0.stall /\ ep0.out = None
      /\ ep0' = [ep0 EXCEPT !.out = p]
      /\ stage' = IF stage = "status" THEN "done"
                  ELSE IF put' = asked.length THEN "status" ELSE "data"
      /\ UNCHANGED <<asked, got, broken, address>>
  BY DEF WritesData, Writes
<1>2. /\ ep0 \in Ctrl /\ asked \in ControlRequests /\ asked.in \in BOOLEAN
  BY <1>1, InvFacts
<1> HIDE DEF n, p
<1>3. ep0'.setup = None /\ ep0'.callback = ep0.callback /\ ep0'.req = ep0.req
  BY <1>1, <1>2 DEF Ctrl
<1>4. CASE stage = "data"
  <2>1. ~ep0.callback
    BY <1>1, <1>4, AddressFacts
  <2> QED BY <1>1, <1>3, <1>4, <2>1 DEF PipeStep, Pipe!vars
<1>5. CASE stage = "status"
  <2>1. asked.in
    BY <1>1, <1>2, <1>5 DEF Reads
  <2>2. ~ep0.callback /\ asked.kind # "address"
    BY <1>1, <1>2, <2>1, InvFacts DEF Inv, RestInv
  <2>3. broken \/ got = asked.payload
    BY <1>5, <2>1 DEF Inv, HostInv
  <2>4. Pipe!Done
    BY <1>1, <1>3, <1>5, <2>1, <2>2, <2>3 DEF Pipe!Done, Pipe!Bytes
  <2> QED BY <2>4 DEF PipeStep, Pipe!Next
<1> QED BY <1>1, <1>4, <1>5 DEF Open

\* A new request ends the one before it, and with it the address is taken.
LEMMA PipeSetupReceived ==
  ASSUME ControlAssumption, Inv, SetupReceived
  PROVE  PipeStep
<1> DEFINE r == ep0.setup
           x == IF ep0.state # "setup" THEN udd_ctrl_init(Entered) ELSE Entered
<1>1. r \in ControlRequests /\ r = asked /\ r # None /\ Open
  BY InvFacts DEF SetupReceived, Inv, HostInv
<1>2. x \in Ctrl
  <2>1. CASE ep0.state = "setup"
    BY <2>1, InvFacts, EnteredFacts
  <2>2. CASE ep0.state # "setup"
    BY <2>2, InvFacts, EnteredFacts, InitFacts
  <2> QED BY <2>1, <2>2
<1>3. /\ ep0' = IF Known(r, address') THEN Decoded(x, r) ELSE Refused(x, r)
      /\ UNCHANGED <<asked, stage, got, broken>>
      /\ address' = IF Owed # None THEN Owed ELSE address
      /\ Due <=> Owed # None
  BY <1>1, AddressFacts DEF SetupReceived, hostVars, EndOfRequest, Owed, Due
<1> HIDE DEF x, r
<1>4. ASSUME ~ep0'.callback, r.kind # "address" PROVE PipeStep
  <2>1. Owed' = None /\ ~Due'
    BY <1>4 DEF Owed, Due
  <2>2. CASE Owed = None
    BY <1>3, <2>1, <2>2, Stutter
  <2>3. CASE Owed # None
    <3>1. Pipe!TakeAddress
      BY <1>3, <2>1, <2>3 DEF Pipe!TakeAddress, Owed, Due
    <3> QED BY <3>1 DEF PipeStep, Pipe!Next
  <2> QED BY <2>2, <2>3
<1>5. CASE ~Known(r, address')
  <2>1. ~ep0'.callback
    BY <1>2, <1>3, <1>5 DEF Refused, udd_ctrl_stall_data, Ctrl
  <2>2. r.kind # "address" \/ r.kind = "unknown"
    BY <1>5 DEF Known
  <2>3. r.kind # "address"
    BY <2>2
  <2> QED BY <1>4, <2>1, <2>3
<1>6. CASE Known(r, address')
  <2> DEFINE c == (r.kind = "address")
             s == IF r.in THEN r.payload ELSE r.length
             y == [x EXCEPT !.req = r, !.setup = None, !.callback = c, !.size = s]
             z == (y.size % CtrlSize = 0)
             w == [y EXCEPT !.zlp = z, !.moved = 0, !.state = "data_in"]
             v == [y EXCEPT !.moved = 0, !.state = "data_out", !.nakIn = FALSE,
                            !.watchIn = TRUE]
  <2>1. r.in \in BOOLEAN /\ s \in Nat /\ c \in BOOLEAN /\ (c <=> r.kind = "address")
    BY <1>1, InvFacts
  <2>2. ep0' = IF r.in THEN SendData(w)
               ELSE IF r.length = 0 THEN udd_ctrl_send_zlp_in(y) ELSE v
    BY <1>3, <1>6 DEF Decoded
  <2> HIDE DEF c, s
  <2>3. y \in Ctrl /\ y.req = r /\ y.setup = None /\ y.callback = c /\ y.size = s
    BY <1>1, <1>2, <2>1, Zenon DEF Ctrl
  <2> HIDE DEF y
  <2>4. CASE r.kind = "address"
    <3>1. r.in = FALSE /\ r.length = 0
      BY <1>1, <2>1, <2>4, InvFacts
    <3>2. ep0' = udd_ctrl_send_zlp_in(y)
      BY <2>2, <3>1
    <3>3. ep0'.callback /\ ep0'.req = r /\ ep0'.setup = None
      BY <1>1, <2>1, <2>3, <2>4, <3>2, ZlpInFacts, Zenon
    <3>4. stage = "status"
      <4>1. stage = "data" => put < 0
        BY <1>1, <3>1 DEF Inv, HostInv
      <4> QED BY <1>1, <4>1, InvFacts DEF Open
    <3>5. Owed' = r.value /\ (Due' <=> broken)
      BY <1>3, <3>3, <3>4 DEF Owed, Due
    <3>6. Pipe!Accept
      <4>1. broken \in BOOLEAN
        BY InvFacts
      <4> QED BY <1>1, <1>3, <2>4, <3>4, <3>5, <4>1 DEF Pipe!Accept, Owed, Due
    <3> QED BY <3>6 DEF PipeStep, Pipe!Next
  <2>5. CASE r.kind # "address"
    <3>1. CASE r.in = TRUE
      <4>1. ep0' = SendData(w)
        BY <2>2, <3>1
      <4>2. z \in BOOLEAN
        OBVIOUS
      <4> HIDE DEF z
      <4>3. w \in Ctrl /\ w.req = r /\ w.callback = c /\ w.moved = 0 /\ w.size = s
        BY <2>3, <4>2, ZenonT(30) DEF Ctrl
      <4> HIDE DEF w
      <4>4. w.moved <= w.size
        BY <2>1, <4>3
      <4>5. ep0'.callback = c
        BY <1>1, <4>1, <4>3, <4>4, SendDataFacts
      <4> QED BY <1>4, <2>1, <2>5, <4>5
    <3>2. CASE r.in = FALSE /\ r.length = 0
      <4>1. ep0' = udd_ctrl_send_zlp_in(y)
        BY <2>2, <3>2
      <4>2. ep0'.callback = c
        BY <1>1, <2>3, <4>1, ZlpInFacts
      <4> QED BY <1>4, <2>1, <2>5, <4>2
    <3>3. CASE r.in = FALSE /\ r.length # 0
      <4>1. ep0' = v
        BY <2>2, <3>3
      <4>2. ep0'.callback = c
        BY <2>3, <4>1 DEF Ctrl
      <4> QED BY <1>4, <2>1, <2>5, <4>2
    <3> QED BY <2>1, <3>1, <3>2, <3>3, Zenon
  <2> QED BY <2>4, <2>5
<1> QED BY <1>5, <1>6

\* An address is taken after the empty packet has gone, and only then.
LEMMA PipeInSent ==
  ASSUME ControlAssumption, Inv, InSent
  PROVE  PipeStep
<1>1. /\ ep0.setup = None /\ ep0.in = None /\ ep0.sends
      /\ UNCHANGED <<asked, stage, got, broken>>
  BY DEF InSent, Sent, hostVars
<1>2. /\ Entered \in Ctrl /\ Entered.req = ep0.req /\ Entered.callback = ep0.callback
      /\ Entered.moved = ep0.moved /\ Entered.size = ep0.size
  BY InvFacts, EnteredFacts DEF SameRequest
<1>3. CASE ep0.state = "wait_in"
  <2>1. ep0' = udd_ctrl_init(Entered) /\ address' = IF Owed # None THEN Owed ELSE address
    BY <1>3, AddressFacts DEF InSent, EndOfRequest, Owed
  <2>2. ~ep0'.callback
    BY <1>2, <2>1, InitFacts
  <2>3. Due <=> Owed # None
    BY <1>1, <1>3, AddressFacts DEF Inv, WaitIn, InState, Due
  <2>4. Owed' = None /\ ~Due'
    BY <2>2 DEF Owed, Due
  <2>5. CASE Owed = None
    BY <1>1, <2>1, <2>3, <2>4, <2>5, Stutter
  <2>6. CASE Owed # None
    <3>1. Pipe!TakeAddress
      BY <1>1, <2>1, <2>3, <2>4, <2>6 DEF Pipe!TakeAddress, Owed, Due
    <3> QED BY <3>1 DEF PipeStep, Pipe!Next
  <2> QED BY <2>5, <2>6
<1>4. CASE ep0.state # "wait_in"
  <2>1. ep0.state = "data_in" /\ ep0' = SendData(Entered) /\ ~ep0.callback
        /\ UNCHANGED address
    BY <1>1, <1>4 DEF InSent, Inv, RestInv
  <2>2. Entered.req \in ControlRequests /\ Entered.moved <= Entered.size
    BY <1>1, <1>2, <2>1, InvFacts DEF Inv, RestInv, DataIn, InState
  <2>3. ~ep0'.callback
    BY <1>2, <2>1, <2>2, SendDataFacts
  <2> QED BY <1>1, <2>1, <2>3, Stutter DEF Owed, Due
<1> QED BY <1>3, <1>4

\* Data have come to the device, in their order.
LEMMA PipeOutData ==
  ASSUME ControlAssumption, Inv, OutData
  PROVE  PipeStep
<1> DEFINE n == Lesser(ep0.out.size, ep0.size - ep0.moved)
           x == [Entered EXCEPT !.out = None, !.moved = @ + n]
<1>1. /\ ep0.setup = None /\ ep0.out # None /\ ep0.state = "data_out"
      /\ UNCHANGED <<asked, stage, broken, address>>
      /\ got' = IF ep0.out.of = asked /\ ep0.out.from = got THEN got + n ELSE -1
  BY DEF OutData, hostVars
<1>2. /\ Entered \in Ctrl /\ Entered.moved = ep0.moved /\ Entered.callback = ep0.callback
      /\ Entered.req = ep0.req
  BY InvFacts, EnteredFacts DEF SameRequest
<1>3. /\ ~asked.in /\ ep0.size = asked.length /\ got = ep0.moved /\ ep0.moved < ep0.size
      /\ Open /\ ep0.out.of = asked /\ ep0.out.from = ep0.moved /\ ep0.out.size <= CtrlSize
  BY <1>1 DEF Inv, DataOut, InState
<1>4. ~ep0.callback /\ ep0.req \in ControlRequests
  BY <1>1, <1>3, InvFacts DEF Inv, RestInv
<1>5. n \in 0 .. CtrlSize /\ got + n <= asked.length /\ got' = got + n /\ got \in Nat
  BY <1>1, <1>3, InvFacts DEF Lesser
<1>6. ~ep0'.callback
  <2>1. ep0' = IF n # CtrlSize \/ ep0.req.length <= x.moved THEN udd_ctrl_send_zlp_in(x)
               ELSE IF x.moved = x.size THEN udd_ctrl_stall_data(x)
               ELSE [x EXCEPT !.nakIn = FALSE, !.watchIn = TRUE]
    BY DEF OutData
  <2>2. x \in Ctrl /\ ~x.callback /\ x.req \in ControlRequests
    <3>1. Entered.moved + n \in Nat
      BY <1>2, <1>3, <1>5
    <3> HIDE DEF n
    <3> QED BY <1>2, <1>4, <3>1, Zenon DEF Ctrl
  <2> HIDE DEF x, n
  <2>3. /\ ~udd_ctrl_send_zlp_in(x).callback /\ ~udd_ctrl_stall_data(x).callback
        /\ ~[x EXCEPT !.nakIn = FALSE, !.watchIn = TRUE].callback
    BY <2>2, ZlpInFacts, StallFacts DEF Ctrl
  <2> QED BY <2>1, <2>3
<1> HIDE DEF n, x
<1>7. CASE n = 0
  BY <1>1, <1>4, <1>5, <1>6, <1>7, Stutter DEF Owed, Due
<1>8. CASE n # 0
  <2>1. n \in 1 .. CtrlSize
    BY <1>5, <1>8
  <2>2. Pipe!Move(n)
    BY <1>1, <1>3, <1>4, <1>5, <1>6 DEF Pipe!Move, Pipe!Bytes, Open
  <2> QED BY <2>1, <2>2 DEF PipeStep, Pipe!Next
<1> QED BY <1>7, <1>8

\* The host has broken off: an address that it has not got the answer for is
\* forgotten.
LEMMA PipeOutEnds ==
  ASSUME ControlAssumption, Inv, OutEnds
  PROVE  PipeStep
<1>1. /\ ep0.setup = None /\ ~Sent /\ ep0.out # None
      /\ UNCHANGED <<asked, stage, got, broken>>
  BY DEF OutEnds, hostVars
<1>2. Entered \in Ctrl
  BY InvFacts, EnteredFacts
<1>3. ~ep0'.callback
  <2>1. ep0' = udd_ctrl_init(Entered) \/ ep0' = udd_ctrl_init(udd_ctrl_stall_data(Entered))
    BY DEF OutEnds
  <2>2. udd_ctrl_stall_data(Entered) \in Ctrl
    BY <1>2, StallFacts
  <2> QED BY <1>2, <2>1, <2>2, InitFacts
<1>4. UNCHANGED address
  BY InvFacts, AddressFacts DEF OutEnds, EndOfRequest
<1>5. Owed' = None /\ ~Due'
  BY <1>3 DEF Owed, Due
<1>6. CASE Owed = None
  <2>1. ~Due
    BY <1>6, AddressFacts DEF Due
  <2> QED BY <1>1, <1>4, <1>5, <1>6, <2>1, Stutter
<1>7. CASE Owed # None
  <2>1. InState("wait_in")
    BY <1>1, <1>7, AddressFacts DEF InState
  <2>2. broken /\ stage # "done"
    BY <1>1, <2>1 DEF Inv, WaitIn, Sent
  <2>3. Pipe!Forget
    BY <1>1, <1>4, <1>5, <1>7, <2>2 DEF Pipe!Forget, Owed, Due
  <2> QED BY <2>3 DEF PipeStep, Pipe!Next
<1> QED BY <1>6, <1>7

LEMMA PipeNaks ==
  ASSUME ControlAssumption, Inv, Overflow \/ Underflow \/ NakIn \/ NakOut
  PROVE  PipeStep
<1>1. UNCHANGED <<asked, stage, got, broken, address>>
  BY DEF Overflow, Underflow, NakIn, NakOut, hostVars
<1>2. Entered \in Ctrl /\ SameRequest(ep0, Entered) /\ Entered.setup = ep0.setup
  BY InvFacts, EnteredFacts DEF SamePackets
<1>3. ep0'.callback = ep0.callback /\ ep0'.req = ep0.req /\ ep0'.setup = ep0.setup
  <2>1. CASE Overflow
    BY <1>2, <2>1 DEF Overflow, Ctrl, SameRequest
  <2>2. CASE Underflow
    BY <1>2, <2>2 DEF Underflow, udd_ctrl_send_zlp_in, Ctrl, SameRequest
  <2>3. CASE NakIn \/ NakOut
    BY <2>3, InvFacts DEF NakIn, NakOut, Ctrl
  <2> QED BY <2>1, <2>2, <2>3
<1> QED BY <1>1, <1>3, Stutter DEF Owed, Due

\* The driver keeps the promises that ControlPipe makes to a host: data that fill
\* their packets or do not come whole and in order, a request is refused or ended
\* only when it may be, and an address is taken neither early nor late; for any
\* requests and any size of the packets.
THEOREM ControlPipeKept == ASSUME ControlAssumption PROVE ControlSpec => ImplementsControlPipe
<1>1. ControlInit => Pipe!Init
  BY DEF ControlInit, AfterReset, Pipe!Init
<1>2. ASSUME Inv, [ControlNext]_controlVars PROVE PipeStep
  <2>1. CASE UNCHANGED controlVars
    BY <2>1, Stutter DEF controlVars, Owed, Due
  <2>2. CASE udd_ctrl_interrupt
    BY <1>2, <2>2, PipeSetupReceived, PipeInSent, PipeOutData, PipeOutEnds, PipeNaks
    DEF udd_ctrl_interrupt
  <2>3. CASE HostGoesOn
    BY <1>2, <2>3, PipeStalled, PipeReadsData, PipeWritesData DEF HostGoesOn
  <2>4. CASE NakIn \/ NakOut \/ GoesToEnd \/ ReadsMore \/ WritesMore \/ ControlReset
    BY <1>2, <2>4, PipeNaks, PipeBreakOff, PipeReset
  <2>5. CASE \E r \in ControlRequests : Setup(r)
    BY <1>2, <2>5, PipeSetup
  <2> QED BY <1>2, <2>1, <2>2, <2>3, <2>4, <2>5 DEF ControlNext
<1>3. Inv /\ [ControlNext]_controlVars => [Pipe!Next]_(Pipe!vars)
  BY <1>2 DEF PipeStep
<1> QED BY <1>1, <1>3, ControlInvariant, PTL DEF ControlSpec, ImplementsControlPipe, Pipe!Spec
=============================================================================
