------------------------------- MODULE MCUsbCdc -------------------------------
(***************************************************************************)
(* The USB device.  A behaviour is one of the serial port, or one of the   *)
(* control endpoint; the variables of the other keep an initial value.     *)
(* On the port there are two tasks; one of them is alone on its direction, *)
(* except for two rivals.                                                  *)
(***************************************************************************)
EXTENDS UsbCdc, UsbControl

CONSTANTS t1, t2

VARIABLE part

allVars == <<part, vars, controlVars>>

Alone(j) == (t1 :> j) @@ (t2 :> "none")
Rivals   == (t1 :> "putc") @@ (t2 :> "write_buf")

Scene(j, n, c, h) == [job |-> j, calls |-> n, cuts |-> c, halts |-> h]

MCScenes ==
  {Scene(Rivals, 1, 1, FALSE), Scene(Alone("putc"), 5, 1, FALSE), Scene(Alone("getc"), 3, 1, FALSE)}
  \cup {Scene(Alone(j), 1, 1, FALSE) : j \in {"write_buf", "read_buf"}}
  \cup {Scene(Alone(j), 1, 2, FALSE) : j \in {"putc", "getc"}}
  \cup {Scene(Alone(j), 2, 1, TRUE) : j \in {"putc", "getc"}}
  \cup {Scene(Alone("signal"), 2, 2, TRUE), Scene(Alone("none"), 0, 0, FALSE)}

MCHalts == {Scene(Alone("putc"), 1, 1, TRUE)}

\* The directions and the endpoints that no task uses stay at rest.
Used == {IF t \in Writers THEN "in" ELSE IF t \in Readers THEN "out" ELSE "comm" :
           t \in {u \in Task : Job(u) # "none"}}

Focus ==
  /\ frame' # frame => "in" \in Used
  /\ sent' # sent \/ bank'["out"] # bank["out"] => "out" \in Used
  /\ \A e \in EPs \ Used : ~ep'[e].stalled /\ ~ep'[e].wanted

-----------------------------------------------------------------------------
\* Requests for data that fill their packets or not, and are as long as the host
\* allows or shorter; requests with data and without; and unknown ones.
Request(kind, in, length, payload) ==
  [kind |-> kind, in |-> in, length |-> length, payload |-> payload,
   value |-> IF kind = "address" THEN 1 ELSE 0]

MCRequests ==
  {Request("get", TRUE, l, p) : <<l, p>> \in {<<3, 1>>, <<3, 2>>, <<2, 2>>, <<3, 3>>}}
  \cup {Request(k, FALSE, 0, 0) : k \in {"address", "configure"}}
  \cup {Request("line", FALSE, 3, 0), Request("unknown", FALSE, 1, 0),
        Request("unknown", TRUE, 1, 0)}

ASSUME ControlAssumption

AllInit ==
  /\ part \in {"port", "control"} /\ Init /\ ControlInit
  /\ part = "control" <=> scene.calls = 0

Port(A)    == part = "port" /\ A /\ UNCHANGED <<part, controlVars>>
Control(A) == part = "control" /\ A /\ UNCHANGED <<part, vars>>

AllSpec ==
  /\ AllInit /\ [][Port(Next) \/ Control(ControlNext)]_allVars
  /\ (part = "port" /\ Fairness) \/ (part = "control" /\ ControlFairness)
=============================================================================
