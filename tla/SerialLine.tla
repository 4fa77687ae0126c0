------------------------------ MODULE SerialLine ------------------------------
(***************************************************************************)
(* What a serial line promises: the bytes put at one end come out at the   *)
(* other in the order in which they were put, each once, until the line is *)
(* cut.  Three flaws are allowed for.  A new line may begin with bytes of  *)
(* an older one.  After an empty packet the reader may be given a byte     *)
(* that nobody sent, and lose one for it.  A reader that was reading when  *)
(* the line was cut may be given anything.                                 *)
(***************************************************************************)
EXTENDS Integers, SequencesExt

CONSTANTS Byte, MostLeftOver

VARIABLES toHost,      (* the bytes on their way to the host               *)
          toDevice,    (* the bytes on their way to the device's reader    *)
          received,    (* the bytes that came to the host last             *)
          delivered,   (* the byte that was given to the reader last       *)
          used,        (* the host has sent something                      *)
          trust        (* "firm", or "weak": the reader may be given a byte *)
                       (* that nobody sent, or "none"                      *)

vars == <<toHost, toDevice, received, delivered, used, trust>>

toHostVars   == <<toHost, received>>
toDeviceVars == <<toDevice, delivered, used, trust>>

Init ==
  /\ toHost = <<>> /\ toDevice = <<>>
  /\ received = <<>> /\ delivered \in Byte
  /\ used = FALSE /\ trust = "firm"

\* Bytes are added at the end of either direction.
Put ==
  /\ toHost' \in Seq(Byte) /\ IsStrictPrefix(toHost, toHost')
  /\ UNCHANGED received /\ UNCHANGED toDeviceVars

Send ==
  /\ toDevice' \in Seq(Byte) /\ IsPrefix(toDevice, toDevice')
  /\ used' = (used \/ toDevice' # toDevice)
  /\ trust' = IF toDevice' = toDevice /\ trust = "firm" THEN "weak" ELSE trust
  /\ UNCHANGED toHostVars /\ UNCHANGED delivered

Come(n) ==
  /\ received' = SubSeq(toHost, 1, n)
  /\ toHost'   = SubSeq(toHost, n + 1, Len(toHost))
  /\ UNCHANGED toDeviceVars

Get ==
  /\ toDevice # <<>>
  /\ delivered' = Head(toDevice) /\ toDevice' = Tail(toDevice)
  /\ UNCHANGED toHostVars /\ UNCHANGED <<used, trust>>

\* A reader takes bytes away and does not say what they were.
Skip(n) ==
  /\ toDevice' = SubSeq(toDevice, n + 1, Len(toDevice))
  /\ UNCHANGED toHostVars /\ UNCHANGED <<delivered, used, trust>>

Phantom ==
  /\ trust = "weak"
  /\ delivered' \in Byte
  /\ toDevice' = toDevice \/ (toDevice # <<>> /\ toDevice' = Tail(toDevice))
  /\ UNCHANGED toHostVars /\ UNCHANGED <<used, trust>>

Anything ==
  /\ trust = "none"
  /\ delivered' \in Byte /\ toDevice' \in Seq(Byte)
  /\ UNCHANGED toHostVars /\ UNCHANGED <<used, trust>>

\* What is left over may be of the old line.  A reset ends the line, and leaves the
\* trust in it as it is; a configuration begins a new one.
Cut ==
  /\ toHost' = <<>>
  /\ toDevice' \in Seq(Byte) /\ Len(toDevice') <= MostLeftOver
  /\ toDevice' # <<>> => used
  /\ trust' \in {"firm", "none", trust}
  /\ UNCHANGED <<received, delivered, used>>

Next ==
  \/ Put \/ \E n \in 0 .. Len(toHost) : Come(n)
  \/ Send \/ Get \/ \E n \in 1 .. Len(toDevice) : Skip(n)
  \/ Phantom \/ Anything \/ Cut

Spec == Init /\ [][Next]_vars
=============================================================================
