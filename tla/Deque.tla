-------------------------------- MODULE Deque --------------------------------
(***************************************************************************)
(* What the Array of ex2 is to its user: a sequence that grows at the back *)
(* and shrinks at either end.                                              *)
(***************************************************************************)
EXTENDS Sequences, Integers

CONSTANT Values   (* the elements *)

VARIABLE contents

Init == contents = <<>>

InsertBack(v) == contents' = Append(contents, v)

PopFront == contents # <<>> /\ contents' = Tail(contents)

PopBack == contents # <<>> /\ contents' = SubSeq(contents, 1, Len(contents) - 1)

Next == (\E v \in Values : InsertBack(v)) \/ PopFront \/ PopBack

Spec == Init /\ [][Next]_contents

=============================================================================
