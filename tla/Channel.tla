------------------------------- MODULE Channel -------------------------------
(***************************************************************************)
(* A bounded channel: items go in at the back, or at the front, when there *)
(* is room, and come out at the front, each to one user, who is told what  *)
(* the item was.  A user may look at the first item without taking it, and *)
(* may be told that there is no room, or no item.                          *)
(***************************************************************************)
EXTENDS Integers, Sequences

CONSTANTS User, Item, Nothing

VARIABLES size,        (* how many items there is room for                 *)
          contents,    (* the items, the first to come out first           *)
          answer       (* what a user is told at the moment, or Nothing    *)

vars == <<size, contents, answer>>

Init == size \in Nat /\ contents \in Seq(Item) /\ answer = Nothing

Tells(u, x) == answer' = [to |-> u, says |-> x]

Put(u, x) ==
  /\ Len(contents) < size
  /\ contents' \in {Append(contents, x), <<x>> \o contents}
  /\ Tells(u, "sent") /\ UNCHANGED size

Take(u) ==
  /\ contents # <<>>
  /\ Tells(u, Head(contents)) /\ contents' = Tail(contents)
  /\ UNCHANGED size

Look(u) == contents # <<>> /\ Tells(u, Head(contents)) /\ UNCHANGED <<size, contents>>

Refuse(u) == (Tells(u, "full") \/ Tells(u, "empty")) /\ UNCHANGED <<size, contents>>

Silence == answer' = Nothing /\ UNCHANGED <<size, contents>>

Next ==
  \/ Silence
  \/ \E u \in User : Take(u) \/ Look(u) \/ Refuse(u) \/ \E x \in Item : Put(u, x)

Spec == Init /\ [][Next]_vars
=============================================================================
