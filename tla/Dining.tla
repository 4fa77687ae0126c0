------------------------------- MODULE Dining -------------------------------
(***************************************************************************)
(* What every strategy of ex3/taskF/main.c promises: a philosopher eats    *)
(* only while neither neighbour eats, and one who has left the table (the  *)
(* thread has returned) never eats again.  Which philosophers get to eat,  *)
(* and when, is left open.                                                 *)
(***************************************************************************)
EXTENDS DiningTable

VARIABLES eating,   (* the philosophers between "%d eating" and the first unlock *)
          gone      (* the philosophers whose thread has returned                *)

vars == <<eating, gone>>

Neighbours(p, q) == p = Right(q) \/ q = Right(p)

Init == eating = {} /\ gone = {}

StartEating(p) ==
  /\ p \notin eating \cup gone
  /\ \A q \in eating : ~Neighbours(p, q)
  /\ eating' = eating \cup {p}
  /\ UNCHANGED gone

StopEating(p) ==
  /\ p \in eating
  /\ eating' = eating \ {p}
  /\ UNCHANGED gone

Leave(p) ==
  /\ p \notin eating \cup gone
  /\ gone' = gone \cup {p}
  /\ UNCHANGED eating

Next == \E p \in Phil : StartEating(p) \/ StopEating(p) \/ Leave(p)

Spec == Init /\ [][Next]_vars

=============================================================================
