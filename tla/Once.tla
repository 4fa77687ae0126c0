-------------------------------- MODULE Once --------------------------------
(***************************************************************************)
(* What getSingleton of ex3/taskD and ex3/taskE promises about identity:   *)
(* one of the callers creates the object, it is never replaced, and every  *)
(* caller gets that object.  It promises nothing about its contents.       *)
(***************************************************************************)
CONSTANTS Users,   (* the threads that call getSingleton *)
          Null     (* no object                          *)

VARIABLES object,  (* the object, named after its creator, or Null *)
          got      (* the object each caller has received, or Null *)

vars == <<object, got>>

Init == object = Null /\ got = [u \in Users |-> Null]

Create(u) ==
  /\ object = Null
  /\ object' = u
  /\ UNCHANGED got

Get(u) ==
  /\ object # Null
  /\ got[u] = Null
  /\ got' = [got EXCEPT ![u] = object]
  /\ UNCHANGED object

Next == \E u \in Users : Create(u) \/ Get(u)

Spec == Init /\ [][Next]_vars

=============================================================================
