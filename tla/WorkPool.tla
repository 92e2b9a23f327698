------------------------------ MODULE WorkPool ------------------------------
(***************************************************************************)
(* What the channel of piece requests promises the workers that share it:  *)
(* every item of work waits in the pool, or is in the hands of exactly one *)
(* worker, or has been taken on for good; none is lost or doubled.         *)
(***************************************************************************)
EXTENDS Integers

CONSTANTS Workers, Items

VARIABLES
    pending,   \* the items nobody has
    assigned,  \* the items, at most one, in the hands of each worker
    taken      \* the items some worker has taken on

vars == <<pending, assigned, taken>>

Init ==
    /\ pending = Items
    /\ assigned = [w \in Workers |-> {}]
    /\ taken = {}

Assign(w, i) ==
    /\ assigned[w] = {}
    /\ i \in pending
    /\ pending' = pending \ {i}
    /\ assigned' = [assigned EXCEPT ![w] = {i}]
    /\ UNCHANGED taken

Return(w, i) ==
    /\ assigned[w] = {i}
    /\ pending' = pending \cup {i}
    /\ assigned' = [assigned EXCEPT ![w] = {}]
    /\ UNCHANGED taken

TakeOn(w, i) ==
    /\ assigned[w] = {i}
    /\ taken' = taken \cup {i}
    /\ assigned' = [assigned EXCEPT ![w] = {}]
    /\ UNCHANGED pending

Next == \E w \in Workers, i \in Items : Assign(w, i) \/ Return(w, i) \/ TakeOn(w, i)

Spec == Init /\ [][Next]_vars
=============================================================================
