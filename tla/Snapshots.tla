----------------------------- MODULE Snapshots -----------------------------
(***************************************************************************)
(* What deep copies of a shared object are for: a reader takes the object  *)
(* as it is, and whatever it does to what it has taken is seen by nobody   *)
(* else.  The object changes only by being replaced.                       *)
(***************************************************************************)
CONSTANTS Readers, None

VARIABLES object, taken

vars == <<object, taken>>

Init == taken = [r \in Readers |-> None]

Publish ==
    /\ object' # object
    /\ taken' = taken

Take(r) ==
    /\ taken[r] = None
    /\ taken' = [taken EXCEPT ![r] = object]
    /\ object' = object

Edit(r) ==
    /\ taken[r] # None
    /\ taken'[r] # None
    /\ \A q \in Readers \ {r} : taken'[q] = taken[q]
    /\ object' = object

Next == Publish \/ \E r \in Readers : Take(r) \/ Edit(r)

Spec == Init /\ [][Next]_vars
=============================================================================
