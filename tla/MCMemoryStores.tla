--------------------------- MODULE MCMemoryStores ---------------------------
(* TLC instances of MemoryStores: two agents of two users, each of which has *)
(* an item from before.                                                    *)
EXTENDS MemoryStores

MCUserOf == [a \in Agents |-> IF a = "a1" THEN "u" ELSE "v"]

EarlyItem(n, user, c) == [id |-> [by |-> "early", n |-> n], user |-> user, content |-> c]

MCEarly == {EarlyItem(1, "u", "c1"), EarlyItem(2, "v", "c1")}
=============================================================================
