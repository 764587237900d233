----------------------------- MODULE RelationMap -----------------------------
(***************************************************************************)
(* What a relation cache promises: it is a map from relation ids to the    *)
(* value stored last.                                                      *)
(***************************************************************************)
CONSTANTS Oids, Values, Missing

VARIABLE known

Init == known = [o \in Oids |-> Missing]

Set(o, v) == known' = [known EXCEPT ![o] = v]

Next == \E o \in Oids, v \in Values : Set(o, v)

Spec == Init /\ [][Next]_known

===============================================================================
