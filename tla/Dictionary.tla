----------------------------- MODULE Dictionary -----------------------------
(***************************************************************************)
(* What the hash table of libs/headers/univ_hashmap.h promises its users:  *)
(* one value for each key inserted and not deleted since, the last one     *)
(* inserted, and NULL for every other key.                                 *)
(***************************************************************************)
CONSTANTS Key, Value, NULL

VARIABLES
  call,   \* what was asked for last: the operation, its key and its value
  dict,   \* a function from the keys that are bound to their values
  answer  \* what the last retrieve returned

vars == <<call, dict, answer>>

Init == call = <<"create">> /\ dict = [k \in {} |-> NULL] /\ answer = NULL

Insert(k, v) == /\ call' = <<"insert", k, v>>
                /\ dict' = [j \in DOMAIN dict \cup {k} |-> IF j = k THEN v ELSE dict[j]]
                /\ UNCHANGED answer
Delete(k) == /\ call' = <<"delete", k>>
             /\ dict' = [j \in DOMAIN dict \ {k} |-> dict[j]]
             /\ UNCHANGED answer
Retrieve(k) == /\ call' = <<"retrieve", k>>
               /\ answer' = IF k \in DOMAIN dict THEN dict[k] ELSE NULL
               /\ UNCHANGED dict
Destroy == call' = <<"destroy">> /\ dict' = [k \in {} |-> NULL] /\ UNCHANGED answer

Next == \/ \E k \in Key : \E v \in Value : Insert(k, v)
        \/ \E k \in Key : Delete(k) \/ Retrieve(k)
        \/ Destroy

Spec == Init /\ [][Next]_vars
=============================================================================
