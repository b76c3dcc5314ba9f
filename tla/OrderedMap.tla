----------------------------- MODULE OrderedMap -----------------------------
(***************************************************************************)
(* What a sorted associative container promises: a partial map, and a      *)
(* cursor that visits its keys in increasing order while keys are added    *)
(* and removed around it.                                                  *)
(***************************************************************************)
EXTENDS Naturals

CONSTANTS Key, Value, Null, Past     \* Past: the cursor is past the last key

VARIABLES map,       \* the value of each key, Null: none
          cursor,    \* a key, Past, or Null: there is none
          result     \* what the last call returned

vars == <<map, cursor, result>>

Init ==
    /\ map = [k \in Key |-> Null]
    /\ cursor = Null
    /\ result = Null

Put(k, v) ==
    /\ map' = [map EXCEPT ![k] = v]
    /\ result' = map[k]
    /\ UNCHANGED cursor

PutIfAbsent(k, v) ==
    /\ map' = IF map[k] = Null THEN [map EXCEPT ![k] = v] ELSE map
    /\ result' = map[k]
    /\ UNCHANGED cursor

Get(k) == result' = map[k] /\ UNCHANGED <<map, cursor>>

Delete(k) ==
    /\ map' = [map EXCEPT ![k] = Null]
    /\ result' = map[k]
    /\ cursor # k
    /\ UNCHANGED cursor

(* k is the first of the keys that are there and satisfy From. *)
IsFirst(k, From(_)) ==
    LET present == {j \in Key : map[j] # Null /\ From(j)}
    IN  IF present = {} THEN k = Past ELSE k \in present /\ \A j \in present : k <= j

Begin == IsFirst(cursor', LAMBDA k : TRUE) /\ UNCHANGED <<map, result>>

Find(min) == IsFirst(cursor', LAMBDA k : min <= k) /\ UNCHANGED <<map, result>>

Advance ==
    /\ cursor \in Key
    /\ IsFirst(cursor', LAMBDA k : cursor < k)
    /\ UNCHANGED <<map, result>>

Drop == map' = [k \in Key |-> Null] /\ cursor' = Null /\ result' = Null

Next ==
    \/ \E k \in Key, v \in Value : Put(k, v) \/ PutIfAbsent(k, v)
    \/ \E k \in Key : Get(k) \/ Delete(k) \/ Find(k)
    \/ Begin \/ Advance \/ Drop

Spec == Init /\ [][Next]_vars
=============================================================================
