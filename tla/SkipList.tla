------------------------------ MODULE SkipList ------------------------------
(***************************************************************************)
(* SkipList of 02-skiplist: a sorted linked list of data nodes under       *)
(* MAXHEIGHT linked lists of index nodes, each a part of the one below.    *)
(* An operation finds its place from the top layer down, and changes the   *)
(* layers one pointer at a time.                                           *)
(*                                                                         *)
(* Layer 0 is the data layer, layer l the list of aHeadIdx[l - 1].  A key  *)
(* is at most once in a layer, so <<k, l>> serves as the address of its    *)
(* node there; that an index node has the key of its root is part of that. *)
(* Clients keep keys and values as long as the list has pointers to them,  *)
(* do not delete the key an iterator is at, nor move one past the end.     *)
(***************************************************************************)
EXTENDS Naturals

CONSTANTS Key, Value, MAXHEIGHT, HEAD, TAIL, Null

ASSUME SkipListAssumption ==
    /\ Key \subseteq Nat
    /\ MAXHEIGHT \in Nat \ {0}
    /\ HEAD \notin Key /\ TAIL \notin Key /\ HEAD # TAIL
    /\ Null \notin Value \cup Key
    /\ Null \notin (Key \cup {HEAD, TAIL}) \X Nat

Layer == 0 .. MAXHEIGHT

Node == (Key \cup {HEAD}) \X Layer

pHead == <<HEAD, 0>>
pTail == <<TAIL, 0>>
pTailIdx == <<TAIL, 1>>

VARIABLES next,        \* per node: the next of its layer; Null: it is not allocated
          down,        \* per index node: its node on the layer below
          pValue,      \* per key: the value of its data node
          pCurrent,    \* where a client's iterator is
          returned     \* what the last operation returned

vars == <<next, down, pValue, pCurrent, returned>>

End(l) == IF l = 0 THEN pTail ELSE pTailIdx

KeyOf(node) == node[1]

Init ==
    /\ next = [n \in Node |-> IF KeyOf(n) = HEAD THEN End(n[2]) ELSE Null]
    /\ down = [n \in Node |->
           IF KeyOf(n) = HEAD /\ n[2] > 0 THEN <<HEAD, n[2] - 1>> ELSE Null]
    /\ pValue = [k \in Key |-> Null]
    /\ pCurrent = Null
    /\ returned = Null

Constructed == next[pHead] # Null

-----------------------------------------------------------------------------
(* The search *)

(* Mutant: <= in place of <. *)
LastUpTo(start, key) ==
    LET last[n \in Node] ==
            IF next[n] \in Node /\ KeyOf(next[n]) <= key THEN last[next[n]] ELSE n
    IN  last[start]

(* One while loop: from start along its layer to the last key below key. *)
LastBefore(start, key) ==
    LET last[n \in Node] ==
            IF next[n] \in Node /\ KeyOf(next[n]) < key THEN last[next[n]] ELSE n
    IN  last[start]

(* getBeforeEqual: update_list, with the data node as its element 0. *)
BeforeEqual(key) ==
    LET at[l \in Layer] ==
            LastBefore(IF l = MAXHEIGHT THEN <<HEAD, MAXHEIGHT>> ELSE down[at[l + 1]], key)
    IN  at

(* The node after n is that of key. *)
IsNext(n, key) == next[n] \in Node /\ KeyOf(next[n]) = key

Present(key) == IsNext(BeforeEqual(key)[0], key)

-----------------------------------------------------------------------------
(* Operations on the map *)

(* Mutant: an index node leads down to the data node. *)
DownToRoot(key, l) == <<key, 0>>

DownOf(key, l) == <<key, l - 1>>

(* InsertToList, with what randLevel returned. *)
InsertToList(key, value, level) ==
    LET at == BeforeEqual(key)
    IN  /\ next' = [n \in Node |->
               IF KeyOf(n) = key /\ n[2] <= level THEN next[at[n[2]]]
               ELSE IF n[2] <= level /\ n = at[n[2]] THEN <<key, n[2]>>
               ELSE next[n]]
        /\ down' = [n \in Node |->
               IF KeyOf(n) = key /\ n[2] \in 1 .. level THEN DownOf(key, n[2]) ELSE down[n]]
        /\ pValue' = [pValue EXCEPT ![key] = value]

Put(key, value) ==
    /\ Constructed
    /\ \/ /\ Present(key)
          /\ returned' = pValue[key]
          /\ pValue' = [pValue EXCEPT ![key] = value]
          /\ UNCHANGED <<next, down>>
       \/ /\ ~ Present(key)
          /\ \E level \in Layer : InsertToList(key, value, level)
          /\ returned' = Null
    /\ UNCHANGED pCurrent

PutIfAbsent(key, value) ==
    /\ Constructed
    /\ \/ /\ Present(key)
          /\ returned' = pValue[key]
          /\ UNCHANGED <<next, down, pValue>>
       \/ /\ ~ Present(key)
          /\ \E level \in Layer : InsertToList(key, value, level)
          /\ returned' = Null
    /\ UNCHANGED pCurrent

(* Get, and operator[]. *)
Get(key) ==
    /\ Constructed
    /\ returned' = IF Present(key) THEN pValue[key] ELSE Null
    /\ UNCHANGED <<next, down, pValue, pCurrent>>

(* The layers whose node the loop of Delete unlinks and deletes. *)
Indexed(at, key) == {l \in 1 .. MAXHEIGHT : \A i \in 1 .. l : IsNext(at[i], key)}

(* Mutant: next is read after the node is deleted. *)
UnlinkedLate(n) == Null

(* The new next of the node before the one deleted. *)
Unlinked(n) == next[next[n]]

Delete(key) ==
    LET at == BeforeEqual(key)
        layers == {0} \cup Indexed(at, key)
    IN  /\ Constructed
        /\ pCurrent # <<key, 0>>
        /\ \/ /\ Present(key)
              /\ next' = [n \in Node |->
                     IF n[2] \in layers /\ n = at[n[2]] THEN Unlinked(n)
                     ELSE IF n[2] \in layers /\ KeyOf(n) = key THEN Null
                     ELSE next[n]]
              /\ down' = [n \in Node |->
                     IF n[2] \in layers /\ KeyOf(n) = key THEN Null ELSE down[n]]
              /\ returned' = pValue[key]
              /\ pValue' = [pValue EXCEPT ![key] = Null]
           \/ /\ ~ Present(key)
              /\ returned' = Null
              /\ UNCHANGED <<next, down, pValue>>
        /\ UNCHANGED pCurrent

-----------------------------------------------------------------------------
(* The iterator *)

CBegin ==
    /\ Constructed
    /\ pCurrent' = next[pHead]
    /\ UNCHANGED <<next, down, pValue, returned>>

(* Mutant: the node found, not the one after it. *)
CFindBefore(min) ==
    /\ Constructed
    /\ pCurrent' = BeforeEqual(min)[0]
    /\ UNCHANGED <<next, down, pValue, returned>>

CFind(min) ==
    /\ Constructed
    /\ pCurrent' = next[BeforeEqual(min)[0]]
    /\ UNCHANGED <<next, down, pValue, returned>>

Increment ==
    /\ Constructed
    /\ pCurrent \notin {Null, pTail}
    /\ pCurrent' = next[pCurrent]
    /\ UNCHANGED <<next, down, pValue, returned>>

-----------------------------------------------------------------------------

(* The nodes of layer l, from its head on. *)
Chain(l) ==
    LET from[n \in Node] ==
            {n} \cup IF next[n] \in Node THEN from[next[n]] ELSE {}
    IN  from[<<HEAD, l>>]

(* ~SkipList deletes what it gets to. *)
Destroy ==
    LET reached == UNION {Chain(l) : l \in Layer}
    IN  /\ Constructed
        /\ next' = [n \in Node |-> IF n \in reached THEN Null ELSE next[n]]
        /\ down' = [n \in Node |-> IF n \in reached THEN Null ELSE down[n]]
        /\ pValue' = [k \in Key |-> IF <<k, 0>> \in reached THEN Null ELSE pValue[k]]
        /\ pCurrent' = Null
        /\ returned' = Null

Next ==
    \/ \E key \in Key, value \in Value : Put(key, value) \/ PutIfAbsent(key, value)
    \/ \E key \in Key : Get(key) \/ Delete(key) \/ CFind(key)
    \/ CBegin \/ Increment
    \/ Destroy

Spec == Init /\ [][Next]_vars

-----------------------------------------------------------------------------

TypeOK ==
    /\ next \in [Node -> Node \cup {pTail, pTailIdx, Null}]
    /\ Constructed => \A l \in Layer : next[<<HEAD, l>>] # Null
    /\ down \in [Node -> Node \cup {Null}]
    /\ pValue \in [Key -> Value \cup {Null}]
    /\ pCurrent \in (Key \X {0}) \cup {pTail, Null}
    /\ returned \in Value \cup {Null}

IndexOf(l) == {KeyOf(n) : n \in Chain(l)}

(* The layers are sorted lists from their head to their tail, each indexes *)
(* a part of the one below, and every index node leads down to the node of *)
(* its own key: so a search that goes down never has to go back, and       *)
(* Delete finds all nodes of its key from the bottom up until the first    *)
(* layer without one (skiplist.h:315-327, 408-413, 452-480).               *)
LayersAgree ==
    Constructed =>
        \A l \in Layer : \A n \in Chain(l) :
            /\ n[2] = l
            /\ \/ next[n] = End(l)
               \/ next[n] \in Node /\ (KeyOf(n) = HEAD \/ KeyOf(n) < KeyOf(next[n]))
            /\ l > 0 => /\ KeyOf(n) \in IndexOf(l - 1)
                        /\ down[n] = <<KeyOf(n), l - 1>>

(* The nodes that are allocated are those the layers lead to: no operation *)
(* loses one, none leads to a deleted one, and the destructor leaves none  *)
(* (skiplist.h:193-218, 314-332).                                          *)
NothingLeaks ==
    {n \in Node : next[n] # Null} =
        IF Constructed THEN UNION {Chain(l) : l \in Layer} ELSE {}

Map == INSTANCE OrderedMap WITH
    map <- pValue,
    cursor <- IF pCurrent = pTail THEN TAIL ELSE IF pCurrent = Null THEN Null ELSE pCurrent[1],
    result <- returned, Past <- TAIL

(* The list is an ordered map: whatever levels are drawn, each operation   *)
(* returns what the map has for the key, and an iterator goes on to the    *)
(* next key that is there now, though keys have come and gone around it    *)
(* (skiplist.h:220-360, iterator.h:52-55).                                 *)
IsOrderedMap == Map!Spec
=============================================================================
