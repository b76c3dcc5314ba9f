--------------------------- MODULE SkipListProofs ---------------------------
(***************************************************************************)
(* Proofs about the skip list, for any set of keys, any values and any     *)
(* number of layers.                                                       *)
(***************************************************************************)
EXTENDS SkipList, InductionLemmas

(* The nodes in their order along a layer: the head before all keys. *)
Rank(n) == IF KeyOf(n) = HEAD THEN 0 ELSE KeyOf(n) + 1

Alloc == {n \in Node : next[n] # Null}

(***************************************************************************)
(* The inductive invariant.  next of a node is the node of the next larger *)
(* key of the layer, or its end; a layer holds a part of the one below,    *)
(* which down leads to; the data nodes are those with a value; there is a  *)
(* largest key.                                                            *)
(***************************************************************************)
Sorted ==
    \A n \in Alloc :
        /\ next[n] \in Node => /\ next[n] \in Alloc /\ next[n][2] = n[2]
                               /\ Rank(n) < Rank(next[n])
        /\ next[n] \notin Node => next[n] = End(n[2])
        /\ \A m \in Alloc : m[2] = n[2] =>
               \/ Rank(m) <= Rank(n)
               \/ next[n] \in Node /\ Rank(next[n]) <= Rank(m)

Indexing ==
    \A n \in Alloc : n[2] > 0 => down[n] = <<KeyOf(n), n[2] - 1>> /\ down[n] \in Alloc

ValueIsThere == \A k \in Key : (pValue[k] # Null) <=> <<k, 0>> \in Alloc

CursorIsThere == pCurrent \in {Null, pTail} \cup {n \in Alloc : n[2] = 0 /\ KeyOf(n) \in Key}

Inv ==
    /\ TypeOK
    /\ Constructed => /\ \A l \in Layer : <<HEAD, l>> \in Alloc
                      /\ Sorted
                      /\ Indexing
                      /\ ValueIsThere
                      /\ CursorIsThere
                      /\ \E b \in Nat : \A n \in Alloc : Rank(n) <= b
    /\ ~ Constructed => /\ Alloc = {}
                        /\ pCurrent = Null
                        /\ \A k \in Key : pValue[k] = Null

-----------------------------------------------------------------------------
(* Nodes and their order *)

LEMMA NodeFacts ==
    /\ HEAD \notin Key /\ Key \subseteq Nat /\ MAXHEIGHT \in Nat /\ MAXHEIGHT > 0
    /\ Null \notin Node /\ pTail \notin Node /\ pTailIdx \notin Node
    /\ Null # pTail /\ Null # pTailIdx
    /\ Null \notin Key /\ TAIL \notin Key /\ Null \notin Value
    /\ \A l \in Layer : l \in Nat /\ l <= MAXHEIGHT
    /\ 0 \in Layer /\ MAXHEIGHT \in Layer
<1>1. HEAD \notin Key /\ Key \subseteq Nat /\ MAXHEIGHT \in Nat /\ MAXHEIGHT > 0
      /\ Null \notin Key /\ TAIL \notin Key /\ Null \notin Value /\ HEAD # TAIL
  BY SkipListAssumption
<1>2. \A l \in Layer : l \in Nat /\ l <= MAXHEIGHT
  BY <1>1 DEF Layer
<1>3. 0 \in Layer /\ MAXHEIGHT \in Layer
  BY <1>1 DEF Layer
<1>4. Null \notin Node
  <2>1. Node \subseteq (Key \cup {HEAD, TAIL}) \X Nat
    BY <1>2 DEF Node
  <2> QED
    BY <2>1, SkipListAssumption
<1>5. pTail \notin Node /\ pTailIdx \notin Node
  BY <1>1 DEF Node, pTail, pTailIdx
<1>6. Null # pTail /\ Null # pTailIdx
  BY SkipListAssumption DEF pTail, pTailIdx
<1> QED
  BY <1>1, <1>2, <1>3, <1>4, <1>5, <1>6

LEMMA NodeParts ==
    /\ \A n \in Node : n = <<KeyOf(n), n[2]>> /\ KeyOf(n) \in Key \cup {HEAD} /\ n[2] \in Layer
    /\ \A k \in Key \cup {HEAD}, l \in Layer :
           <<k, l>> \in Node /\ KeyOf(<<k, l>>) = k /\ <<k, l>>[2] = l
  BY DEF Node, KeyOf

LEMMA RankFacts ==
    /\ \A n \in Node : Rank(n) \in Nat
    /\ \A n, m \in Node : n[2] = m[2] /\ Rank(n) = Rank(m) => n = m
    /\ \A k \in Key, l \in Layer : Rank(<<k, l>>) = k + 1
    /\ \A l \in Layer : Rank(<<HEAD, l>>) = 0
<1>1. \A n \in Node : \/ Rank(n) = 0 /\ KeyOf(n) = HEAD
                      \/ KeyOf(n) \in Key /\ KeyOf(n) \in Nat /\ Rank(n) = KeyOf(n) + 1
  BY NodeFacts, NodeParts DEF Rank
<1>2. ASSUME NEW n \in Node, NEW m \in Node, n[2] = m[2], Rank(n) = Rank(m) PROVE n = m
  <2>1. KeyOf(n) = KeyOf(m)
    BY <1>1, <1>2
  <2> QED
    BY <2>1, <1>2, NodeParts
<1>3. \A k \in Key, l \in Layer : Rank(<<k, l>>) = k + 1
  BY NodeFacts, NodeParts DEF Rank
<1>4. \A l \in Layer : Rank(<<HEAD, l>>) = 0
  BY NodeParts DEF Rank
<1> QED
  BY <1>1, <1>2, <1>3, <1>4

-----------------------------------------------------------------------------
(* The search *)

(* n is the last node of layer l below key. *)
IsBefore(n, l, key) ==
    /\ n \in Alloc /\ n[2] = l /\ Rank(n) <= key
    /\ \A m \in Alloc : m[2] = l => Rank(m) <= Rank(n) \/ key < Rank(m)

LEMMA BeforeIsUnique ==
    ASSUME NEW key \in Key, NEW l \in Layer, NEW n, NEW m,
           IsBefore(n, l, key), IsBefore(m, l, key)
    PROVE  n = m
<1>1. n \in Node /\ m \in Node /\ n[2] = m[2]
  BY DEF IsBefore, Alloc
<1>2. Rank(n) \in Nat /\ Rank(m) \in Nat /\ key \in Nat
  BY <1>1, RankFacts, NodeFacts
<1>3. Rank(n) <= Rank(m) /\ Rank(m) <= Rank(n)
  BY <1>2 DEF IsBefore
<1> QED
  BY <1>1, <1>2, <1>3, RankFacts

LEMMA BeforeExists ==
    ASSUME Inv, Constructed, NEW key \in Key, NEW l \in Layer
    PROVE  \E n : IsBefore(n, l, key)
<1> DEFINE S == {Rank(n) : n \in {m \in Alloc : m[2] = l /\ Rank(m) <= key}}
<1>1. key \in Nat /\ key \in Int
  BY NodeFacts
<1>2. S \subseteq Int
  BY RankFacts DEF Alloc
<1>3. S # {}
  <2>1. <<HEAD, l>> \in Alloc /\ <<HEAD, l>>[2] = l /\ Rank(<<HEAD, l>>) = 0 /\ 0 <= key
    BY <1>1, RankFacts DEF Inv
  <2> QED
    BY <2>1
<1>4. \A r \in S : r <= key
  OBVIOUS
<1>5. PICK r \in S : \A q \in S : q <= r
  <2> HIDE DEF S
  <2> QED
    BY <1>1, <1>2, <1>3, <1>4, GreatestNumber
<1>6. PICK n \in Alloc : n[2] = l /\ Rank(n) <= key /\ r = Rank(n)
  BY <1>5
<1>7. \A m \in Alloc : m[2] = l => Rank(m) <= Rank(n) \/ key < Rank(m)
  <2> SUFFICES ASSUME NEW m \in Alloc, m[2] = l, ~ (key < Rank(m)) PROVE Rank(m) <= Rank(n)
    OBVIOUS
  <2>1. Rank(m) \in Nat
    BY RankFacts DEF Alloc
  <2>2. Rank(m) <= key
    BY <2>1, <1>1
  <2> QED
    BY <2>2, <1>5, <1>6
<1> QED
  BY <1>6, <1>7 DEF IsBefore

(* A step along a layer, and the end of the loop. *)
LEMMA SearchStep ==
    ASSUME Inv, Constructed, NEW key \in Key, NEW n \in Alloc, Rank(n) <= key
    PROVE  IF next[n] \in Node /\ KeyOf(next[n]) < key
           THEN /\ next[n] \in Alloc /\ next[n][2] = n[2] /\ Rank(next[n]) <= key
                /\ Rank(n) < Rank(next[n])
           ELSE IsBefore(n, n[2], key)
<1>1. n \in Node /\ n[2] \in Layer /\ Rank(n) \in Nat /\ key \in Nat
  BY NodeParts, RankFacts, NodeFacts DEF Alloc
<1>2. Sorted
  BY DEF Inv
<1>3. ASSUME next[n] \in Node
      PROVE  /\ next[n] \in Alloc /\ next[n][2] = n[2] /\ Rank(n) < Rank(next[n])
             /\ KeyOf(next[n]) \in Nat /\ Rank(next[n]) = KeyOf(next[n]) + 1
  <2>1. next[n] \in Alloc /\ next[n][2] = n[2] /\ Rank(n) < Rank(next[n])
    BY <1>2, <1>3 DEF Sorted
  <2>2. KeyOf(next[n]) # HEAD
    BY <2>1, <1>1 DEF Rank
  <2>3. KeyOf(next[n]) \in Nat
    BY <1>3, <2>2, NodeParts, NodeFacts
  <2> QED
    BY <2>1, <2>2, <2>3 DEF Rank
<1>4. CASE next[n] \in Node /\ KeyOf(next[n]) < key
  BY <1>1, <1>3, <1>4
<1>5. CASE ~ (next[n] \in Node /\ KeyOf(next[n]) < key)
  <2>1. ASSUME NEW m \in Alloc, m[2] = n[2], ~ (Rank(m) <= Rank(n)) PROVE key < Rank(m)
    <3>1. Rank(m) \in Nat
      BY RankFacts DEF Alloc
    <3>2. next[n] \in Node /\ Rank(next[n]) <= Rank(m)
      BY <1>2, <2>1 DEF Sorted
    <3>3. ~ (KeyOf(next[n]) < key)
      BY <1>5, <3>2
    <3> QED
      BY <3>1, <3>2, <3>3, <1>1, <1>3
  <2> QED
    BY <1>5, <2>1 DEF IsBefore
<1> QED
  BY <1>4, <1>5

(* One loop of the search ends at the last node below the key. *)
LEMMA LastBeforeIs ==
    ASSUME Inv, Constructed, NEW key \in Key, NEW start \in Alloc, Rank(start) <= key
    PROVE  IsBefore(LastBefore(start, key), start[2], key)
<1> DEFINE Goes(n) == next[n] \in Node /\ KeyOf(next[n]) < key
           IsLast(f) == f = [n \in Node |-> IF Goes(n) THEN f[next[n]] ELSE n]
           last == CHOOSE f : IsLast(f)
           below == {n \in Alloc : Rank(n) <= key}
           Found(n) == CHOOSE b : IsBefore(b, n[2], key)
<1>1. key \in Nat /\ key \in Int
  BY NodeFacts
<1>2. \A n \in below : /\ n \in Node /\ n[2] \in Layer /\ Rank(n) \in Nat
                       /\ IF Goes(n) THEN /\ next[n] \in below /\ next[n][2] = n[2]
                                          /\ Rank(n) < Rank(next[n])
                          ELSE IsBefore(n, n[2], key)
  BY SearchStep, NodeParts, RankFacts DEF Alloc
<1>3. \A n \in Node : Goes(n) => n \in Alloc
  BY NodeFacts DEF Alloc
<1>4. \A n \in below : IsBefore(Found(n), n[2], key)
  BY <1>2, BeforeExists
<1>5. \E f : IsLast(f)
  <2> DEFINE g == [n \in Node |-> IF n \in below THEN Found(n) ELSE n]
  <2>1. ASSUME NEW n \in Node PROVE g[n] = IF Goes(n) THEN g[next[n]] ELSE n
    <3>1. CASE n \in below /\ Goes(n)
      <4>1. next[n] \in below /\ next[n][2] = n[2] /\ next[n] \in Node
        BY <1>2, <3>1
      <4> QED
        BY <3>1, <4>1
    <3>2. CASE n \in below /\ ~ Goes(n)
      <4>1. n[2] \in Layer /\ IsBefore(n, n[2], key) /\ IsBefore(Found(n), n[2], key)
        BY <1>2, <1>4, <3>2
      <4>2. Found(n) = n
        <5> HIDE DEF Found
        <5> QED
          BY <4>1, BeforeIsUnique
      <4> QED
        BY <3>2, <4>2
    <3>3. CASE n \notin below
      <4>1. ~ Goes(n)
        <5>1. ASSUME Goes(n) PROVE FALSE
          <6>1. n \in Alloc /\ ~ (Rank(n) <= key) /\ Rank(n) \in Nat
            BY <1>3, <3>3, <5>1, RankFacts
          <6>2. next[n] \in Node /\ Rank(n) < Rank(next[n]) /\ KeyOf(next[n]) < key
            BY <5>1, <6>1 DEF Inv, Sorted
          <6>3. Rank(next[n]) \in Nat /\ Rank(next[n]) <= key
            <7>1. Rank(next[n]) = 0 \/ (KeyOf(next[n]) \in Nat /\ Rank(next[n]) = KeyOf(next[n]) + 1)
              BY <6>2, NodeParts, NodeFacts DEF Rank
            <7> QED
              BY <7>1, <6>2, <1>1
          <6> QED
            BY <6>1, <6>2, <6>3, <1>1
        <5> QED
          BY <5>1
      <4> QED
        BY <3>3, <4>1
    <3> QED
      BY <3>1, <3>2, <3>3
  <2>2. IsLast(g)
    <3> HIDE DEF below, Found, Goes
    <3>1. g = [n \in Node |-> g[n]]
      OBVIOUS
    <3>2. [n \in Node |-> g[n]] = [n \in Node |-> IF Goes(n) THEN g[next[n]] ELSE n]
      BY <2>1
    <3> QED
      BY <3>1, <3>2
  <2> QED
    BY <2>2
<1>6. IsLast(last)
  BY <1>5
<1>7. \A n \in Node : last[n] = IF Goes(n) THEN last[next[n]] ELSE n
  <2> HIDE DEF Goes, last
  <2> QED
    BY <1>6
<1>8. \A n \in below : IsBefore(last[n], n[2], key)
  <2> DEFINE bad == {n \in below : ~ IsBefore(last[n], n[2], key)}
             ranks == {Rank(n) : n \in bad}
  <2> HIDE DEF last, below, Goes
  <2> SUFFICES ASSUME bad # {} PROVE FALSE
    OBVIOUS
  <2>1. ranks \subseteq Int /\ ranks # {} /\ \A r \in ranks : r <= key
    BY <1>2 DEF below
  <2>2. PICK n \in bad : \A m \in bad : Rank(m) <= Rank(n)
    <3>1. PICK r \in ranks : \A q \in ranks : q <= r
      <4> HIDE DEF ranks
      <4> QED
        BY <2>1, <1>1, GreatestNumber
    <3> QED
      BY <3>1
  <2>3. n \in below /\ n \in Node /\ last[n] = IF Goes(n) THEN last[next[n]] ELSE n
    BY <1>2, <1>7
  <2>4. CASE Goes(n)
    <3>1. next[n] \in below /\ next[n][2] = n[2] /\ Rank(n) < Rank(next[n])
      BY <1>2, <2>3, <2>4
    <3>2. next[n] \notin bad
      BY <1>2, <2>2, <2>3, <3>1
    <3> QED
      BY <2>3, <2>4, <3>1, <3>2
  <2>5. CASE ~ Goes(n)
    BY <1>2, <2>3, <2>5
  <2> QED
    BY <2>4, <2>5
<1>9. LastBefore(start, key) = last[start]
  BY DEF LastBefore
<1> QED
  BY <1>8, <1>9

(* The node that down leads to from the last node below the key is a place *)
(* to start on the layer below.                                            *)
LEMMA GoDown ==
    ASSUME Inv, Constructed, NEW key \in Key, NEW l \in Layer, l > 0, NEW n, IsBefore(n, l, key)
    PROVE  down[n] \in Alloc /\ down[n][2] = l - 1 /\ Rank(down[n]) <= key
<1>1. n \in Alloc /\ n \in Node /\ n[2] = l /\ Rank(n) <= key
  BY DEF IsBefore, Alloc
<1>2. down[n] = <<KeyOf(n), l - 1>> /\ down[n] \in Alloc
  BY <1>1 DEF Inv, Indexing
<1>3. KeyOf(down[n]) = KeyOf(n)
  BY <1>2 DEF KeyOf
<1> QED
  BY <1>1, <1>2, <1>3 DEF Rank

LEMMA LayerAbove ==
    /\ \A l \in Layer : l # MAXHEIGHT => l + 1 \in Layer /\ l + 1 > 0 /\ (l + 1) - 1 = l
    /\ \A l \in Layer : l > 0 => l - 1 \in Layer
<1>1. MAXHEIGHT \in Nat
  BY NodeFacts
<1> QED
  BY <1>1 DEF Layer

(* The whole search finds the last node below the key on every layer.      *)
LEMMA BeforeEqualIs ==
    ASSUME Inv, Constructed, NEW key \in Key
    PROVE  \A l \in Layer : IsBefore(BeforeEqual(key)[l], l, key)
<1> DEFINE Start(f, l) == IF l = MAXHEIGHT THEN <<HEAD, MAXHEIGHT>> ELSE down[f[l + 1]]
           IsAt(f) == f = [l \in Layer |-> LastBefore(Start(f, l), key)]
           at == CHOOSE f : IsAt(f)
<1>1. key \in Nat /\ MAXHEIGHT \in Int
  BY NodeFacts
<1>2. ASSUME NEW f, NEW l \in Layer, l # MAXHEIGHT => IsBefore(f[l + 1], l + 1, key)
      PROVE  IsBefore(LastBefore(Start(f, l), key), l, key)
  <2>1. CASE l = MAXHEIGHT
    <3>1. <<HEAD, l>> \in Alloc /\ <<HEAD, l>>[2] = l /\ Rank(<<HEAD, l>>) <= key
      BY <1>1, RankFacts DEF Inv
    <3> QED
      BY <2>1, <3>1, LastBeforeIs
  <2>2. CASE l # MAXHEIGHT
    <3>1. l + 1 \in Layer /\ l + 1 > 0 /\ (l + 1) - 1 = l
      BY <2>2, LayerAbove
    <3>2. down[f[l + 1]] \in Alloc /\ down[f[l + 1]][2] = l /\ Rank(down[f[l + 1]]) <= key
      BY <1>2, <2>2, <3>1, GoDown
    <3> QED
      BY <2>2, <3>2, LastBeforeIs
  <2> QED
    BY <2>1, <2>2
<1>3. \E f : IsAt(f)
  <2> DEFINE g == [l \in Layer |-> CHOOSE b : IsBefore(b, l, key)]
  <2>1. \A l \in Layer : IsBefore(g[l], l, key)
    BY BeforeExists
  <2>2. ASSUME NEW l \in Layer PROVE g[l] = LastBefore(Start(g, l), key)
    <3>1. l # MAXHEIGHT => IsBefore(g[l + 1], l + 1, key)
      BY <2>1, LayerAbove
    <3> HIDE DEF g, Start
    <3>2. IsBefore(LastBefore(Start(g, l), key), l, key)
      BY <1>2, <3>1
    <3> QED
      BY <2>1, <3>2, BeforeIsUnique
  <2>3. IsAt(g)
    <3>1. g = [l \in Layer |-> g[l]]
      OBVIOUS
    <3> HIDE DEF g, Start
    <3>2. [l \in Layer |-> g[l]] = [l \in Layer |-> LastBefore(Start(g, l), key)]
      BY <2>2
    <3> QED
      BY <3>1, <3>2
  <2> QED
    BY <2>3
<1>4. IsAt(at)
  BY <1>3
<1>5. \A l \in Layer : at[l] = LastBefore(Start(at, l), key)
  <2> HIDE DEF Start, at
  <2> QED
    BY <1>4
<1>6. \A l \in Layer : IsBefore(at[l], l, key)
  <2> DEFINE bad == {l \in Layer : ~ IsBefore(at[l], l, key)}
  <2> HIDE DEF at, Start
  <2> SUFFICES ASSUME bad # {} PROVE FALSE
    OBVIOUS
  <2>1. bad \subseteq Int /\ \A l \in bad : l <= MAXHEIGHT
    <3>1. \A l \in Layer : l \in Int /\ l <= MAXHEIGHT
      BY NodeFacts
    <3> QED
      BY <3>1
  <2>2. PICK l \in bad : \A m \in bad : m <= l
    <3> HIDE DEF bad
    <3> QED
      BY <1>1, <2>1, GreatestNumber
  <2>3. l \in Layer /\ l \in Int
    BY <2>1
  <2>4. l # MAXHEIGHT => IsBefore(at[l + 1], l + 1, key)
    <3>1. ASSUME l # MAXHEIGHT PROVE l + 1 \in Layer /\ l + 1 \notin bad
      BY <3>1, <2>2, <2>3, LayerAbove
    <3> QED
      BY <3>1
  <2>5. IsBefore(LastBefore(Start(at, l), key), l, key)
    BY <1>2, <2>3, <2>4
  <2> QED
    BY <1>5, <2>2, <2>3, <2>5
<1>7. BeforeEqual(key) = at
  BY DEF BeforeEqual
<1> QED
  BY <1>6, <1>7

(* The node after the one found is that of the key, if there is one.       *)
LEMMA AfterFound ==
    ASSUME Inv, Constructed, NEW key \in Key, NEW l \in Layer, NEW n, IsBefore(n, l, key)
    PROVE  /\ IsNext(n, key) <=> <<key, l>> \in Alloc
           /\ <<key, l>> \in Alloc => next[n] = <<key, l>>
<1>1. n \in Alloc /\ n \in Node /\ n[2] = l /\ Rank(n) <= key /\ Rank(n) \in Nat /\ key \in Nat
  BY RankFacts, NodeFacts DEF IsBefore, Alloc
<1>2. <<key, l>> \in Node /\ <<key, l>>[2] = l /\ Rank(<<key, l>>) = key + 1
      /\ KeyOf(<<key, l>>) = key
  BY NodeParts, RankFacts
<1>3. ASSUME IsNext(n, key) PROVE <<key, l>> \in Alloc /\ next[n] = <<key, l>>
  <2>1. next[n] \in Alloc /\ next[n] \in Node /\ next[n][2] = l /\ KeyOf(next[n]) = key
    BY <1>1, <1>3 DEF Inv, Sorted, IsNext
  <2> QED
    BY <2>1, NodeParts
<1>4. ASSUME <<key, l>> \in Alloc PROVE IsNext(n, key)
  <2>1. next[n] \in Node /\ Rank(next[n]) <= key + 1
    BY <1>1, <1>2, <1>4 DEF Inv, Sorted
  <2>2. next[n] \in Alloc /\ next[n][2] = l /\ Rank(n) < Rank(next[n]) /\ Rank(next[n]) \in Nat
    BY <1>1, <2>1, RankFacts DEF Inv, Sorted
  <2>3. Rank(next[n]) = key + 1
    BY <1>1, <2>1, <2>2 DEF IsBefore
  <2>4. next[n] = <<key, l>>
    BY <1>2, <2>1, <2>2, <2>3, RankFacts
  <2> QED
    BY <1>2, <2>4 DEF IsNext
<1> QED
  BY <1>3, <1>4

(* A layer is a part of each layer below it.                               *)
LEMMA LayersBelow ==
    ASSUME Inv, Constructed, NEW key \in Key, NEW l \in Layer, <<key, l>> \in Alloc
    PROVE  \A i \in 0 .. l : i \in Layer /\ <<key, i>> \in Alloc
<1>1. \A i \in 0 .. l : i \in Layer /\ i \in Int
  BY NodeFacts DEF Layer
<1>2. l \in Int
  BY NodeFacts
<1> DEFINE bad == {i \in 0 .. l : <<key, i>> \notin Alloc}
<1> SUFFICES ASSUME bad # {} PROVE FALSE
  BY <1>1
<1>3. bad \subseteq Int /\ \A i \in bad : i <= l
  BY <1>1, <1>2
<1>4. PICK i \in bad : \A j \in bad : j <= i
  <2> HIDE DEF bad
  <2> QED
    BY <1>2, <1>3, GreatestNumber
<1>5. i \in Int /\ i # l /\ i <= l /\ 0 <= i
  BY <1>3, <1>4
<1>6. i + 1 \in 0 .. l /\ i + 1 \notin bad
  BY <1>2, <1>4, <1>5
<1>7. <<key, i + 1>> \in Alloc /\ <<key, i + 1>>[2] = i + 1 /\ KeyOf(<<key, i + 1>>) = key
  BY <1>1, <1>6, NodeParts
<1>8. <<key, (i + 1) - 1>> \in Alloc
  BY <1>5, <1>7 DEF Inv, Indexing
<1>9. (i + 1) - 1 = i
  BY <1>5
<1> QED
  BY <1>4, <1>8, <1>9

LEMMA PresentIs ==
    ASSUME Inv, Constructed, NEW key \in Key
    PROVE  Present(key) <=> <<key, 0>> \in Alloc
<1>1. 0 \in Layer /\ IsBefore(BeforeEqual(key)[0], 0, key)
  BY NodeFacts, BeforeEqualIs
<1> QED
  BY <1>1, AfterFound DEF Present

LEMMA IndexedIs ==
    ASSUME Inv, Constructed, NEW key \in Key
    PROVE  \A l \in 1 .. MAXHEIGHT : l \in Indexed(BeforeEqual(key), key) <=> <<key, l>> \in Alloc
<1> DEFINE at == BeforeEqual(key)
<1>1. \A l \in Layer : IsNext(at[l], key) <=> <<key, l>> \in Alloc
  BY BeforeEqualIs, AfterFound
<1> SUFFICES ASSUME NEW l \in 1 .. MAXHEIGHT
             PROVE  l \in Indexed(at, key) <=> <<key, l>> \in Alloc
  OBVIOUS
<1>2. l \in Layer /\ l \in 1 .. l /\ \A i \in 1 .. l : i \in Layer /\ i \in 0 .. l
  BY NodeFacts DEF Layer
<1> HIDE DEF at
<1>3. ASSUME l \in Indexed(at, key) PROVE <<key, l>> \in Alloc
  BY <1>1, <1>2, <1>3 DEF Indexed
<1>4. ASSUME <<key, l>> \in Alloc PROVE \A i \in 1 .. l : IsNext(at[i], key)
  BY <1>1, <1>2, <1>4, LayersBelow
<1> QED
  BY <1>3, <1>4 DEF Indexed

-----------------------------------------------------------------------------
(* The destructor's walk *)

(* The nodes from n on. *)
Up(n) == {m \in Alloc : m[2] = n[2] /\ Rank(n) <= Rank(m)}

LEMMA UpStep ==
    ASSUME Inv, Constructed, NEW n \in Alloc
    PROVE  Up(n) = {n} \cup IF next[n] \in Node THEN Up(next[n]) ELSE {}
<1>1. n \in Node /\ Rank(n) \in Nat
  BY RankFacts DEF Alloc
<1>2. n \in Up(n)
  BY <1>1 DEF Up
<1>3. ASSUME NEW m \in Up(n), m # n PROVE next[n] \in Node /\ m \in Up(next[n])
  <2>1. m \in Alloc /\ m \in Node /\ m[2] = n[2] /\ Rank(n) <= Rank(m) /\ Rank(m) \in Nat
    BY RankFacts DEF Up, Alloc
  <2>2. ~ (Rank(m) <= Rank(n))
    BY <1>1, <1>3, <2>1, RankFacts
  <2>3. next[n] \in Node /\ Rank(next[n]) <= Rank(m) /\ next[n][2] = n[2]
    BY <2>1, <2>2 DEF Inv, Sorted
  <2> QED
    BY <2>1, <2>3 DEF Up
<1>4. ASSUME next[n] \in Node, NEW m \in Up(next[n]) PROVE m \in Up(n)
  <2>1. m \in Alloc /\ m[2] = next[n][2] /\ Rank(next[n]) <= Rank(m) /\ Rank(m) \in Nat
    BY RankFacts DEF Up, Alloc
  <2>2. next[n][2] = n[2] /\ Rank(n) < Rank(next[n]) /\ Rank(next[n]) \in Nat
    BY <1>4, RankFacts DEF Inv, Sorted
  <2> QED
    BY <1>1, <2>1, <2>2 DEF Up
<1> QED
  BY <1>2, <1>3, <1>4

LEMMA ChainIs ==
    ASSUME Inv, Constructed, NEW l \in Layer
    PROVE  Chain(l) = {n \in Alloc : n[2] = l}
<1> DEFINE IsFrom(f) == f = [n \in Node |-> {n} \cup IF next[n] \in Node THEN f[next[n]] ELSE {}]
           from == CHOOSE f : IsFrom(f)
<1>1. \E f : IsFrom(f)
  <2> DEFINE g == [n \in Node |-> IF n \in Alloc THEN Up(n) ELSE {n}]
  <2>1. ASSUME NEW n \in Node
        PROVE  g[n] = {n} \cup IF next[n] \in Node THEN g[next[n]] ELSE {}
    <3>1. CASE n \in Alloc
      <4>1. next[n] \in Node => next[n] \in Alloc
        BY <3>1 DEF Inv, Sorted
      <4> QED
        BY <3>1, <4>1, UpStep
    <3>2. CASE n \notin Alloc
      BY <3>2, NodeFacts DEF Alloc
    <3> QED
      BY <3>1, <3>2
  <2>2. IsFrom(g)
    <3>1. g = [n \in Node |-> g[n]]
      OBVIOUS
    <3> HIDE DEF g
    <3>2. [n \in Node |-> g[n]]
              = [n \in Node |-> {n} \cup IF next[n] \in Node THEN g[next[n]] ELSE {}]
      BY <2>1
    <3> QED
      BY <3>1, <3>2
  <2> QED
    BY <2>2
<1>2. IsFrom(from)
  BY <1>1
<1>3. \A n \in Node : from[n] = {n} \cup IF next[n] \in Node THEN from[next[n]] ELSE {}
  <2> HIDE DEF from
  <2> QED
    BY <1>2
<1>4. PICK b \in Nat : \A n \in Alloc : Rank(n) <= b
  BY DEF Inv
<1>5. \A n \in Alloc : from[n] = Up(n)
  <2> DEFINE bad == {n \in Alloc : from[n] # Up(n)}
             ranks == {Rank(n) : n \in bad}
  <2> HIDE DEF from
  <2> SUFFICES ASSUME bad # {} PROVE FALSE
    OBVIOUS
  <2>1. ranks \subseteq Int /\ ranks # {} /\ \A r \in ranks : r <= b
    BY <1>4, RankFacts DEF Alloc
  <2>2. b \in Int
    BY <1>4
  <2>3. PICK n \in bad : \A m \in bad : Rank(m) <= Rank(n)
    <3>1. PICK r \in ranks : \A q \in ranks : q <= r
      <4> HIDE DEF ranks
      <4> QED
        BY <2>1, <2>2, GreatestNumber
    <3> QED
      BY <3>1
  <2>4. n \in Alloc /\ n \in Node /\ Rank(n) \in Nat
    BY RankFacts DEF Alloc
  <2>5. next[n] \in Node => from[next[n]] = Up(next[n])
    <3> SUFFICES ASSUME next[n] \in Node PROVE next[n] \in Alloc /\ next[n] \notin bad
      OBVIOUS
    <3>1. next[n] \in Alloc /\ Rank(n) < Rank(next[n]) /\ Rank(next[n]) \in Nat
      BY <2>4, RankFacts DEF Inv, Sorted
    <3> QED
      BY <2>3, <2>4, <3>1
  <2> QED
    BY <1>3, <2>3, <2>4, <2>5, UpStep
<1>6. Chain(l) = from[<<HEAD, l>>]
  BY DEF Chain
<1>7. /\ <<HEAD, l>> \in Alloc /\ <<HEAD, l>>[2] = l
      /\ \A n \in Alloc : Rank(n) \in Nat /\ Rank(<<HEAD, l>>) <= Rank(n)
  BY RankFacts DEF Inv, Alloc
<1>8. Up(<<HEAD, l>>) = {n \in Alloc : n[2] = l}
  BY <1>7 DEF Up
<1> QED
  BY <1>5, <1>6, <1>7, <1>8

LEMMA ReachedIs ==
    ASSUME Inv, Constructed
    PROVE  UNION {Chain(l) : l \in Layer} = Alloc
<1>1. \A n \in Alloc : n[2] \in Layer
  BY NodeParts DEF Alloc
<1> QED
  BY <1>1, ChainIs

-----------------------------------------------------------------------------
(* What the invariant says *)

LEMMA InvLayers == Inv => LayersAgree
<1> SUFFICES ASSUME Inv, Constructed, NEW l \in Layer, NEW n \in Chain(l)
             PROVE  /\ n[2] = l
                    /\ \/ next[n] = End(l)
                       \/ next[n] \in Node /\ (KeyOf(n) = HEAD \/ KeyOf(n) < KeyOf(next[n]))
                    /\ l > 0 => /\ KeyOf(n) \in IndexOf(l - 1)
                                /\ down[n] = <<KeyOf(n), l - 1>>
  BY DEF LayersAgree
<1>1. n \in Alloc /\ n \in Node /\ n[2] = l
  BY ChainIs DEF Alloc
<1>2. ASSUME next[n] \in Node, KeyOf(n) # HEAD PROVE KeyOf(n) < KeyOf(next[n])
  <2>1. Rank(n) < Rank(next[n])
    BY <1>1, <1>2 DEF Inv, Sorted
  <2>2. KeyOf(n) \in Nat /\ Rank(n) = KeyOf(n) + 1
    BY <1>1, <1>2, NodeParts, NodeFacts DEF Rank
  <2>3. KeyOf(next[n]) # HEAD
    BY <2>1, <2>2 DEF Rank
  <2>4. KeyOf(next[n]) \in Nat /\ Rank(next[n]) = KeyOf(next[n]) + 1
    BY <1>2, <2>3, NodeParts, NodeFacts DEF Rank
  <2> QED
    BY <2>1, <2>2, <2>4
<1>3. next[n] \notin Node => next[n] = End(l)
  BY <1>1 DEF Inv, Sorted
<1>4. ASSUME l > 0 PROVE KeyOf(n) \in IndexOf(l - 1) /\ down[n] = <<KeyOf(n), l - 1>>
  <2>1. down[n] = <<KeyOf(n), l - 1>> /\ down[n] \in Alloc
    BY <1>1, <1>4 DEF Inv, Indexing
  <2>2. l - 1 \in Layer
    BY <1>4, LayerAbove
  <2>3. down[n] \in Chain(l - 1)
    BY <2>1, <2>2, ChainIs
  <2>4. KeyOf(down[n]) = KeyOf(n)
    BY <2>1 DEF KeyOf
  <2> QED
    BY <2>1, <2>3, <2>4 DEF IndexOf
<1> QED
  BY <1>1, <1>2, <1>3, <1>4

LEMMA InvLeaks == Inv => NothingLeaks
  BY ReachedIs DEF NothingLeaks, Inv, Alloc

-----------------------------------------------------------------------------
(* The invariant: the constructor, and an insertion *)

LEMMA InitInv == Init => Inv
<1> SUFFICES ASSUME Init PROVE Inv
  OBVIOUS
<1>1. \A n \in Node : next[n] = IF KeyOf(n) = HEAD THEN End(n[2]) ELSE Null
  BY DEF Init
<1>2. \A l \in Layer : /\ End(l) \in {pTail, pTailIdx} /\ End(l) # Null /\ End(l) \notin Node
                       /\ <<HEAD, l>> \in Node /\ KeyOf(<<HEAD, l>>) = HEAD
                       /\ <<HEAD, l>>[2] = l
  BY NodeFacts, NodeParts DEF End
<1>3. \A n \in Node : n[2] \in Layer /\ n = <<KeyOf(n), n[2]>>
  BY NodeParts
<1>4. Alloc = {<<HEAD, l>> : l \in Layer}
  <2>1. \A n \in Alloc : n \in Node /\ n[2] \in Layer /\ n = <<HEAD, n[2]>>
    BY <1>1, <1>3 DEF Alloc
  <2>2. \A l \in Layer : <<HEAD, l>> \in Alloc
    BY <1>1, <1>2 DEF Alloc
  <2> QED
    BY <2>1, <2>2
<1>5. Constructed
  BY <1>1, <1>2, NodeFacts DEF Constructed, pHead
<1>6. TypeOK
  <2>1. next \in [Node -> Node \cup {pTail, pTailIdx, Null}]
    <3>1. \A n \in Node : next[n] \in {pTail, pTailIdx, Null}
      BY <1>1, <1>2, <1>3
    <3> QED
      BY <3>1 DEF Init
  <2>2. \A l \in Layer : next[<<HEAD, l>>] # Null
    BY <1>1, <1>2
  <2>3. down \in [Node -> Node \cup {Null}]
    <3>1. ASSUME NEW n \in Node, n[2] > 0 PROVE <<HEAD, n[2] - 1>> \in Node
      BY <1>3, <3>1, LayerAbove, NodeParts
    <3> QED
      BY <3>1 DEF Init
  <2> QED
    BY <2>1, <2>2, <2>3 DEF Init, TypeOK
<1>7. \A n \in Alloc : /\ n \in Node /\ n[2] \in Layer /\ KeyOf(n) = HEAD /\ Rank(n) = 0
                       /\ next[n] = End(n[2]) /\ n = <<HEAD, n[2]>>
  BY <1>1, <1>2, <1>4 DEF Rank
<1>8. Sorted
  BY <1>2, <1>7 DEF Sorted
<1>9. Indexing
  <2> SUFFICES ASSUME NEW n \in Alloc, n[2] > 0
               PROVE  down[n] = <<KeyOf(n), n[2] - 1>> /\ down[n] \in Alloc
    BY DEF Indexing
  <2>1. down[n] = <<HEAD, n[2] - 1>>
    BY <1>7 DEF Init
  <2>2. n[2] - 1 \in Layer
    BY <1>7, LayerAbove
  <2> QED
    BY <2>1, <2>2, <1>4, <1>7
<1>10. ValueIsThere
  <2> SUFFICES ASSUME NEW k \in Key PROVE pValue[k] = Null /\ <<k, 0>> \notin Alloc
    BY DEF ValueIsThere
  <2>1. KeyOf(<<k, 0>>) # HEAD
    BY NodeFacts DEF KeyOf
  <2> QED
    BY <2>1, <1>7 DEF Init
<1>11. CursorIsThere
  BY DEF Init, CursorIsThere
<1>12. \E b \in Nat : \A n \in Alloc : Rank(n) <= b
  <2>1. 0 \in Nat /\ \A n \in Alloc : Rank(n) <= 0
    BY <1>7
  <2> QED
    BY <2>1
<1> QED
  BY <1>4, <1>5, <1>6, <1>8, <1>9, <1>10, <1>11, <1>12 DEF Inv

LEMMA InsertInv ==
    ASSUME Inv, Constructed, NEW key \in Key, NEW value \in Value, NEW level \in Layer,
           <<key, 0>> \notin Alloc, InsertToList(key, value, level),
           pCurrent' = pCurrent, returned' = Null
    PROVE  Inv'
<1> DEFINE at == BeforeEqual(key)
           New(n) == KeyOf(n) = key /\ n[2] <= level
<1>1. \A l \in Layer : IsBefore(at[l], l, key)
  BY BeforeEqualIs
<1>2. \A l \in Layer : <<key, l>> \notin Alloc
  BY LayersBelow, NodeFacts DEF Layer
<1>3. \A n \in Node : next'[n] = IF New(n) THEN next[at[n[2]]]
                                 ELSE IF n[2] <= level /\ n = at[n[2]] THEN <<key, n[2]>>
                                 ELSE next[n]
  BY DEF InsertToList
<1>4. \A n \in Node : down'[n] = IF KeyOf(n) = key /\ n[2] \in 1 .. level
                                 THEN DownOf(key, n[2]) ELSE down[n]
  BY DEF InsertToList
<1>5. pValue' = [pValue EXCEPT ![key] = value]
  BY DEF InsertToList
<1> HIDE DEF at
<1>6. /\ key \in Nat /\ key # HEAD /\ level \in Nat /\ 0 <= level
      /\ \A l \in Layer : l \in Nat
      /\ \A l \in Layer : /\ <<key, l>> \in Node /\ KeyOf(<<key, l>>) = key
                          /\ <<key, l>>[2] = l /\ Rank(<<key, l>>) = key + 1
  <2>1. level \in Nat
    BY NodeFacts
  <2> QED
    BY <2>1, NodeFacts, NodeParts, RankFacts
<1>7. \A n \in Node : n[2] \in Layer /\ Rank(n) \in Nat /\ (KeyOf(n) = key => n = <<key, n[2]>>)
  BY NodeParts, RankFacts
<1>8. \A n \in Alloc : n \in Node /\ KeyOf(n) # key /\ ~ New(n)
  BY <1>2, <1>7 DEF Alloc
<1>9. \A n \in Node : next[n] # Null <=> n \in Alloc
  BY DEF Alloc
<1>10. \A l \in Layer : at[l] \in Alloc /\ at[l][2] = l /\ Rank(at[l]) <= key
  BY <1>1 DEF IsBefore
<1>11. \A n \in Node : n \in Alloc' <=> n \in Alloc \/ New(n)
  <2> SUFFICES ASSUME NEW n \in Node PROVE next'[n] # Null <=> n \in Alloc \/ New(n)
    BY DEF Alloc
  <2>1. next[at[n[2]]] # Null
    BY <1>7, <1>10, <1>9, <1>8
  <2>2. <<key, n[2]>> # Null
    BY <1>6, <1>7, NodeFacts
  <2> QED
    BY <2>1, <2>2, <1>3, <1>7, <1>9, <1>10
<1>12. Alloc' \subseteq Node
  BY DEF Alloc
<1>13. \A n \in Alloc' : New(n) \/ (n \in Alloc /\ n \in Node)
  BY <1>11, <1>12
<1>14. Sorted'
  <2> SUFFICES ASSUME NEW n \in Alloc'
               PROVE  /\ next'[n] \in Node => /\ next'[n] \in Alloc' /\ next'[n][2] = n[2]
                                              /\ Rank(n) < Rank(next'[n])
                      /\ next'[n] \notin Node => next'[n] = End(n[2])
                      /\ \A m \in Alloc' : m[2] = n[2] =>
                             \/ Rank(m) <= Rank(n)
                             \/ next'[n] \in Node /\ Rank(next'[n]) <= Rank(m)
    BY DEF Sorted
  <2>1. Sorted
    BY DEF Inv
  <2>2. n \in Node /\ n[2] \in Layer /\ Rank(n) \in Nat
    BY <1>7, <1>12
  <2> DEFINE l == n[2]
             b == at[n[2]]
  <2>3. /\ b \in Alloc /\ b \in Node /\ b[2] = l /\ Rank(b) <= key /\ Rank(b) \in Nat
        /\ \A m \in Alloc : m[2] = l => Rank(m) <= Rank(b) \/ key < Rank(m)
    BY <2>2, <1>1, <1>7, <1>8 DEF IsBefore
  <2>4. /\ <<key, l>> \in Node /\ <<key, l>>[2] = l /\ Rank(<<key, l>>) = key + 1
        /\ <<key, l>> \notin Alloc /\ KeyOf(<<key, l>>) = key
    BY <2>2, <1>2, <1>6
  <2>5. /\ next[b] \in Node => /\ next[b] \in Alloc /\ next[b][2] = l /\ Rank(next[b]) \in Nat
                               /\ Rank(b) < Rank(next[b])
        /\ next[b] \notin Node => next[b] = End(l)
        /\ \A m \in Alloc : m[2] = l => \/ Rank(m) <= Rank(b)
                                        \/ next[b] \in Node /\ Rank(next[b]) <= Rank(m)
    BY <2>1, <2>3, <1>7 DEF Sorted
  <2>6. \A m \in Alloc' : m \in Node /\ Rank(m) \in Nat
                          /\ (New(m) /\ m[2] = l => m = <<key, l>> /\ Rank(m) = key + 1)
    BY <1>7, <1>12, <2>4
  <2> HIDE DEF l, b
  <2>7. CASE New(n)
    <3>1. n = <<key, l>> /\ Rank(n) = key + 1
      BY <2>2, <2>7, <2>4, <1>7 DEF l
    <3>2. next'[n] = next[b]
      BY <2>2, <2>7, <1>3 DEF b
    <3>3. ASSUME next[b] \in Node PROVE Rank(n) < Rank(next[b])
      <4>1. key < Rank(next[b])
        BY <3>3, <2>3, <2>5, <1>6
      <4>2. Rank(next[b]) # key + 1
        BY <3>3, <2>4, <2>5, RankFacts
      <4> QED
        BY <4>1, <4>2, <3>1, <3>3, <2>5, <1>6
    <3>4. next[b] \in Node => next[b] \in Alloc'
      BY <2>5, <1>11
    <3>5. ASSUME NEW m \in Alloc', m[2] = l
          PROVE  Rank(m) <= Rank(n) \/ (next[b] \in Node /\ Rank(next[b]) <= Rank(m))
      <4>1. CASE New(m)
        BY <4>1, <3>1, <3>5, <2>6, <1>6
      <4>2. CASE m \in Alloc
        BY <4>2, <3>1, <3>5, <2>3, <2>5, <2>6, <1>6
      <4> QED
        BY <4>1, <4>2, <1>13
    <3> QED
      BY <3>2, <3>3, <3>4, <3>5, <2>5 DEF l
  <2>8. CASE ~ New(n) /\ n[2] <= level /\ n = b
    <3>1. next'[n] = <<key, l>>
      BY <2>2, <2>8, <1>3 DEF b, l
    <3>2. New(<<key, l>>)
      BY <2>4, <2>8 DEF l
    <3>3. <<key, l>> \in Alloc'
      BY <3>2, <2>4, <1>11
    <3>4. Rank(n) < Rank(<<key, l>>)
      BY <2>3, <2>4, <2>8, <1>6
    <3>5. ASSUME NEW m \in Alloc', m[2] = l
          PROVE  Rank(m) <= Rank(n) \/ Rank(<<key, l>>) <= Rank(m)
      <4>1. CASE New(m)
        BY <4>1, <3>5, <2>4, <2>6, <1>6
      <4>2. CASE m \in Alloc
        BY <4>2, <3>5, <2>3, <2>4, <2>6, <2>8, <1>6
      <4> QED
        BY <4>1, <4>2, <1>13
    <3> QED
      BY <3>1, <3>3, <3>4, <3>5, <2>4 DEF l
  <2>9. CASE ~ New(n) /\ ~ (n[2] <= level /\ n = b)
    <3>1. next'[n] = next[n] /\ n \in Alloc
      BY <2>2, <2>9, <1>3, <1>13 DEF b
    <3>2. /\ next[n] \in Node => /\ next[n] \in Alloc /\ next[n][2] = l
                                 /\ Rank(next[n]) \in Nat /\ Rank(n) < Rank(next[n])
          /\ next[n] \notin Node => next[n] = End(l)
          /\ \A m \in Alloc : m[2] = l => \/ Rank(m) <= Rank(n)
                                          \/ next[n] \in Node /\ Rank(next[n]) <= Rank(m)
      BY <2>1, <3>1, <1>7 DEF Sorted, l
    <3>3. next[n] \in Node => next[n] \in Alloc'
      BY <3>2, <1>11
    <3>4. ASSUME NEW m \in Alloc', m[2] = l
          PROVE  Rank(m) <= Rank(n) \/ (next[n] \in Node /\ Rank(next[n]) <= Rank(m))
      <4>1. CASE New(m)
        <5>1. Rank(m) = key + 1 /\ n # b
          BY <4>1, <3>4, <2>6, <2>9 DEF l
        <5>2. CASE key < Rank(n)
          BY <5>1, <5>2, <2>2, <1>6
        <5>3. CASE ~ (key < Rank(n))
          <6>1. Rank(n) <= Rank(b)
            BY <5>3, <3>1, <2>3 DEF l
          <6>2. Rank(n) # Rank(b)
            BY <5>1, <2>2, <2>3, RankFacts DEF l
          <6>3. next[n] \in Node /\ Rank(next[n]) <= Rank(b)
            BY <6>1, <6>2, <3>2, <2>2, <2>3
          <6> QED
            BY <6>3, <5>1, <3>2, <2>3, <1>6
        <5> QED
          BY <5>2, <5>3
      <4>2. CASE m \in Alloc
        BY <4>2, <3>2, <3>4
      <4> QED
        BY <4>1, <4>2, <1>13
    <3> QED
      BY <3>1, <3>2, <3>3, <3>4 DEF l
  <2> QED
    BY <2>7, <2>8, <2>9
<1>15. Indexing'
  <2> SUFFICES ASSUME NEW n \in Alloc', n[2] > 0
               PROVE  down'[n] = <<KeyOf(n), n[2] - 1>> /\ down'[n] \in Alloc'
    BY DEF Indexing
  <2>1. n \in Node /\ n[2] \in Layer /\ n[2] \in Nat
    BY <1>6, <1>7, <1>12
  <2>2. CASE New(n)
    <3>1. n[2] \in 1 .. level
      BY <2>1, <2>2, <1>6
    <3>2. down'[n] = <<key, n[2] - 1>>
      BY <3>1, <2>1, <2>2, <1>4 DEF DownOf
    <3>3. n[2] - 1 \in Layer /\ n[2] - 1 <= level
      BY <2>1, <3>1, <1>6, LayerAbove
    <3>4. <<key, n[2] - 1>> \in Node /\ New(<<key, n[2] - 1>>)
      BY <3>3, <1>6
    <3> QED
      BY <3>2, <3>4, <2>2, <1>11
  <2>3. CASE n \in Alloc
    <3>1. down'[n] = down[n]
      BY <2>1, <2>3, <1>4, <1>8
    <3>2. down[n] = <<KeyOf(n), n[2] - 1>> /\ down[n] \in Alloc
      BY <2>3 DEF Inv, Indexing
    <3> QED
      BY <3>1, <3>2, <1>8, <1>11
  <2> QED
    BY <2>2, <2>3, <1>13
<1>16. ValueIsThere'
  <2> SUFFICES ASSUME NEW k \in Key PROVE (pValue'[k] # Null) <=> <<k, 0>> \in Alloc'
    BY DEF ValueIsThere
  <2>1. pValue'[k] = IF k = key THEN value ELSE pValue[k]
    BY <1>5 DEF Inv, TypeOK
  <2>2. value # Null
    BY NodeFacts
  <2>3. <<k, 0>> \in Node /\ KeyOf(<<k, 0>>) = k /\ <<k, 0>>[2] = 0
    BY NodeFacts, NodeParts
  <2>4. <<k, 0>> \in Alloc' <=> <<k, 0>> \in Alloc \/ k = key
    BY <2>3, <1>6, <1>11
  <2> QED
    BY <2>1, <2>2, <2>4 DEF Inv, ValueIsThere
<1>17. CursorIsThere'
  BY <1>8, <1>11 DEF Inv, CursorIsThere
<1>18. \E b \in Nat : \A n \in Alloc' : Rank(n) <= b
  <2>1. PICK b \in Nat : \A n \in Alloc : Rank(n) <= b
    BY DEF Inv
  <2>2. b + key + 1 \in Nat
    BY <1>6
  <2>3. ASSUME NEW n \in Alloc' PROVE Rank(n) <= b + key + 1
    <3>1. n \in Node /\ Rank(n) \in Nat /\ n[2] \in Layer
      BY <1>7, <1>12
    <3>2. Rank(n) <= b \/ Rank(n) = key + 1
      BY <3>1, <2>1, <1>6, <1>7, <1>13
    <3> QED
      BY <3>1, <3>2, <1>6
  <2> QED
    BY <2>2, <2>3
<1>19. \A l \in Layer : <<HEAD, l>> \in Alloc'
  BY <1>8, <1>11 DEF Inv
<1>20. \A l \in Layer : next'[<<HEAD, l>>] # Null
  BY <1>19 DEF Alloc
<1>21. Constructed'
  BY <1>20, NodeFacts DEF Constructed, pHead
<1>22. TypeOK'
  <2>1. next' \in [Node -> Node \cup {pTail, pTailIdx, Null}]
    <3>1. ASSUME NEW n \in Node PROVE next'[n] \in Node \cup {pTail, pTailIdx, Null}
      <4>1. \A m \in Node : next[m] \in Node \cup {pTail, pTailIdx, Null}
        BY DEF Inv, TypeOK
      <4>2. n[2] \in Layer /\ at[n[2]] \in Node /\ <<key, n[2]>> \in Node
        BY <1>6, <1>7, <1>8, <1>10
      <4> QED
        BY <4>1, <4>2, <1>3
    <3> QED
      BY <3>1 DEF InsertToList
  <2>2. down' \in [Node -> Node \cup {Null}]
    <3>1. ASSUME NEW n \in Node, n[2] \in 1 .. level PROVE DownOf(key, n[2]) \in Node
      <4>1. n[2] - 1 \in Layer
        BY <3>1, <1>7, LayerAbove
      <4> QED
        BY <4>1, <1>6 DEF DownOf
    <3>2. \A n \in Node : down'[n] \in Node \cup {Null}
      BY <3>1, <1>4 DEF Inv, TypeOK
    <3> QED
      BY <3>2 DEF InsertToList
  <2>3. pValue' \in [Key -> Value \cup {Null}]
    BY <1>5 DEF Inv, TypeOK
  <2> QED
    BY <2>1, <2>2, <2>3, <1>20 DEF Inv, TypeOK
<1> QED
  BY <1>14, <1>15, <1>16, <1>17, <1>18, <1>19, <1>21, <1>22 DEF Inv

-----------------------------------------------------------------------------
(* The invariant: a deletion, and the destructor *)

(* What leads to the node of a key is the last node below the key.         *)
LEMMA LeadsToKey ==
    ASSUME Inv, Constructed, NEW key \in Key, NEW n \in Alloc,
           next[n] = <<key, n[2]>>, <<key, n[2]>> \in Alloc
    PROVE  IsBefore(n, n[2], key)
<1>1. n \in Node /\ n[2] \in Layer /\ Rank(n) \in Nat /\ next[n] \in Node /\ key \in Nat
      /\ Rank(next[n]) = key + 1
  BY NodeParts, RankFacts, NodeFacts DEF Alloc
<1>2. Rank(n) <= key
  <2>1. Rank(n) < Rank(next[n])
    BY <1>1 DEF Inv, Sorted
  <2> QED
    BY <2>1, <1>1
<1>3. ASSUME NEW m \in Alloc, m[2] = n[2] PROVE Rank(m) <= Rank(n) \/ key < Rank(m)
  <2>1. Rank(m) <= Rank(n) \/ key + 1 <= Rank(m)
    BY <1>1, <1>3 DEF Inv, Sorted
  <2>2. Rank(m) \in Nat
    BY RankFacts DEF Alloc
  <2> QED
    BY <2>1, <2>2, <1>1
<1> QED
  BY <1>2, <1>3 DEF IsBefore

(* What Delete does to next and down. *)
LEMMA DeleteSteps ==
    ASSUME Inv, Constructed, NEW key \in Key, <<key, 0>> \in Alloc, Delete(key)
    PROVE  /\ \A n \in Alloc :
                  IF next[n] = <<key, n[2]>> /\ <<key, n[2]>> \in Alloc
                  THEN next'[n] = next[next[n]] /\ KeyOf(n) # key
                  ELSE IF KeyOf(n) = key THEN next'[n] = Null
                  ELSE next'[n] = next[n]
           /\ \A n \in Node : n \notin Alloc => next'[n] = Null
           /\ \A n \in Node : IF KeyOf(n) = key /\ n \in Alloc
                              THEN down'[n] = Null ELSE down'[n] = down[n]
           /\ pValue' = [pValue EXCEPT ![key] = Null]
           /\ returned' = pValue[key]
           /\ pCurrent' = pCurrent /\ pCurrent # <<key, 0>>
<1> DEFINE at == BeforeEqual(key)
           layers == {0} \cup Indexed(at, key)
<1>1. Present(key)
  BY PresentIs
<1>2. \A n \in Node : next'[n] = IF n[2] \in layers /\ n = at[n[2]] THEN Unlinked(n)
                                 ELSE IF n[2] \in layers /\ KeyOf(n) = key THEN Null
                                 ELSE next[n]
  BY <1>1 DEF Delete
<1>3. \A n \in Node : down'[n] = IF n[2] \in layers /\ KeyOf(n) = key THEN Null ELSE down[n]
  BY <1>1 DEF Delete
<1>4. /\ pValue' = [pValue EXCEPT ![key] = Null] /\ returned' = pValue[key]
      /\ pCurrent' = pCurrent /\ pCurrent # <<key, 0>>
  BY <1>1 DEF Delete
<1>5. \A l \in Layer : l \in layers <=> <<key, l>> \in Alloc
  <2> SUFFICES ASSUME NEW l \in Layer PROVE l \in layers <=> <<key, l>> \in Alloc
    OBVIOUS
  <2>1. l = 0 \/ l \in 1 .. MAXHEIGHT
    BY NodeFacts DEF Layer
  <2>2. 0 \notin 1 .. MAXHEIGHT
    BY NodeFacts
  <2>3. Indexed(at, key) \subseteq 1 .. MAXHEIGHT
    BY DEF Indexed
  <2> QED
    BY <2>1, <2>2, <2>3, IndexedIs
<1>6. \A l \in Layer : IsBefore(at[l], l, key)
  BY BeforeEqualIs
<1> HIDE DEF at, layers
<1>7. \A n \in Node : n[2] \in Layer /\ n = <<KeyOf(n), n[2]>>
  BY NodeParts
<1>8. \A n \in Alloc : n \in Node
  BY DEF Alloc
<1>9. ASSUME NEW n \in Alloc
      PROVE  (n[2] \in layers /\ n = at[n[2]]) <=> (next[n] = <<key, n[2]>> /\ <<key, n[2]>> \in Alloc)
  <2>1. n[2] \in Layer /\ IsBefore(at[n[2]], n[2], key)
    BY <1>6, <1>7, <1>8
  <2>2. ASSUME n[2] \in layers, n = at[n[2]]
        PROVE  next[n] = <<key, n[2]>> /\ <<key, n[2]>> \in Alloc
    BY <2>1, <2>2, <1>5, AfterFound
  <2>3. ASSUME next[n] = <<key, n[2]>>, <<key, n[2]>> \in Alloc
        PROVE  n[2] \in layers /\ n = at[n[2]]
    BY <2>1, <2>3, <1>5, LeadsToKey, BeforeIsUnique
  <2> QED
    BY <2>2, <2>3
<1>10. ASSUME NEW n \in Node, n \notin Alloc PROVE next'[n] = Null
  <2>1. n[2] \in Layer /\ at[n[2]] \in Alloc
    BY <1>6, <1>7 DEF IsBefore
  <2>2. next[n] = Null
    BY <1>10 DEF Alloc
  <2> QED
    BY <2>1, <2>2, <1>2, <1>10
<1>11. ASSUME NEW n \in Alloc, next[n] = <<key, n[2]>>, <<key, n[2]>> \in Alloc PROVE KeyOf(n) # key
  <2>1. Rank(n) < Rank(next[n]) /\ Rank(n) \in Nat /\ n \in Node
    BY <1>8, <1>11, RankFacts DEF Inv, Sorted
  <2>2. KeyOf(n) = key => next[n] = n
    BY <1>7, <1>8, <1>11
  <2> QED
    BY <2>1, <2>2
<1>12. \A n \in Alloc : KeyOf(n) = key => n[2] \in layers
  BY <1>5, <1>7, <1>8
<1>13. \A n \in Node : KeyOf(n) = key /\ n[2] \in layers => n \in Alloc
  BY <1>5, <1>7
<1> QED
  BY <1>2, <1>3, <1>4, <1>8, <1>9, <1>10, <1>11, <1>12, <1>13 DEF Unlinked

LEMMA DeleteInv ==
    ASSUME Inv, Constructed, NEW key \in Key, <<key, 0>> \in Alloc, Delete(key)
    PROVE  Inv'
<1>1. /\ \A n \in Alloc : IF next[n] = <<key, n[2]>> /\ <<key, n[2]>> \in Alloc
                          THEN next'[n] = next[next[n]] /\ KeyOf(n) # key
                          ELSE IF KeyOf(n) = key THEN next'[n] = Null
                          ELSE next'[n] = next[n]
      /\ \A n \in Node : n \notin Alloc => next'[n] = Null
      /\ \A n \in Node : IF KeyOf(n) = key /\ n \in Alloc
                         THEN down'[n] = Null ELSE down'[n] = down[n]
      /\ pValue' = [pValue EXCEPT ![key] = Null]
      /\ returned' = pValue[key]
      /\ pCurrent' = pCurrent /\ pCurrent # <<key, 0>>
  BY DeleteSteps
<1>2. Sorted /\ Indexing
  BY DEF Inv
<1>3. /\ key \in Nat /\ key # HEAD
      /\ \A l \in Layer : /\ <<key, l>> \in Node /\ KeyOf(<<key, l>>) = key
                          /\ <<key, l>>[2] = l /\ Rank(<<key, l>>) = key + 1
  BY NodeFacts, NodeParts, RankFacts
<1>4. \A n \in Node : n[2] \in Layer /\ Rank(n) \in Nat /\ n = <<KeyOf(n), n[2]>>
  BY NodeParts, RankFacts
<1>5. \A n \in Alloc : n \in Node /\ next[n] # Null
  BY DEF Alloc
<1>6. \A n \in Node : n \in Alloc' <=> n \in Alloc /\ KeyOf(n) # key
  <2> SUFFICES ASSUME NEW n \in Node PROVE next'[n] # Null <=> n \in Alloc /\ KeyOf(n) # key
    BY DEF Alloc
  <2>1. CASE n \in Alloc /\ next[n] = <<key, n[2]>> /\ <<key, n[2]>> \in Alloc
    BY <2>1, <1>1, <1>5
  <2>2. CASE n \in Alloc /\ ~ (next[n] = <<key, n[2]>> /\ <<key, n[2]>> \in Alloc)
    BY <2>2, <1>1, <1>5
  <2>3. CASE n \notin Alloc
    BY <2>3, <1>1
  <2> QED
    BY <2>1, <2>2, <2>3
<1>7. \A n \in Alloc' : n \in Node /\ n \in Alloc /\ KeyOf(n) # key
  BY <1>6 DEF Alloc
<1>8. ASSUME NEW n \in Alloc'
      PROVE  /\ next'[n] \in Node => /\ next'[n] \in Alloc' /\ next'[n][2] = n[2]
                                     /\ Rank(n) < Rank(next'[n])
             /\ next'[n] \notin Node => next'[n] = End(n[2])
             /\ \A m \in Alloc' : m[2] = n[2] =>
                    \/ Rank(m) <= Rank(n)
                    \/ next'[n] \in Node /\ Rank(next'[n]) <= Rank(m)
  <2> DEFINE d == next[n]
  <2>1. n \in Alloc /\ n \in Node /\ KeyOf(n) # key /\ Rank(n) \in Nat /\ n[2] \in Layer
    BY <1>4, <1>7
  <2>2. /\ d \in Node => d \in Alloc /\ d[2] = n[2] /\ Rank(n) < Rank(d) /\ Rank(d) \in Nat
        /\ d \notin Node => d = End(n[2])
        /\ \A m \in Alloc : m[2] = n[2] => Rank(m) <= Rank(n) \/ (d \in Node /\ Rank(d) <= Rank(m))
    BY <2>1, <1>2, <1>4 DEF Sorted
  <2>3. CASE d = <<key, n[2]>> /\ <<key, n[2]>> \in Alloc
    <3> DEFINE e == next[d]
    <3>1. next'[n] = e
      BY <2>1, <2>3, <1>1
    <3>2. d \in Alloc /\ d \in Node /\ d[2] = n[2] /\ Rank(d) = key + 1 /\ Rank(n) < Rank(d)
      BY <2>1, <2>2, <2>3, <1>3
    <3>3. /\ e \in Node => e \in Alloc /\ e[2] = n[2] /\ Rank(d) < Rank(e) /\ Rank(e) \in Nat
          /\ e \notin Node => e = End(n[2])
          /\ \A m \in Alloc : m[2] = n[2] => Rank(m) <= Rank(d) \/ (e \in Node /\ Rank(e) <= Rank(m))
      BY <3>2, <1>2, <1>4 DEF Sorted
    <3> HIDE DEF d, e
    <3>4. ASSUME e \in Node PROVE e \in Alloc'
      <4>1. KeyOf(e) = key => e = d
        BY <3>3, <3>4, <2>3, <1>4
      <4> QED
        BY <4>1, <3>2, <3>3, <3>4, <1>6
    <3>5. ASSUME NEW m \in Alloc', m[2] = n[2]
          PROVE  Rank(m) <= Rank(n) \/ (e \in Node /\ Rank(e) <= Rank(m))
      <4>1. m \in Alloc /\ m \in Node /\ m # d /\ Rank(m) \in Nat
        BY <1>4, <1>7, <2>3, <1>3, <2>1
      <4>2. Rank(m) # Rank(d)
        BY <4>1, <3>2, <3>5, RankFacts
      <4>3. Rank(m) <= Rank(n) \/ Rank(d) <= Rank(m)
        BY <4>1, <3>5, <2>2
      <4>4. Rank(m) <= Rank(d) \/ (e \in Node /\ Rank(e) <= Rank(m))
        BY <4>1, <3>3, <3>5
      <4> QED
        BY <4>1, <4>2, <4>3, <4>4, <3>2, <2>1, <1>3
    <3>6. e \in Node => Rank(n) < Rank(e)
      BY <3>2, <3>3, <2>1, <1>3
    <3> QED
      BY <3>1, <3>3, <3>4, <3>5, <3>6
  <2>4. CASE ~ (d = <<key, n[2]>> /\ <<key, n[2]>> \in Alloc)
    <3>1. next'[n] = d
      BY <2>1, <2>4, <1>1
    <3>2. ASSUME d \in Node PROVE d \in Alloc'
      <4>1. KeyOf(d) = key => d = <<key, n[2]>>
        BY <3>2, <2>2, <1>4
      <4> QED
        BY <4>1, <3>2, <2>2, <2>4, <1>6
    <3> HIDE DEF d
    <3> QED
      BY <3>1, <3>2, <2>2, <1>7
  <2> QED
    BY <2>3, <2>4
<1>9. Sorted'
  BY <1>8 DEF Sorted
<1>10. Indexing'
  <2> SUFFICES ASSUME NEW n \in Alloc', n[2] > 0
               PROVE  down'[n] = <<KeyOf(n), n[2] - 1>> /\ down'[n] \in Alloc'
    BY DEF Indexing
  <2>1. n \in Alloc /\ n \in Node /\ KeyOf(n) # key /\ n[2] \in Layer
    BY <1>4, <1>7
  <2>2. down'[n] = down[n]
    BY <2>1, <1>1
  <2>3. down[n] = <<KeyOf(n), n[2] - 1>> /\ down[n] \in Alloc
    BY <2>1, <1>2 DEF Indexing
  <2>4. KeyOf(down[n]) # key
    BY <2>1, <2>3 DEF KeyOf
  <2> QED
    BY <2>2, <2>3, <2>4, <1>5, <1>6
<1>11. ValueIsThere'
  <2> SUFFICES ASSUME NEW k \in Key PROVE (pValue'[k] # Null) <=> <<k, 0>> \in Alloc'
    BY DEF ValueIsThere
  <2>1. pValue'[k] = IF k = key THEN Null ELSE pValue[k]
    BY <1>1 DEF Inv, TypeOK
  <2>2. <<k, 0>> \in Node /\ KeyOf(<<k, 0>>) = k
    BY NodeFacts, NodeParts
  <2> QED
    BY <2>1, <2>2, <1>6 DEF Inv, ValueIsThere
<1>12. CursorIsThere'
  <2>1. ASSUME pCurrent \in Alloc, pCurrent[2] = 0 PROVE pCurrent \in Alloc'
    <3>1. KeyOf(pCurrent) # key
      BY <1>1, <1>4, <1>5, <2>1
    <3> QED
      BY <3>1, <2>1, <1>5, <1>6
  <2> QED
    BY <2>1, <1>1 DEF Inv, CursorIsThere
<1>13. \E b \in Nat : \A n \in Alloc' : Rank(n) <= b
  BY <1>7 DEF Inv
<1>14. \A l \in Layer : <<HEAD, l>> \in Alloc'
  <2>1. \A l \in Layer : <<HEAD, l>> \in Alloc /\ <<HEAD, l>> \in Node /\ KeyOf(<<HEAD, l>>) = HEAD
    BY NodeParts DEF Inv
  <2> QED
    BY <2>1, <1>3, <1>6
<1>15. \A l \in Layer : next'[<<HEAD, l>>] # Null
  BY <1>14 DEF Alloc
<1>16. Constructed'
  BY <1>15, NodeFacts DEF Constructed, pHead
<1>17. TypeOK'
  <2>1. Present(key)
    BY PresentIs
  <2>2. next' \in [Node -> Node \cup {pTail, pTailIdx, Null}]
    <3>1. ASSUME NEW n \in Node PROVE next'[n] \in Node \cup {pTail, pTailIdx, Null}
      <4>1. \A m \in Node : next[m] \in Node \cup {pTail, pTailIdx, Null}
        BY DEF Inv, TypeOK
      <4>2. CASE n \in Alloc /\ next[n] = <<key, n[2]>> /\ <<key, n[2]>> \in Alloc
        BY <4>1, <4>2, <1>1, <1>5
      <4>3. CASE n \in Alloc /\ ~ (next[n] = <<key, n[2]>> /\ <<key, n[2]>> \in Alloc)
        BY <4>1, <4>3, <1>1
      <4>4. CASE n \notin Alloc
        BY <4>4, <1>1
      <4> QED
        BY <4>2, <4>3, <4>4
    <3> QED
      BY <3>1, <2>1 DEF Delete
  <2>3. down' \in [Node -> Node \cup {Null}]
    <3>1. \A n \in Node : down'[n] \in Node \cup {Null}
      BY <1>1 DEF Inv, TypeOK
    <3> QED
      BY <3>1, <2>1 DEF Delete
  <2>4. pValue' \in [Key -> Value \cup {Null}]
    BY <1>1 DEF Inv, TypeOK
  <2>5. returned' \in Value \cup {Null} /\ pCurrent' \in (Key \X {0}) \cup {pTail, Null}
    BY <1>1 DEF Inv, TypeOK
  <2> QED
    BY <2>2, <2>3, <2>4, <2>5, <1>15 DEF TypeOK
<1> QED
  BY <1>9, <1>10, <1>11, <1>12, <1>13, <1>14, <1>16, <1>17 DEF Inv

LEMMA DestroyInv == ASSUME Inv, Destroy PROVE Inv'
<1>1. Constructed /\ UNION {Chain(l) : l \in Layer} = Alloc
  BY ReachedIs DEF Destroy
<1>2. \A n \in Node : next'[n] = IF n \in Alloc THEN Null ELSE next[n]
  BY <1>1 DEF Destroy
<1>3. \A n \in Node : next'[n] = Null
  BY <1>2 DEF Alloc
<1>4. Alloc' = {}
  BY <1>3 DEF Alloc
<1>5. ~ Constructed'
  BY <1>3, NodeFacts, NodeParts DEF Constructed, pHead
<1>6. \A k \in Key : pValue'[k] = Null
  <2>1. \A k \in Key : pValue'[k] = IF <<k, 0>> \in Alloc THEN Null ELSE pValue[k]
    BY <1>1 DEF Destroy
  <2> QED
    BY <2>1, <1>1 DEF Inv, ValueIsThere
<1>7. TypeOK'
  <2>1. next' \in [Node -> Node \cup {pTail, pTailIdx, Null}]
    BY <1>3 DEF Destroy
  <2>2. down' \in [Node -> Node \cup {Null}]
    <3>1. \A n \in Node : down'[n] = Null \/ down'[n] = down[n]
      BY DEF Destroy
    <3>2. \A n \in Node : down'[n] \in Node \cup {Null}
      BY <3>1 DEF Inv, TypeOK
    <3> QED
      BY <3>2 DEF Destroy
  <2>3. pValue' \in [Key -> Value \cup {Null}]
    BY <1>6 DEF Destroy
  <2> QED
    BY <2>1, <2>2, <2>3, <1>5 DEF TypeOK, Destroy
<1> QED
  BY <1>4, <1>5, <1>6, <1>7 DEF Inv, Destroy

-----------------------------------------------------------------------------
(* The invariant: the steps that leave the lists as they are *)

DataNode(n) == n \in Alloc /\ n[2] = 0 /\ KeyOf(n) \in Key

(* After a node of the data layer comes a data node, or the tail.          *)
LEMMA DataNext ==
    ASSUME Inv, Constructed, NEW n \in Alloc, n[2] = 0
    PROVE  /\ next[n] = pTail \/ (DataNode(next[n]) /\ Rank(n) < Rank(next[n]))
           /\ next[n] \in (Key \X {0}) \cup {pTail}
<1>1. n \in Node /\ Rank(n) \in Nat
  BY RankFacts DEF Alloc
<1>2. CASE next[n] \in Node
  <2>1. next[n] \in Alloc /\ next[n][2] = 0 /\ Rank(n) < Rank(next[n])
    BY <1>2 DEF Inv, Sorted
  <2>2. KeyOf(next[n]) # HEAD
    BY <1>1, <2>1 DEF Rank
  <2>3. KeyOf(next[n]) \in Key /\ next[n] = <<KeyOf(next[n]), 0>>
    BY <1>2, <2>1, <2>2, NodeParts
  <2> QED
    BY <2>1, <2>3 DEF DataNode
<1>3. CASE next[n] \notin Node
  BY <1>3 DEF Inv, Sorted, End
<1> QED
  BY <1>2, <1>3

LEMMA CursorFacts ==
    ASSUME Inv, Constructed
    PROVE  /\ pCurrent \in {Null, pTail} \/ DataNode(pCurrent)
           /\ pCurrent = Null \/ pCurrent = pTail \/ pCurrent \in Alloc
  BY DEF Inv, CursorIsThere, DataNode

LEMMA CursorInv ==
    ASSUME Inv, Constructed, NEW n \in Alloc, n[2] = 0, pCurrent' = next[n],
           UNCHANGED <<next, down, pValue, returned>>
    PROVE  Inv'
<1>1. next[n] \in {Null, pTail} \cup {m \in Alloc : m[2] = 0 /\ KeyOf(m) \in Key}
  BY DataNext DEF DataNode
<1>2. next[n] \in (Key \X {0}) \cup {pTail, Null}
  BY DataNext
<1> QED
  BY <1>1, <1>2
     DEF Inv, TypeOK, Constructed, Alloc, Sorted, Indexing, ValueIsThere, CursorIsThere

LEMMA ValueInv ==
    ASSUME Inv, Constructed, NEW key \in Key, NEW value \in Value, <<key, 0>> \in Alloc,
           pValue' = [pValue EXCEPT ![key] = value], returned' = pValue[key],
           UNCHANGED <<next, down, pCurrent>>
    PROVE  Inv'
<1>1. ValueIsThere'
  <2>1. \A k \in Key : pValue'[k] = IF k = key THEN value ELSE pValue[k]
    BY DEF Inv, TypeOK
  <2>2. value # Null
    BY NodeFacts
  <2>3. Alloc' = Alloc
    BY DEF Alloc
  <2> QED
    BY <2>1, <2>2, <2>3 DEF Inv, ValueIsThere
<1>2. TypeOK'
  BY DEF Inv, TypeOK, Constructed
<1> QED
  BY <1>1, <1>2 DEF Inv, Constructed, Alloc, Sorted, Indexing, CursorIsThere

LEMMA ReturnInv ==
    ASSUME Inv, Constructed, returned' \in Value \cup {Null},
           UNCHANGED <<next, down, pValue, pCurrent>>
    PROVE  Inv'
  BY DEF Inv, TypeOK, Constructed, Alloc, Sorted, Indexing, ValueIsThere, CursorIsThere

(* The node an iterator is set to by each of its operations.               *)
LEMMA CBeginFrom ==
    ASSUME Inv, CBegin
    PROVE  /\ pHead \in Alloc /\ pHead[2] = 0 /\ Rank(pHead) = 0
           /\ pCurrent' = next[pHead]
  BY NodeFacts, RankFacts DEF Inv, CBegin, pHead

LEMMA CFindFrom ==
    ASSUME Inv, NEW min \in Key, CFind(min)
    PROVE  \E n \in Alloc : n[2] = 0 /\ IsBefore(n, 0, min) /\ pCurrent' = next[n]
<1>1. IsBefore(BeforeEqual(min)[0], 0, min)
  BY BeforeEqualIs, NodeFacts DEF CFind
<1> QED
  BY <1>1 DEF CFind, IsBefore

LEMMA IncrementFrom ==
    ASSUME Inv, Increment
    PROVE  DataNode(pCurrent) /\ pCurrent \in Alloc /\ pCurrent[2] = 0
  BY CursorFacts DEF Increment, DataNode

LEMMA NextInv == ASSUME Inv, [Next]_vars PROVE Inv'
<1>1. ASSUME NEW key \in Key, NEW value \in Value, Put(key, value) PROVE Inv'
  <2>1. Constructed /\ pCurrent' = pCurrent
    BY <1>1 DEF Put
  <2>2. CASE Present(key)
    <3>1. /\ pValue' = [pValue EXCEPT ![key] = value] /\ returned' = pValue[key]
          /\ UNCHANGED <<next, down>>
      BY <1>1, <2>2 DEF Put
    <3> QED
      BY <2>1, <2>2, <3>1, PresentIs, ValueInv
  <2>3. CASE ~ Present(key)
    <3>1. /\ returned' = Null
          /\ \E level \in Layer : InsertToList(key, value, level)
      BY <1>1, <2>3 DEF Put
    <3> QED
      BY <2>1, <2>3, <3>1, PresentIs, InsertInv
  <2> QED
    BY <2>2, <2>3
<1>2. ASSUME NEW key \in Key, NEW value \in Value, PutIfAbsent(key, value) PROVE Inv'
  <2>1. Constructed /\ pCurrent' = pCurrent
    BY <1>2 DEF PutIfAbsent
  <2>2. CASE Present(key)
    <3>1. returned' = pValue[key] /\ UNCHANGED <<next, down, pValue>>
      BY <1>2, <2>2 DEF PutIfAbsent
    <3>2. pValue[key] \in Value \cup {Null}
      BY DEF Inv, TypeOK
    <3> QED
      BY <2>1, <3>1, <3>2, ReturnInv
  <2>3. CASE ~ Present(key)
    <3>1. /\ returned' = Null
          /\ \E level \in Layer : InsertToList(key, value, level)
      BY <1>2, <2>3 DEF PutIfAbsent
    <3> QED
      BY <2>1, <2>3, <3>1, PresentIs, InsertInv
  <2> QED
    BY <2>2, <2>3
<1>3. ASSUME NEW key \in Key, Get(key) PROVE Inv'
  <2>1. Constructed /\ returned' \in Value \cup {Null} /\ UNCHANGED <<next, down, pValue, pCurrent>>
    BY <1>3 DEF Get, Inv, TypeOK
  <2> QED
    BY <2>1, ReturnInv
<1>4. ASSUME NEW key \in Key, Delete(key) PROVE Inv'
  <2>1. Constructed /\ pCurrent' = pCurrent
    BY <1>4 DEF Delete
  <2>2. CASE Present(key)
    BY <1>4, <2>1, <2>2, PresentIs, DeleteInv
  <2>3. CASE ~ Present(key)
    <3>1. returned' = Null /\ UNCHANGED <<next, down, pValue>>
      BY <1>4, <2>3 DEF Delete
    <3> QED
      BY <2>1, <3>1, ReturnInv
  <2> QED
    BY <2>2, <2>3
<1>5. ASSUME NEW min \in Key, CFind(min) PROVE Inv'
  <2>1. Constructed /\ UNCHANGED <<next, down, pValue, returned>>
    BY <1>5 DEF CFind
  <2> QED
    BY <1>5, <2>1, CFindFrom, CursorInv
<1>6. ASSUME CBegin PROVE Inv'
  <2>1. Constructed /\ UNCHANGED <<next, down, pValue, returned>>
    BY <1>6 DEF CBegin
  <2> QED
    BY <1>6, <2>1, CBeginFrom, CursorInv
<1>7. ASSUME Increment PROVE Inv'
  <2>1. Constructed /\ UNCHANGED <<next, down, pValue, returned>> /\ pCurrent' = next[pCurrent]
    BY <1>7 DEF Increment
  <2> QED
    BY <1>7, <2>1, IncrementFrom, CursorInv
<1>8. ASSUME UNCHANGED vars PROVE Inv'
  BY <1>8 DEF vars, Inv, TypeOK, Constructed, Alloc, Sorted, Indexing, ValueIsThere, CursorIsThere
<1> QED
  BY <1>1, <1>2, <1>3, <1>4, <1>5, <1>6, <1>7, <1>8, DestroyInv DEF Next

THEOREM Invariance == Spec => []Inv
  BY InitInv, NextInv, PTL DEF Spec

(* Pointers and cursors stay what the code takes them for; the one         *)
(* TypeOK states.                                                          *)
THEOREM TypeTheorem == Spec => []TypeOK
<1>1. Inv => TypeOK
  BY DEF Inv
<1> QED
  BY <1>1, Invariance, PTL

(* Whatever is put in and deleted, at whatever levels, the layers stay     *)
(* sorted, each a part of the one below, which down leads to               *)
(* (skiplist.h:315-327, 408-413, 452-480).                                 *)
THEOREM LayersTheorem == Spec => []LayersAgree
  BY InvLayers, Invariance, PTL

(* No node is lost, none is freed that a layer leads to, and the           *)
(* destructor frees them all (skiplist.h:193-218, 314-332).                *)
THEOREM LeaksTheorem == Spec => []NothingLeaks
  BY InvLeaks, Invariance, PTL

-----------------------------------------------------------------------------
(* The ordered map *)

Cursor(p) == IF p = pTail THEN TAIL ELSE IF p = Null THEN Null ELSE p[1]

LEMMA CursorOfNode ==
    /\ Cursor(pTail) = TAIL /\ Cursor(Null) = Null
    /\ \A n \in Node : Cursor(n) = KeyOf(n)
  BY NodeFacts DEF Cursor, KeyOf

(* The keys of the map that come after a node of the data layer.           *)
After(n) == {j \in Key : pValue[j] # Null /\ Rank(n) <= j}

(* What the node after n is to the map: the first of those keys.           *)
LEMMA NextIsFirst ==
    ASSUME Inv, Constructed, NEW n \in Alloc, n[2] = 0
    PROVE  IF After(n) = {} THEN Cursor(next[n]) = TAIL
           ELSE Cursor(next[n]) \in After(n) /\ \A j \in After(n) : Cursor(next[n]) <= j
<1>1. n \in Node /\ Rank(n) \in Nat
  BY RankFacts DEF Alloc
<1>2. ASSUME NEW j \in After(n)
      PROVE  /\ j \in Nat /\ <<j, 0>> \in Alloc /\ <<j, 0>>[2] = 0
             /\ Rank(<<j, 0>>) = j + 1 /\ Rank(n) <= j
  BY NodeFacts, RankFacts DEF After, Inv, ValueIsThere
<1>3. ASSUME NEW j \in After(n) PROVE next[n] \in Node /\ Rank(next[n]) <= j + 1
  <2>1. /\ j \in Nat /\ <<j, 0>> \in Alloc /\ <<j, 0>>[2] = 0
        /\ Rank(<<j, 0>>) = j + 1 /\ Rank(n) <= j
    BY <1>2
  <2>2. ~ (Rank(<<j, 0>>) <= Rank(n))
    BY <1>1, <2>1
  <2>3. next[n] \in Node /\ Rank(next[n]) <= Rank(<<j, 0>>)
    BY <2>1, <2>2 DEF Inv, Sorted
  <2> QED
    BY <2>1, <2>3
<1>4. CASE next[n] = pTail
  <2>1. After(n) = {}
    BY <1>3, <1>4, NodeFacts
  <2> QED
    BY <1>4, <2>1, CursorOfNode
<1>5. CASE DataNode(next[n]) /\ Rank(n) < Rank(next[n])
  <2> DEFINE k == KeyOf(next[n])
  <2>1. next[n] \in Node /\ next[n] = <<k, 0>> /\ k \in Key /\ k \in Nat /\ Rank(next[n]) = k + 1
    BY <1>5, NodeParts, NodeFacts DEF DataNode, Alloc, Rank
  <2>2. Cursor(next[n]) = k
    BY <2>1, CursorOfNode
  <2>3. pValue[k] # Null
    BY <1>5, <2>1 DEF DataNode, Inv, ValueIsThere
  <2>4. Rank(n) <= k
    BY <1>1, <1>5, <2>1
  <2>5. k \in After(n)
    BY <2>1, <2>3, <2>4 DEF After
  <2>6. ASSUME NEW j \in After(n) PROVE k <= j
    <3>1. Rank(next[n]) <= j + 1 /\ j \in Nat
      BY <1>2, <1>3
    <3> QED
      BY <3>1, <2>1
  <2> HIDE DEF k
  <2> QED
    BY <2>2, <2>5, <2>6
<1> QED
  BY <1>4, <1>5, DataNext

LEMMA InitMap == Init => Map!Init
  BY NodeFacts DEF Init, Map!Init

LEMMA MapHas ==
    ASSUME Inv, Constructed, NEW key \in Key
    PROVE  /\ Present(key) <=> pValue[key] # Null
           /\ pValue \in [Key -> Value \cup {Null}]
  BY PresentIs DEF Inv, TypeOK, ValueIsThere

LEMMA PutMap ==
    ASSUME Inv, NEW key \in Key, NEW value \in Value, Put(key, value)
    PROVE  Map!Put(key, value)
<1>1. Constructed /\ pCurrent' = pCurrent
  BY DEF Put
<1>2. pValue' = [pValue EXCEPT ![key] = value]
  BY DEF Put, InsertToList
<1>3. returned' = pValue[key]
  BY <1>1, MapHas DEF Put
<1> QED
  BY <1>1, <1>2, <1>3 DEF Map!Put

LEMMA PutIfAbsentMap ==
    ASSUME Inv, NEW key \in Key, NEW value \in Value, PutIfAbsent(key, value)
    PROVE  Map!PutIfAbsent(key, value)
<1>1. Constructed /\ pCurrent' = pCurrent
  BY DEF PutIfAbsent
<1>2. pValue' = IF pValue[key] = Null THEN [pValue EXCEPT ![key] = value] ELSE pValue
  BY <1>1, MapHas DEF PutIfAbsent, InsertToList
<1>3. returned' = pValue[key]
  BY <1>1, MapHas DEF PutIfAbsent
<1> QED
  BY <1>1, <1>2, <1>3 DEF Map!PutIfAbsent

LEMMA GetMap ==
    ASSUME Inv, NEW key \in Key, Get(key) PROVE Map!Get(key)
<1>1. Constructed /\ UNCHANGED <<pValue, pCurrent>>
  BY DEF Get
<1>2. returned' = pValue[key]
  BY <1>1, MapHas DEF Get
<1> QED
  BY <1>1, <1>2 DEF Map!Get

LEMMA DeleteMap ==
    ASSUME Inv, NEW key \in Key, Delete(key) PROVE Map!Delete(key)
<1>1. Constructed /\ pCurrent' = pCurrent /\ pCurrent # <<key, 0>>
  BY DEF Delete
<1>2. pValue' = [pValue EXCEPT ![key] = Null]
  <2>1. CASE Present(key)
    BY <2>1 DEF Delete
  <2>2. CASE ~ Present(key)
    <3>1. pValue' = pValue
      BY <2>2 DEF Delete
    <3> QED
      BY <1>1, <2>2, <3>1, MapHas
  <2> QED
    BY <2>1, <2>2
<1>3. returned' = pValue[key]
  BY <1>1, MapHas DEF Delete
<1>4. Cursor(pCurrent) # key
  <2>1. CASE pCurrent \in {Null, pTail}
    BY <2>1, CursorOfNode, NodeFacts
  <2>2. CASE DataNode(pCurrent)
    <3>1. pCurrent \in Node /\ pCurrent = <<KeyOf(pCurrent), 0>>
      BY <2>2, NodeParts DEF DataNode, Alloc
    <3> QED
      BY <1>1, <3>1, CursorOfNode
  <2> QED
    BY <1>1, <2>1, <2>2, CursorFacts
<1> QED
  BY <1>1, <1>2, <1>3, <1>4 DEF Map!Delete, Cursor

(* An iterator is set to the node after n: it is at the first of the keys  *)
(* that are not below what n stands for.                                   *)
LEMMA SetToFirst ==
    ASSUME Inv, Constructed, NEW n \in Alloc, n[2] = 0, pCurrent' = next[n],
           NEW S, S = After(n)
    PROVE  IF S = {} THEN Cursor(pCurrent)' = TAIL
           ELSE Cursor(pCurrent)' \in S /\ \A j \in S : Cursor(pCurrent)' <= j
<1>1. Cursor(pCurrent)' = Cursor(next[n])
  BY DEF Cursor
<1> QED
  BY <1>1, NextIsFirst

LEMMA CBeginMap == ASSUME Inv, CBegin PROVE Map!Begin
<1>1. Constructed /\ UNCHANGED <<pValue, returned>>
  BY DEF CBegin
<1>2. pHead \in Alloc /\ pHead[2] = 0 /\ Rank(pHead) = 0 /\ pCurrent' = next[pHead]
  BY CBeginFrom
<1>3. {j \in Key : pValue[j] # Null /\ TRUE} = After(pHead)
  <2>1. \A j \in Key : 0 <= j
    BY NodeFacts
  <2> QED
    BY <2>1, <1>2 DEF After
<1>4. /\ {j \in Key : pValue[j] # Null /\ TRUE} = {} => Cursor(pCurrent)' = TAIL
      /\ {j \in Key : pValue[j] # Null /\ TRUE} # {}
             => /\ Cursor(pCurrent)' \in {j \in Key : pValue[j] # Null /\ TRUE}
                /\ \A j \in {j \in Key : pValue[j] # Null /\ TRUE} : Cursor(pCurrent)' <= j
  BY <1>1, <1>2, <1>3, SetToFirst
<1> QED
  BY <1>1, <1>4 DEF Map!Begin, Map!IsFirst, Cursor

LEMMA CFindMap == ASSUME Inv, NEW min \in Key, CFind(min) PROVE Map!Find(min)
<1>1. Constructed /\ UNCHANGED <<pValue, returned>>
  BY DEF CFind
<1>2. PICK n \in Alloc : n[2] = 0 /\ IsBefore(n, 0, min) /\ pCurrent' = next[n]
  BY CFindFrom
<1>3. n \in Node /\ Rank(n) \in Nat /\ min \in Nat /\ Rank(n) <= min
  BY <1>2, RankFacts, NodeFacts DEF IsBefore, Alloc
<1>4. ASSUME NEW j \in Key, pValue[j] # Null PROVE min <= j <=> Rank(n) <= j
  <2>1. j \in Nat /\ <<j, 0>> \in Alloc /\ <<j, 0>>[2] = 0 /\ Rank(<<j, 0>>) = j + 1
    BY <1>1, <1>4, NodeFacts, RankFacts DEF Inv, ValueIsThere
  <2>2. j + 1 <= Rank(n) \/ min < j + 1
    BY <1>2, <2>1 DEF IsBefore
  <2> QED
    BY <2>1, <2>2, <1>3
<1> DEFINE S == {j \in Key : pValue[j] # Null /\ min <= j}
<1>5. S = After(n)
  BY <1>4 DEF After
<1>6. IF S = {} THEN Cursor(pCurrent)' = TAIL
      ELSE Cursor(pCurrent)' \in S /\ \A j \in S : Cursor(pCurrent)' <= j
  <2> HIDE DEF S
  <2> QED
    BY <1>1, <1>2, <1>5, SetToFirst
<1> QED
  BY <1>1, <1>6 DEF Map!Find, Map!IsFirst, Cursor

LEMMA IncrementMap == ASSUME Inv, Increment PROVE Map!Advance
<1>1. Constructed /\ UNCHANGED <<pValue, returned>> /\ pCurrent' = next[pCurrent]
  BY DEF Increment
<1>2. pCurrent \in Alloc /\ pCurrent[2] = 0 /\ DataNode(pCurrent)
  BY IncrementFrom
<1>3. /\ Cursor(pCurrent) \in Key /\ Cursor(pCurrent) \in Nat
      /\ Rank(pCurrent) = Cursor(pCurrent) + 1
  BY <1>2, CursorOfNode, NodeFacts DEF DataNode, Alloc, Rank
<1> DEFINE k == Cursor(pCurrent)
           S == {j \in Key : pValue[j] # Null /\ k < j}
<1>4. S = After(pCurrent)
  <2>1. \A j \in Key : k < j <=> Rank(pCurrent) <= j
    BY <1>3, NodeFacts
  <2> HIDE DEF k
  <2> QED
    BY <2>1 DEF After
<1>5. IF S = {} THEN Cursor(pCurrent)' = TAIL
      ELSE Cursor(pCurrent)' \in S /\ \A j \in S : Cursor(pCurrent)' <= j
  <2> HIDE DEF S
  <2> QED
    BY <1>1, <1>2, <1>4, SetToFirst
<1> QED
  BY <1>1, <1>3, <1>5 DEF Map!Advance, Map!IsFirst, Cursor

LEMMA DestroyMap == ASSUME Inv, Destroy PROVE Map!Drop
<1>1. Constructed /\ UNION {Chain(l) : l \in Layer} = Alloc
  BY ReachedIs DEF Destroy
<1>2. pValue' = [k \in Key |-> IF <<k, 0>> \in Alloc THEN Null ELSE pValue[k]]
  BY <1>1 DEF Destroy
<1>3. \A k \in Key : (IF <<k, 0>> \in Alloc THEN Null ELSE pValue[k]) = Null
  BY <1>1 DEF Inv, ValueIsThere
<1>4. pValue' = [k \in Key |-> Null]
  BY <1>2, <1>3
<1>5. Cursor(pCurrent)' = Null
  BY NodeFacts DEF Destroy, Cursor
<1> QED
  BY <1>4, <1>5 DEF Destroy, Map!Drop, Cursor

LEMMA NextMap == ASSUME Inv, [Next]_vars PROVE [Map!Next]_(Map!vars)
<1>1. CASE UNCHANGED vars
  BY <1>1 DEF vars, Map!vars
<1> QED
  BY <1>1, PutMap, PutIfAbsentMap, GetMap, DeleteMap, CFindMap, CBeginMap, IncrementMap, DestroyMap
     DEF Next, Map!Next

(* For any keys, values and number of layers the skip list is an ordered   *)
(* map: each operation returns what the map has for the key, whatever      *)
(* level is drawn, and an iterator goes on to the next key that is there   *)
(* (skiplist.h:220-360, iterator.h:52-55).                                 *)
THEOREM OrderedMapTheorem == Spec => IsOrderedMap
  BY InitMap, NextMap, Invariance, PTL DEF Spec, IsOrderedMap, Map!Spec
=============================================================================
