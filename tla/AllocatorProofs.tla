---------------------------- MODULE AllocatorProofs ----------------------------
(***************************************************************************)
(* Proofs about the allocator, for any size of the region and any number   *)
(* of clients.                                                             *)
(***************************************************************************)
EXTENDS Allocator, InductionLemmas, FiniteSetTheorems

(***************************************************************************)
(* Blocks in a row: succ leads from each of K to the next, from the last   *)
(* to avail_tail, in the order of rank.  Blocks may have no words, so that *)
(* addresses alone do not order them.                                      *)
(***************************************************************************)
ChainOf(K, succ, rank) ==
    /\ K \subseteq Address \ {avail_tail} /\ avail_head \in K
    /\ rank \in [Address -> Int]
    /\ \A e \in K : /\ succ[e] \in (K \ {avail_head}) \cup {avail_tail}
                    /\ rank[e] < rank[succ[e]]
                    /\ rank[avail_head] <= rank[e] /\ rank[e] < rank[avail_tail]
    /\ \A e, f \in K : /\ rank[e] = rank[f] => e = f
                       /\ rank[e] < rank[f] => rank[succ[e]] <= rank[f]

(* Each lies behind the one before, and all below top. *)
Placed(K, rank, from, to, top) ==
    /\ \A e \in K : from[e] \in Int /\ to[e] \in Int /\ from[e] <= to[e] /\ to[e] <= top
    /\ \A e, f \in K : rank[e] < rank[f] => to[e] <= from[f]
    /\ from[avail_head] = mem_start /\ to[avail_head] = mem_start + 1

(* As long as no link was overwritten each member has one before it, and   *)
(* so has the end.                                                         *)
Complete(M, link) ==
    (\A m \in M : link[m] \notin Pointers) =>
        \A e \in (M \ {avail_head}) \cup {avail_tail} :
            \E m \in M : link[m] = e /\ \A n \in M \ {m} : link[n] # e

(***************************************************************************)
(* The list of free blocks: no member has two before it, and none comes    *)
(* twice, since place grows.  A link may have been overwritten; until then *)
(* no member is lost.                                                      *)
(***************************************************************************)
ListOf(M, link, place) ==
    /\ M \subseteq Address \ {avail_tail} /\ avail_head \in M
    /\ place \in [Address -> Int]
    /\ \A m \in M : /\ link[m] \in (M \ {avail_head}) \cup {avail_tail} \cup Pointers
                    /\ link[m] \in M => place[m] < place[link[m]]
                    /\ m # avail_head => place[avail_head] < place[m]
    /\ \A m, n \in M : link[m] = link[n] /\ link[m] \in M => m = n
    /\ Complete(M, link)

LEMMA Constants ==
    /\ Size \in Nat /\ Size >= 8 /\ mem_start = 1 /\ nullptr = 0
    /\ Address = 1 .. Size /\ avail_head = Size - 1 /\ avail_tail = Size - 3
    /\ avail_head \in Address /\ avail_tail \in Address /\ nullptr \notin Address
    /\ avail_head # avail_tail /\ Pointers \cap Int = {} /\ Pointers \cap Address = {}
  BY AllocatorAssumption DEF Address, mem_start, mem_end, avail_head, avail_tail, nullptr

-----------------------------------------------------------------------------
(* The invariant *)

Live == {e \in Address : IsBlock(e)}

Ends == [e \in Address |-> start[child[e]]]

(* Descriptors are above the border, which is below those of the system. *)
Descriptors ==
    /\ start[avail_tail] <= avail_tail
    /\ \A e \in Address : IsBlock(e) \/ isFree[e] =>
           e >= start[avail_tail] /\ (e < avail_tail \/ e = avail_head)
    /\ isFree[avail_head] /\ start[avail_head] = mem_start

(* No word below top is lost. *)
Covered(K, to, top) ==
    \A w \in mem_start + 1 .. top - 1 : \E e \in K : start[e] <= w /\ w < to[e]

Row ==
    /\ \E rank : /\ ChainOf(Live, child, rank)
                 /\ Placed(Live, rank, start, Ends, start[avail_tail])
    /\ \A e \in Live : IsLast(e) => start[e] < start[avail_tail]
    /\ Covered(Live, Ends, start[avail_tail])

MembersApart ==
    /\ \A m \in Members : start[m] \in Address
    /\ \A m, n \in Members : start[m] = start[n] => m = n

Links == [m \in Address |-> word[start[m]]]

FreeList == MembersApart /\ \E place : ListOf(Members, Links, place)

(* The members' blocks are in the region; their links make the list, until *)
(* the allocator writes onto one of them.                                  *)
Located == \A m \in Members : start[m] \in Address

Listed == tangled \/ FreeList

(* Owned blocks are of K, and end at to. *)
Owned(K, to) ==
    \A p \in Pointers : elem[p] # nullptr =>
        /\ elem[p] \in K /\ ~ isFree[elem[p]]
        /\ \A q \in Pointers \ {p} : elem[q] # elem[p]
        /\ asked[p] <= to[elem[p]] - start[elem[p]]

Request == [op : {"alloc", "move"}, p : Pointers, size : 0 .. MaxSize, prev : Address,
            cur : Address \cup Pointers]

Growth == [op : {"join", "joined"}, p : Pointers, size : 0 .. MaxSize]

Transfer == [op : {"copy"}, p : Pointers, size : 0 .. MaxSize, to : Address]

(* A search has its place in the list, and a block found is nobody's yet. *)
CallGoesOn ==
    \/ call = NoCall
    \/ /\ call \in Request /\ ~ tangled
       /\ call.prev \in Members /\ call.cur = next(call.prev)
       /\ call.op = "alloc" => elem[call.p] = nullptr
       /\ call.op = "move" => elem[call.p] # nullptr
    \/ call \in Growth /\ elem[call.p] # nullptr
    \/ /\ call \in Transfer /\ elem[call.p] # nullptr
       /\ call.to \in Live /\ ~ isFree[call.to] /\ call.size <= SizeOf(call.to)
       /\ \A q \in Pointers : elem[q] # call.to

Tidy == Descriptors /\ Row /\ Located /\ Listed /\ Owned(Live, Ends) /\ CallGoesOn

(***************************************************************************)
(* During defrag: K are the used blocks and those not yet looked at, a row *)
(* with a gap between prev, which ends at pos, and cur.                    *)
(***************************************************************************)
Moving == [op : {"defrag"}, prev : Address, cur : Address, pos : Address]

Bridged == [child EXCEPT ![call.prev] = call.cur]

MovedEnds == [e \in Address |-> IF e = call.prev THEN call.pos ELSE start[child[e]]]

Gathered(K, rank) ==
    /\ K \subseteq Live /\ call.prev \in K
    /\ ChainOf(K, Bridged, rank)
    /\ Placed(K, rank, start, MovedEnds, start[avail_tail])
    /\ Covered(K, MovedEnds, call.pos)
    /\ \A e \in Live \ K : isFree[e]
    /\ \A e \in K : rank[e] < rank[call.cur] => ~ isFree[e] \/ e = avail_head
    /\ Owned(K, MovedEnds)

Defragging ==
    /\ call \in Moving
    /\ Descriptors
    /\ word[mem_start] = avail_tail
    /\ \E K, rank : Gathered(K, rank)

(* A step leaves q's block alone, but may move it. *)
Keeps(q) ==
    /\ elem'[q] = elem[q] /\ asked'[q] = asked[q]
    /\ elem[q] # nullptr =>
           \A i \in 1 .. asked[q] :
               word'[start'[elem[q]] + i - 1] = word[start[elem[q]] + i - 1]

Inv ==
    /\ TypeOK
    /\ call.op \notin Failures => IF call.op = "defrag" THEN Defragging ELSE Tidy

(* The words of a block from f to t are none of those from a to b. *)
LEMMA OtherWords ==
    ASSUME NEW f \in Int, NEW t \in Int, NEW n \in Int, n <= t - f, t <= Size, f >= mem_start + 1,
           NEW i \in Int, 1 <= i, i <= n,
           NEW a \in Int, NEW b \in Int, t <= a \/ b <= f
    PROVE  f + i - 1 \in Address /\ f + i - 1 # mem_start /\ f + i - 1 \notin a .. b - 1
<1>1. f + i - 1 >= f /\ f + i - 1 < t /\ f + i - 1 \in Int
  OBVIOUS
<1> QED
  BY <1>1, Constants

-----------------------------------------------------------------------------
(* Rows of blocks *)

(* Each has one block before it. *)
LEMMA OneBefore ==
    ASSUME NEW K, NEW succ, NEW rank, ChainOf(K, succ, rank),
           NEW e \in K, NEW f \in K, succ[e] = succ[f]
    PROVE  e = f
<1>1. rank[e] \in Int /\ rank[f] \in Int
  BY DEF ChainOf
<1>2. ~ (rank[e] < rank[f])
  <2> SUFFICES ASSUME rank[e] < rank[f] PROVE FALSE
    OBVIOUS
  <2>1. rank[succ[e]] <= rank[f] /\ rank[f] < rank[succ[f]] /\ rank[succ[f]] \in Int
    BY Constants DEF ChainOf
  <2> QED
    BY <1>1, <2>1
<1>3. ~ (rank[f] < rank[e])
  <2> SUFFICES ASSUME rank[f] < rank[e] PROVE FALSE
    OBVIOUS
  <2>1. rank[succ[f]] <= rank[e] /\ rank[e] < rank[succ[e]] /\ rank[succ[e]] \in Int
    BY Constants DEF ChainOf
  <2> QED
    BY <1>1, <2>1
<1> QED
  BY <1>1, <1>2, <1>3 DEF ChainOf

(* Different blocks share no word. *)
LEMMA Apart ==
    ASSUME NEW K, NEW succ, NEW rank, ChainOf(K, succ, rank),
           NEW from, NEW to, NEW top, Placed(K, rank, from, to, top),
           NEW e \in K, NEW f \in K, e # f
    PROVE  to[e] <= from[f] \/ to[f] <= from[e]
<1>1. rank[e] \in Int /\ rank[f] \in Int /\ rank[e] # rank[f]
  BY DEF ChainOf
<1> QED
  BY <1>1 DEF Placed

(* Those other than the head lie behind its word. *)
LEMMA BehindHead ==
    ASSUME NEW K, NEW succ, NEW rank, ChainOf(K, succ, rank),
           NEW from, NEW to, NEW top, Placed(K, rank, from, to, top),
           NEW e \in K, e # avail_head
    PROVE  from[e] >= mem_start + 1
<1>1. rank[avail_head] < rank[e]
  <2>1. rank[avail_head] <= rank[e] /\ rank[avail_head] # rank[e]
        /\ rank[avail_head] \in Int /\ rank[e] \in Int
    BY DEF ChainOf
  <2> QED
    BY <2>1
<1>2. avail_head \in K /\ to[avail_head] = mem_start + 1 /\ from[e] \in Int
  BY DEF ChainOf, Placed
<1> QED
  BY <1>1, <1>2, Constants DEF Placed

(* A block takes over the one behind it. *)
LEMMA ChainWithout ==
    ASSUME NEW K, NEW succ, NEW rank, ChainOf(K, succ, rank),
           NEW e \in K, succ[e] \in K,
           NEW succ1, succ1[e] = succ[succ[e]],
           \A x \in K \ {e, succ[e]} : succ1[x] = succ[x]
    PROVE  ChainOf(K \ {succ[e]}, succ1, rank)
<1> DEFINE b == succ[e]
           K1 == K \ {b}
<1>2. \A x \in K : rank[x] \in Int /\ rank[succ[x]] \in Int
  BY Constants DEF ChainOf
<1>1. b \in K /\ b # avail_head /\ b # e /\ e \in K1 /\ avail_head \in K1
      /\ rank[e] < rank[b] /\ rank[b] < rank[succ[b]]
  <2>1. b \in K /\ b # avail_head /\ rank[e] < rank[b] /\ rank[b] < rank[succ[b]]
        /\ avail_head \in K
    BY Constants DEF ChainOf
  <2>2. b # e
    BY <1>2, <2>1
  <2> QED
    BY <2>1, <2>2
<1>3. ASSUME NEW x \in K1
      PROVE  /\ succ1[x] \in (K1 \ {avail_head}) \cup {avail_tail}
             /\ rank[x] < rank[succ1[x]]
  <2>1. CASE x = e
    <3>1. succ[b] # b /\ succ[b] \in (K \ {avail_head}) \cup {avail_tail}
      BY <1>1, <1>2 DEF ChainOf
    <3> QED
      BY <1>1, <1>2, <2>1, <3>1
  <2>2. CASE x # e
    <3>1. succ[x] # b
      BY <2>2, OneBefore
    <3>2. succ1[x] = succ[x]
      BY <2>2
    <3> QED
      BY <3>1, <3>2 DEF ChainOf
  <2> QED
    BY <2>1, <2>2
<1>4. ASSUME NEW x \in K1, NEW y \in K1, rank[x] < rank[y]
      PROVE  rank[succ1[x]] <= rank[y]
  <2>1. rank[succ[x]] <= rank[y]
    BY <1>4 DEF ChainOf
  <2>2. CASE x = e
    <3>1. rank[b] <= rank[y] /\ rank[b] # rank[y]
      BY <1>1, <2>1, <2>2 DEF ChainOf
    <3>2. rank[b] < rank[y]
      BY <1>1, <1>2, <3>1
    <3> QED
      BY <1>1, <2>2, <3>2 DEF ChainOf
  <2>3. CASE x # e
    BY <2>1, <2>3
  <2> QED
    BY <2>2, <2>3
<1> HIDE DEF b
<1> QED
  BY <1>1, <1>3, <1>4 DEF ChainOf, b

LEMMA PlacedWithout ==
    ASSUME NEW K, NEW succ, NEW rank, ChainOf(K, succ, rank),
           NEW from, NEW to, NEW top, Placed(K, rank, from, to, top),
           NEW e \in K, succ[e] \in K, e # avail_head,
           NEW to1, to1[e] = to[succ[e]],
           \A x \in K \ {e, succ[e]} : to1[x] = to[x]
    PROVE  Placed(K \ {succ[e]}, rank, from, to1, top)
<1> DEFINE b == succ[e]
           K1 == K \ {b}
<1>1. \A x \in K : rank[x] \in Int
  BY DEF ChainOf
<1>2. b \in K /\ rank[e] < rank[b] /\ b # avail_head
  BY Constants DEF ChainOf
<1>3. from[e] <= to[e] /\ to[e] <= from[b] /\ from[b] <= to[b] /\ to[b] <= top
      /\ from[e] \in Int /\ to[e] \in Int /\ from[b] \in Int /\ to[b] \in Int
  BY <1>2 DEF Placed
<1>4. ASSUME NEW x \in K1 PROVE from[x] \in Int /\ to1[x] \in Int /\ from[x] <= to1[x] /\ to1[x] <= top
  <2>1. CASE x = e
    BY <1>3, <2>1
  <2>2. CASE x # e
    BY <2>2 DEF Placed
  <2> QED
    BY <2>1, <2>2
<1>5. ASSUME NEW x \in K1, NEW y \in K1, rank[x] < rank[y] PROVE to1[x] <= from[y]
  <2>1. CASE x = e
    <3>1. rank[b] <= rank[y] /\ rank[b] # rank[y]
      BY <1>2, <1>5, <2>1 DEF ChainOf
    <3>2. rank[b] < rank[y]
      BY <1>1, <1>2, <3>1
    <3> QED
      BY <1>2, <2>1, <3>2 DEF Placed
  <2>2. CASE x # e
    BY <1>5, <2>2 DEF Placed
  <2> QED
    BY <2>1, <2>2
<1>6. from[avail_head] = mem_start /\ to1[avail_head] = mem_start + 1
  BY <1>2 DEF Placed, ChainOf
<1> HIDE DEF b
<1> QED
  BY <1>4, <1>5, <1>6 DEF Placed, b

(***************************************************************************)
(* A block e is split in two at m, and the words from top1 on are taken    *)
(* from the last.                                                          *)
(***************************************************************************)
LEMMA ChainWith ==
    ASSUME NEW K, NEW succ, NEW rank, ChainOf(K, succ, rank),
           NEW from, NEW to, NEW top, Placed(K, rank, from, to, top),
           NEW e \in K,
           NEW n \in Address \ (K \cup {avail_tail}),
           NEW succ1, succ1[e] = n, succ1[n] = succ[e], \A x \in K \ {e} : succ1[x] = succ[x],
           NEW m \in Int, from[e] <= m, m <= to[e], e = avail_head => m = to[e],
           NEW top1 \in Int, top \in Int, top1 <= top,
           \A x \in K : succ[x] = avail_tail => from[x] < top1 /\ (x = e => m < top1),
           \E x \in K : succ[x] = avail_tail,
           NEW from1, from1[n] = m, \A x \in K : from1[x] = from[x],
           NEW to1, to1[e] = m, to1[n] = IF succ[e] = avail_tail THEN top1 ELSE to[e],
           \A x \in K \ {e} : to1[x] = IF succ[x] = avail_tail THEN top1 ELSE to[x]
    PROVE  \E rank1 : /\ ChainOf(K \cup {n}, succ1, rank1)
                      /\ Placed(K \cup {n}, rank1, from1, to1, top1)
<1> DEFINE rank1 == [x \in Address |-> CASE x = n -> rank[e] + 1
                                         [] x # n /\ rank[x] > rank[e] -> rank[x] + 1
                                         [] OTHER -> rank[x]]
           K1 == K \cup {n}
<1>1. /\ \A x \in K : x \in Address /\ x # n /\ x # avail_tail /\ succ[x] # n /\ succ[x] # avail_head
      /\ \A x \in K : rank[x] \in Int /\ rank[succ[x]] \in Int /\ succ[x] \in Address
      /\ avail_head \in K /\ rank[avail_tail] \in Int /\ n # avail_head /\ n # avail_tail
  BY Constants, ZenonT(60) DEF ChainOf
<1>2. rank1 \in [Address -> Int]
  <2>1. rank \in [Address -> Int] /\ rank[e] \in Int
    BY <1>1 DEF ChainOf
  <2> QED
    BY <2>1
<1>3. /\ rank1[n] = rank[e] + 1
      /\ \A x \in Address \ {n} : rank1[x] = IF rank[x] > rank[e] THEN rank[x] + 1 ELSE rank[x]
  BY <1>1
<1> HIDE DEF rank1
<1> DEFINE up(k) == IF k > rank[e] THEN k + 1 ELSE k
<1>17. /\ \A x \in K : rank1[x] = up(rank[x]) /\ rank1[succ[x]] = up(rank[succ[x]])
       /\ rank1[avail_tail] = up(rank[avail_tail])
       /\ rank1[avail_head] = up(rank[avail_head])
  BY <1>1, <1>3
<1>18. rank[e] \in Int /\ \A j, k \in Int : /\ (up(j) < up(k) <=> j < k)
                                             /\ (up(j) = up(k) <=> j = k)
                                             /\ (up(j) <= up(k) <=> j <= k)
                                             /\ (up(j) < rank[e] + 1 <=> j <= rank[e])
                                             /\ (up(j) <= rank[e] + 1 <=> j <= rank[e])
                                             /\ (rank[e] + 1 < up(k) <=> rank[e] < k)
                                             /\ (rank[e] + 1 <= up(k) <=> rank[e] < k)
                                             /\ up(j) # rank[e] + 1 /\ up(j) \in Int
  BY <1>1
<1> HIDE DEF up
<1>4. \A x, y \in K : /\ (rank1[x] < rank1[y] <=> rank[x] < rank[y])
                       /\ (rank1[x] = rank1[y] <=> rank[x] = rank[y])
  BY <1>1, <1>17, <1>18
<1>5. \A x \in K : /\ (rank1[x] < rank1[n] <=> rank[x] <= rank[e])
                    /\ (rank1[n] < rank1[x] <=> rank[e] < rank[x])
                    /\ rank1[x] # rank1[n]
  BY <1>1, <1>3, <1>17, <1>18
<1>6. ASSUME NEW x \in K1
      PROVE  /\ succ1[x] \in (K1 \ {avail_head}) \cup {avail_tail}
             /\ rank1[x] < rank1[succ1[x]]
             /\ rank1[avail_head] <= rank1[x] /\ rank1[x] < rank1[avail_tail]
  <2>1. /\ succ[e] \in (K \ {avail_head}) \cup {avail_tail}
        /\ rank[e] < rank[succ[e]] /\ rank[avail_head] <= rank[e] /\ rank[e] < rank[avail_tail]
    BY DEF ChainOf
  <2>2. CASE x = e
    BY <1>1, <1>3, <2>1, <2>2
  <2>3. CASE x = n
    BY <1>1, <1>3, <2>1, <2>3
  <2>4. CASE x \in K \ {e}
    <3>1. /\ succ[x] \in (K \ {avail_head}) \cup {avail_tail} /\ succ1[x] = succ[x]
          /\ rank[x] < rank[succ[x]] /\ rank[avail_head] <= rank[x] /\ rank[x] < rank[avail_tail]
      BY <2>4 DEF ChainOf
    <3>2. /\ x \in K /\ rank[x] \in Int /\ rank[succ[x]] \in Int
          /\ rank[avail_head] \in Int /\ rank[avail_tail] \in Int
      BY <1>1, <2>4
    <3>3. /\ up(rank[x]) < up(rank[succ[x]]) /\ up(rank[avail_head]) <= up(rank[x])
          /\ up(rank[x]) < up(rank[avail_tail])
      BY <1>18, <3>1, <3>2
    <3> QED
      BY <1>1, <1>17, <3>1, <3>2, <3>3
  <2> QED
    BY <2>2, <2>3, <2>4
<1>7. ASSUME NEW x \in K1, NEW y \in K1
      PROVE  /\ rank1[x] = rank1[y] => x = y
             /\ rank1[x] < rank1[y] => rank1[succ1[x]] <= rank1[y]
  <2>1. rank1[x] = rank1[y] => x = y
    BY <1>1, <1>4, <1>5 DEF ChainOf
  <2>2. ASSUME rank1[x] < rank1[y] PROVE rank1[succ1[x]] <= rank1[y]
    <3>1. CASE x = e
      <4>1. CASE y = n
        BY <1>2, <3>1, <4>1
      <4>2. CASE y \in K
        <5>1. rank1[n] < rank1[y] /\ rank1[n] \in Int /\ rank1[y] \in Int
          BY <1>1, <1>2, <1>4, <1>5, <2>2, <3>1, <4>2
        <5> QED
          BY <3>1, <5>1
      <4> QED
        BY <4>1, <4>2
    <3>2. CASE x = n
      <4>1. y \in K /\ rank[e] < rank[y]
        BY <1>2, <1>5, <2>2, <3>2
      <4>2. rank[succ[e]] <= rank[y]
        BY <4>1 DEF ChainOf
      <4> QED
        BY <1>1, <1>3, <3>2, <4>1, <4>2
    <3>3. CASE x \in K \ {e}
      <4>1. succ1[x] = succ[x]
        BY <3>3
      <4>2. CASE y = n
        <5>1. rank[x] <= rank[e] /\ rank[x] # rank[e]
          BY <1>5, <2>2, <3>3, <4>2 DEF ChainOf
        <5>2. rank[succ[x]] <= rank[e]
          BY <1>1, <3>3, <5>1 DEF ChainOf
        <5> QED
          BY <1>1, <1>3, <4>1, <4>2, <5>2
      <4>3. CASE y \in K
        <5>1. rank[succ[x]] <= rank[y]
          BY <1>4, <2>2, <3>3, <4>3 DEF ChainOf
        <5> QED
          BY <1>1, <1>3, <4>1, <4>3, <5>1
      <4> QED
        BY <4>2, <4>3
    <3> QED
      BY <3>1, <3>2, <3>3
  <2> QED
    BY <2>1, <2>2
<1>8. ChainOf(K1, succ1, rank1)
  <2>1. K1 \subseteq Address \ {avail_tail} /\ avail_head \in K1
    BY <1>1 DEF ChainOf
  <2> QED
    BY <1>2, <1>6, <1>7, <2>1 DEF ChainOf
<1>9. PICK l \in K : succ[l] = avail_tail
  OBVIOUS
<1>10. /\ \A x \in K : from[x] \in Int /\ to[x] \in Int /\ from[x] <= to[x] /\ to[x] <= top
       /\ \A x, y \in K : rank[x] < rank[y] => to[x] <= from[y]
       /\ from[avail_head] = mem_start /\ to[avail_head] = mem_start + 1
  BY DEF Placed
<1>11. ASSUME NEW x \in K, x # l PROVE succ[x] # avail_tail /\ to[x] <= from[l] /\ to[x] < top1
  <2>1. succ[x] # avail_tail
    BY <1>9, <1>11, OneBefore
  <2>2. rank[x] # rank[l] /\ ~ (rank[l] < rank[x])
    <3>1. rank[x] < rank[avail_tail]
      BY DEF ChainOf
    <3>2. rank[l] < rank[x] => rank[avail_tail] <= rank[x]
      BY <1>9 DEF ChainOf
    <3> QED
      BY <1>1, <1>11, <3>1, <3>2 DEF ChainOf
  <2>3. rank[x] < rank[l]
    BY <1>1, <2>2
  <2>4. from[l] < top1
    BY <1>9
  <2> QED
    BY <1>10, <2>1, <2>3, <2>4
<1>12. from[l] < top1 /\ (e = l => m < top1) /\ m \in Int /\ top1 \in Int
  BY <1>9
<1>13. ASSUME NEW x \in K1
       PROVE  from1[x] \in Int /\ to1[x] \in Int /\ from1[x] <= to1[x] /\ to1[x] <= top1
  <2>1. CASE x = n
    <3>1. CASE e = l
      BY <1>9, <1>12, <2>1, <3>1
    <3>2. CASE e # l
      BY <1>10, <1>11, <2>1, <3>2
    <3> QED
      BY <3>1, <3>2
  <2>2. CASE x = e
    <3>1. CASE e = l
      BY <1>10, <1>12, <2>2, <3>1
    <3>2. CASE e # l
      BY <1>10, <1>11, <2>2, <3>2
    <3> QED
      BY <3>1, <3>2
  <2>3. CASE x \in K \ {e}
    <3>1. CASE x = l
      BY <1>9, <1>10, <1>12, <2>3, <3>1
    <3>2. CASE x # l
      BY <1>10, <1>11, <2>3, <3>2
    <3> QED
      BY <3>1, <3>2
  <2> QED
    BY <2>1, <2>2, <2>3
<1>14. ASSUME NEW x \in K1, NEW y \in K1, rank1[x] < rank1[y] PROVE to1[x] <= from1[y]
  <2>1. CASE x = n
    <3>1. y \in K /\ rank[e] < rank[y]
      BY <1>2, <1>5, <1>14, <2>1
    <3>2. e # l
      <4>1. rank[y] < rank[avail_tail]
        BY <3>1 DEF ChainOf
      <4>2. e = l => rank[avail_tail] <= rank[y]
        BY <1>9, <3>1 DEF ChainOf
      <4> QED
        BY <1>1, <3>1, <4>1, <4>2
    <3> QED
      BY <1>10, <1>11, <2>1, <3>1, <3>2
  <2>2. CASE x = e
    <3>1. CASE y = n
      BY <2>2, <3>1
    <3>2. CASE y \in K
      <4>1. rank[e] < rank[y]
        BY <1>4, <1>14, <2>2, <3>2
      <4>2. to[e] <= from[y] /\ from[y] \in Int /\ to[e] \in Int
        BY <1>10, <3>2, <4>1
      <4> QED
        BY <2>2, <3>2, <4>2
    <3> QED
      BY <3>1, <3>2
  <2>3. CASE x \in K \ {e}
    <3>1. x # l
      <4>1. SUFFICES ASSUME x = l PROVE FALSE
        OBVIOUS
      <4>2. \A z \in K : ~ (rank[l] < rank[z])
        <5>1. SUFFICES ASSUME NEW z \in K, rank[l] < rank[z] PROVE FALSE
          OBVIOUS
        <5>2. rank[avail_tail] <= rank[z] /\ rank[z] < rank[avail_tail]
          BY <1>9, <5>1 DEF ChainOf
        <5> QED
          BY <1>1, <5>2
      <4>3. y = n
        BY <1>4, <1>14, <2>3, <4>1, <4>2
      <4>4. rank[l] <= rank[e] /\ rank[l] # rank[e]
        BY <1>5, <1>14, <2>3, <4>1, <4>3 DEF ChainOf
      <4> QED
        BY <1>1, <4>2, <4>4
    <3>2. to1[x] = to[x]
      BY <1>11, <2>3, <3>1
    <3>3. CASE y = n
      <4>1. rank[x] <= rank[e] /\ rank[x] # rank[e]
        BY <1>5, <1>14, <2>3, <3>3 DEF ChainOf
      <4>2. to[x] <= from[e]
        BY <1>1, <1>10, <2>3, <4>1
      <4> QED
        BY <1>10, <2>3, <3>2, <3>3, <4>2
    <3>4. CASE y \in K
      BY <1>4, <1>10, <1>14, <2>3, <3>2, <3>4
    <3> QED
      BY <3>3, <3>4
  <2> QED
    BY <2>1, <2>2, <2>3
<1>15. from1[avail_head] = mem_start /\ to1[avail_head] = mem_start + 1
  <2>1. CASE e = avail_head
    BY <1>1, <1>10, <2>1
  <2>2. CASE e # avail_head
    <3>1. rank[avail_head] <= rank[e] /\ rank[avail_head] # rank[e]
      BY <1>1, <2>2 DEF ChainOf
    <3>2. rank[avail_head] < rank[e]
      BY <1>1, <3>1
    <3>3. rank[succ[avail_head]] <= rank[e] /\ rank[e] < rank[avail_tail]
      BY <1>1, <3>2 DEF ChainOf
    <3>4. avail_head # l
      BY <1>1, <1>9, <3>3
    <3> QED
      BY <1>1, <1>10, <1>11, <2>2, <3>4
  <2> QED
    BY <2>1, <2>2
<1>16. Placed(K1, rank1, from1, to1, top1)
  BY <1>13, <1>14, <1>15 DEF Placed
<1> QED
  BY <1>8, <1>16

-----------------------------------------------------------------------------
(* The list of free blocks *)

LEMMA CompleteWithout ==
    ASSUME NEW M, NEW link, NEW place, ListOf(M, link, place),
           NEW p \in M, link[p] \in M, p # link[p],
           NEW link1, link1[p] = link[link[p]], \A m \in M \ {p, link[p]} : link1[m] = link[m]
    PROVE  Complete(M \ {link[p]}, link1)
<1> DEFINE c == link[p]
           M1 == M \ {c}
<1> SUFFICES ASSUME \A m \in M1 : link1[m] \notin Pointers,
                    NEW e \in (M1 \ {avail_head}) \cup {avail_tail}
             PROVE  \E m \in M1 : link1[m] = e /\ \A n \in M1 \ {m} : link1[n] # e
  BY DEF Complete
<1>1. c \in M /\ c # avail_tail /\ c \notin Pointers /\ e # c /\ p \in M1
  BY Constants DEF ListOf
<1>2. \A m \in M : link[m] \notin Pointers
  <2> TAKE m \in M
  <2>1. CASE m = p
    BY <1>1, <2>1
  <2>2. CASE m = c
    BY <1>1, <2>2
  <2>3. CASE m \notin {p, c}
    BY <2>3
  <2> QED
    BY <2>1, <2>2, <2>3
<1>3. e \in (M \ {avail_head}) \cup {avail_tail}
  OBVIOUS
<1>4. PICK m \in M : link[m] = e /\ \A n \in M \ {m} : link[n] # e
  BY <1>2, <1>3 DEF ListOf, Complete
<1>5. m # p
  BY <1>1, <1>4
<1>6. CASE m = c
  <2>1. link1[p] = e /\ \A n \in M1 \ {p} : link1[n] # e
    BY <1>1, <1>4, <1>6
  <2> QED
    BY <1>1, <2>1
<1>7. CASE m # c
  <2>1. m \in M1 /\ link1[m] = e
    BY <1>4, <1>5, <1>7
  <2>2. \A n \in M1 \ {m} : link1[n] # e
    BY <1>1, <1>4, <1>7
  <2> QED
    BY <2>1, <2>2
<1> QED
  BY <1>6, <1>7

LEMMA ListWithout ==
    ASSUME NEW M, NEW link, NEW place, ListOf(M, link, place),
           NEW p \in M, link[p] \in M,
           NEW link1, link1[p] = link[link[p]], \A m \in M \ {p, link[p]} : link1[m] = link[m]
    PROVE  p # link[p] /\ ListOf(M \ {link[p]}, link1, place)
<1> DEFINE c == link[p]
           M1 == M \ {c}
<1>1. c \in M /\ c # avail_head /\ place[p] < place[c] /\ \A m \in M : place[m] \in Int
  BY Constants DEF ListOf
<1>2. p # c /\ (link[c] \in M => place[c] < place[link[c]] /\ link[c] # c)
  BY <1>1 DEF ListOf
<1>3. ASSUME NEW m \in M1
      PROVE  /\ link1[m] \in (M1 \ {avail_head}) \cup {avail_tail} \cup Pointers
             /\ link1[m] \in M1 => place[m] < place[link1[m]]
             /\ m # avail_head => place[avail_head] < place[m]
  <2>1. CASE m = p
    <3>1. link[c] \in (M \ {avail_head}) \cup {avail_tail} \cup Pointers
      BY <1>1 DEF ListOf
    <3>2. link[c] \in M => place[p] < place[link[c]]
      BY <1>1, <1>2
    <3> QED
      BY <1>1, <1>2, <2>1, <3>1, <3>2 DEF ListOf
  <2>2. CASE m # p
    <3>1. link1[m] = link[m] /\ link[m] # c
      BY <1>1, <2>2 DEF ListOf
    <3> QED
      BY <3>1 DEF ListOf
  <2> QED
    BY <2>1, <2>2
<1>4. ASSUME NEW m \in M1, NEW n \in M1, link1[m] = link1[n], link1[m] \in M1 PROVE m = n
  <2>1. CASE m # p /\ n # p
    BY <1>4, <2>1 DEF ListOf
  <2>2. CASE m = p /\ n # p
    <3>1. link[c] = link[n] /\ link[c] \in M /\ n # c
      BY <1>4, <2>2
    <3> QED
      BY <1>1, <3>1 DEF ListOf
  <2>3. CASE m # p /\ n = p
    <3>1. link[c] = link[m] /\ link[c] \in M /\ m # c
      BY <1>4, <2>3
    <3> QED
      BY <1>1, <3>1 DEF ListOf
  <2> QED
    BY <2>1, <2>2, <2>3
<1>5. M1 \subseteq Address \ {avail_tail} /\ avail_head \in M1 /\ place \in [Address -> Int]
  BY <1>1 DEF ListOf
<1>7. Complete(M1, link1)
  BY <1>2, CompleteWithout
<1> HIDE DEF c
<1>6. ListOf(M1, link1, place)
  BY <1>3, <1>4, <1>5, <1>7 DEF ListOf
<1> QED
  BY <1>2, <1>6 DEF c

LEMMA CompleteWith ==
    ASSUME NEW M, NEW link, NEW place, ListOf(M, link, place),
           NEW n \in Address \ (M \cup {avail_tail}),
           NEW link1, link1[avail_head] = n, link1[n] = link[avail_head],
           \A m \in M \ {avail_head} : link1[m] = link[m]
    PROVE  Complete(M \cup {n}, link1)
<1> DEFINE M1 == M \cup {n}
<1> SUFFICES ASSUME \A m \in M1 : link1[m] \notin Pointers,
                    NEW e \in (M1 \ {avail_head}) \cup {avail_tail}
             PROVE  \E m \in M1 : link1[m] = e /\ \A k \in M1 \ {m} : link1[k] # e
  BY DEF Complete
<1>1. /\ avail_head \in M /\ n # avail_head /\ n \notin M /\ n \notin Pointers /\ n # avail_tail
      /\ \A m \in M : link[m] # n
  BY Constants DEF ListOf
<1>2. \A m \in M : link[m] \notin Pointers
  <2> TAKE m \in M
  <2>1. CASE m = avail_head
    BY <2>1
  <2>2. CASE m # avail_head
    BY <2>2
  <2> QED
    BY <2>1, <2>2
<1>3. CASE e = n
  <2>1. \A k \in M1 \ {avail_head} : link1[k] # n
    BY <1>1
  <2> QED
    BY <1>1, <1>3, <2>1
<1>4. CASE e # n
  <2>1. PICK m \in M : link[m] = e /\ \A k \in M \ {m} : link[k] # e
    BY <1>2, <1>4 DEF ListOf, Complete
  <2>2. CASE m = avail_head
    <3>1. link1[n] = e /\ \A k \in M1 \ {n} : link1[k] # e
      BY <1>1, <1>4, <2>1, <2>2
    <3> QED
      BY <3>1
  <2>3. CASE m # avail_head
    <3>1. link1[m] = e /\ \A k \in M1 \ {m} : link1[k] # e
      BY <1>1, <1>4, <2>1, <2>3
    <3> QED
      BY <3>1
  <2> QED
    BY <2>2, <2>3
<1> QED
  BY <1>3, <1>4

(* addToAvailList. *)
LEMMA ListWith ==
    ASSUME NEW M, NEW link, NEW place, ListOf(M, link, place),
           NEW n \in Address \ (M \cup {avail_tail}),
           NEW link1, link1[avail_head] = n, link1[n] = link[avail_head],
           \A m \in M \ {avail_head} : link1[m] = link[m]
    PROVE  \E place1 : ListOf(M \cup {n}, link1, place1)
<1> DEFINE low == place[avail_head]
           place1 == [x \in Address |-> CASE x = avail_head -> low - 1
                                          [] x = n -> low
                                          [] OTHER -> place[x]]
           M1 == M \cup {n}
<1>1. /\ avail_head \in M /\ n # avail_head /\ \A m \in M : place[m] \in Int /\ m \in Address /\ m # n
      /\ n \notin Pointers /\ n # avail_tail /\ low \in Int
      /\ \A m \in M : m \notin Pointers /\ m # avail_tail
      /\ \A m \in M : m # avail_head => low < place[m]
  BY Constants DEF ListOf
<1>2. place1 \in [Address -> Int]
  <2>1. place \in [Address -> Int]
    BY DEF ListOf
  <2> QED
    BY <1>1, <2>1
<1>3. /\ place1[avail_head] = low - 1 /\ place1[n] = low
      /\ \A m \in M \ {avail_head} : place1[m] = place[m]
  BY <1>1
<1> HIDE DEF place1, low
<1>4. ASSUME NEW m \in M1
      PROVE  /\ link1[m] \in (M1 \ {avail_head}) \cup {avail_tail} \cup Pointers
             /\ link1[m] \in M1 => place1[m] < place1[link1[m]]
             /\ m # avail_head => place1[avail_head] < place1[m]
  <2>1. CASE m = avail_head
    BY <1>1, <1>3, <2>1
  <2>2. CASE m = n
    <3>1. link1[n] \in (M \ {avail_head}) \cup {avail_tail} \cup Pointers
      BY <1>1 DEF ListOf
    <3>2. link1[n] \in M1 => link1[n] \in M \ {avail_head}
      BY <1>1, <3>1
    <3> QED
      BY <1>1, <1>3, <2>2, <3>1, <3>2
  <2>3. CASE m \in M \ {avail_head}
    <3>1. link1[m] \in (M \ {avail_head}) \cup {avail_tail} \cup Pointers
          /\ (link1[m] \in M => place[m] < place[link1[m]])
      BY <2>3 DEF ListOf
    <3>2. link1[m] \in M1 => link1[m] \in M \ {avail_head}
      BY <1>1, <3>1
    <3> QED
      BY <1>1, <1>3, <2>3, <3>1, <3>2
  <2> QED
    BY <2>1, <2>2, <2>3
<1>5. ASSUME NEW m \in M1, NEW k \in M1, link1[m] = link1[k], link1[m] \in M1 PROVE m = k
  <2>1. \A x \in M : link[x] # n
    BY <1>1 DEF ListOf
  <2>2. CASE m = avail_head \/ k = avail_head
    <3>1. \A x \in M1 : link1[x] = n => x = avail_head
      BY <1>1, <2>1
    <3> QED
      BY <1>5, <2>2, <3>1
  <2>3. CASE m # avail_head /\ k # avail_head
    <3> DEFINE of(x) == IF x = n THEN avail_head ELSE x
    <3>1. \A x \in M1 \ {avail_head} : of(x) \in M /\ link1[x] = link[of(x)]
      BY <1>1
    <3>2. \A x, y \in M1 \ {avail_head} : of(x) = of(y) => x = y
      BY <1>1
    <3>3. link[of(m)] \in M
      BY <1>5, <2>1, <2>3, <3>1
    <3> QED
      BY <1>5, <2>3, <3>1, <3>2, <3>3 DEF ListOf
  <2> QED
    BY <2>2, <2>3
<1>6. M1 \subseteq Address \ {avail_tail} /\ avail_head \in M1
  BY <1>1 DEF ListOf
<1>7. Complete(M1, link1)
  BY CompleteWith
<1>8. ListOf(M1, link1, place1)
  BY <1>2, <1>4, <1>5, <1>6, <1>7 DEF ListOf
<1> QED
  BY <1>8

LEMMA CompleteInstead ==
    ASSUME NEW M, NEW link, NEW place, ListOf(M, link, place),
           NEW p \in M, link[p] \in M, p # link[p],
           NEW n \in Address \ (M \cup {avail_tail}),
           NEW link1, link1[p] = n, link1[n] = link[link[p]],
           \A m \in M \ {p, link[p]} : link1[m] = link[m]
    PROVE  Complete((M \ {link[p]}) \cup {n}, link1)
<1> DEFINE c == link[p]
           M1 == (M \ {c}) \cup {n}
<1> SUFFICES ASSUME \A m \in M1 : link1[m] \notin Pointers,
                    NEW e \in (M1 \ {avail_head}) \cup {avail_tail}
             PROVE  \E m \in M1 : link1[m] = e /\ \A k \in M1 \ {m} : link1[k] # e
  BY DEF Complete
<1>1. /\ c \in M /\ c # avail_tail /\ c \notin Pointers /\ p \in M1 /\ p # n /\ e # c
      /\ n # c /\ n \notin M /\ n # avail_head
      /\ \A m \in M : link[m] # n
  BY Constants DEF ListOf
<1>2. \A m \in M : link[m] \notin Pointers
  <2> TAKE m \in M
  <2>1. CASE m = p
    BY <1>1, <2>1
  <2>2. CASE m = c
    BY <1>1, <2>2
  <2>3. CASE m \notin {p, c}
    BY <2>3
  <2> QED
    BY <2>1, <2>2, <2>3
<1>3. CASE e = n
  <2>1. \A k \in M1 \ {p} : link1[k] # n
    BY <1>1
  <2> QED
    BY <1>1, <1>3, <2>1
<1>4. CASE e # n
  <2>1. PICK m \in M : link[m] = e /\ \A k \in M \ {m} : link[k] # e
    BY <1>2, <1>4 DEF ListOf, Complete
  <2>2. m # p
    BY <1>1, <2>1
  <2>3. CASE m = c
    <3>1. link1[n] = e /\ \A k \in M1 \ {n} : link1[k] # e
      BY <1>1, <1>4, <2>1, <2>3
    <3> QED
      BY <3>1
  <2>4. CASE m # c
    <3>1. m \in M1 /\ link1[m] = e
      BY <2>1, <2>2, <2>4
    <3>2. \A k \in M1 \ {m} : link1[k] # e
      BY <1>1, <1>4, <2>1, <2>4
    <3> QED
      BY <3>1, <3>2
  <2> QED
    BY <2>3, <2>4
<1> QED
  BY <1>3, <1>4

(* A new member takes the place of one. *)
LEMMA ListInstead ==
    ASSUME NEW M, NEW link, NEW place, ListOf(M, link, place),
           NEW p \in M, link[p] \in M,
           NEW n \in Address \ (M \cup {avail_tail}),
           NEW link1, link1[p] = n, link1[n] = link[link[p]],
           \A m \in M \ {p, link[p]} : link1[m] = link[m]
    PROVE  p # link[p] /\ \E place1 : ListOf((M \ {link[p]}) \cup {n}, link1, place1)
<1> DEFINE c == link[p]
           place1 == [place EXCEPT ![n] = place[c]]
           M1 == (M \ {c}) \cup {n}
<1>1. /\ c \in M /\ c # avail_head /\ place[p] < place[c] /\ n # c /\ n # avail_head /\ avail_head \in M
      /\ \A m \in M : place[m] \in Int /\ m # n /\ m \in Address /\ link[m] # n
      /\ n \notin Pointers
  BY Constants DEF ListOf
<1>2. p # c /\ (link[c] \in M => place[c] < place[link[c]] /\ link[c] # c)
  BY <1>1 DEF ListOf
<1>3. place1 \in [Address -> Int] /\ place1[n] = place[c] /\ \A m \in M : place1[m] = place[m]
  BY <1>1 DEF ListOf
<1> HIDE DEF place1
<1>4. ASSUME NEW m \in M1
      PROVE  /\ link1[m] \in (M1 \ {avail_head}) \cup {avail_tail} \cup Pointers
             /\ link1[m] \in M1 => place1[m] < place1[link1[m]]
             /\ m # avail_head => place1[avail_head] < place1[m]
  <2>1. CASE m = p
    BY <1>1, <1>2, <1>3, <2>1 DEF ListOf
  <2>2. CASE m = n
    <3>1. link[c] \in (M \ {avail_head}) \cup {avail_tail} \cup Pointers
      BY <1>1 DEF ListOf
    <3>2. place[avail_head] < place[c]
      BY <1>1 DEF ListOf
    <3>3. link1[m] = link[c] /\ link[c] # n
      BY <1>1, <2>2
    <3>4. link[c] \in M1 => link[c] \in M
      BY <3>3
    <3> QED
      BY <1>1, <1>2, <1>3, <2>2, <3>1, <3>2, <3>3, <3>4
  <2>3. CASE m \in M \ {p, c}
    <3>1. link1[m] = link[m] /\ link[m] # c /\ link[m] # n
      BY <1>1, <2>3 DEF ListOf
    <3>2. /\ link[m] \in (M \ {avail_head}) \cup {avail_tail} \cup Pointers
          /\ link[m] \in M => place[m] < place[link[m]]
          /\ m # avail_head => place[avail_head] < place[m]
      BY <2>3 DEF ListOf
    <3> QED
      BY <1>1, <1>3, <2>3, <3>1, <3>2
  <2> QED
    BY <2>1, <2>2, <2>3
<1>5. ASSUME NEW m \in M1, NEW k \in M1, link1[m] = link1[k], link1[m] \in M1 PROVE m = k
  <2>1. CASE m = p \/ k = p
    <3>1. \A x \in M1 : link1[x] = n => x = p
      BY <1>1
    <3> QED
      BY <1>5, <2>1, <3>1
  <2>2. CASE m # p /\ k # p
    <3> DEFINE of(x) == IF x = n THEN c ELSE x
    <3>1. \A x \in M1 \ {p} : of(x) \in M /\ link1[x] = link[of(x)]
      BY <1>1
    <3>2. \A x, y \in M1 \ {p} : of(x) = of(y) => x = y
      BY <1>1
    <3>3. link[of(m)] \in M
      BY <1>1, <1>5, <2>2, <3>1
    <3> QED
      BY <1>5, <2>2, <3>1, <3>2, <3>3 DEF ListOf
  <2> QED
    BY <2>1, <2>2
<1>6. M1 \subseteq Address \ {avail_tail} /\ avail_head \in M1
  BY <1>1 DEF ListOf
<1>8. Complete(M1, link1)
  BY <1>2, CompleteInstead
<1> HIDE DEF c
<1>7. ListOf(M1, link1, place1)
  BY <1>3, <1>4, <1>5, <1>6, <1>8 DEF ListOf
<1> QED
  BY <1>2, <1>7 DEF c

(* To begin with, and after defrag. *)
LEMMA ListOfTwo ==
    ASSUME NEW n \in Address \ {avail_head, avail_tail},
           NEW link, link[avail_head] = n, link[n] = avail_tail
    PROVE  \E place : ListOf({avail_head, n}, link, place)
<1> DEFINE place == [x \in Address |-> IF x = avail_head THEN 0 ELSE 1]
<1>1. place \in [Address -> Int] /\ place[avail_head] = 0 /\ place[n] = 1
  BY Constants
<1> HIDE DEF place
<1>2. Complete({avail_head, n}, link)
  <2>1. /\ \A k \in {avail_head, n} \ {avail_head} : link[k] # n
        /\ \A k \in {avail_head, n} \ {n} : link[k] # avail_tail
    OBVIOUS
  <2> QED
    BY <2>1 DEF Complete
<1>3. ListOf({avail_head, n}, link, place)
  BY <1>1, <1>2, Constants, SMTT(30) DEF ListOf
<1> QED
  BY <1>3

(* Clients write over links. *)
LEMMA ListWrittenOver ==
    ASSUME NEW M, NEW link, NEW place, ListOf(M, link, place),
           NEW link1, \A m \in M : link1[m] = link[m] \/ link1[m] \in Pointers
    PROVE  ListOf(M, link1, place)
<1>1. Complete(M, link1)
  <2> SUFFICES ASSUME \A m \in M : link1[m] \notin Pointers
               PROVE  \A e \in (M \ {avail_head}) \cup {avail_tail} :
                          \E m \in M : link1[m] = e /\ \A n \in M \ {m} : link1[n] # e
    BY DEF Complete
  <2>1. \A m \in M : link1[m] = link[m]
    OBVIOUS
  <2>2. \A m \in M : link[m] \notin Pointers
    BY <2>1
  <2> QED
    BY <2>1, <2>2 DEF ListOf, Complete
<1> QED
  BY <1>1, Constants DEF ListOf

-----------------------------------------------------------------------------
(* What the calls do to the row and to the list *)

LEMMA LiveRow ==
    ASSUME TypeOK, Descriptors, Row
    PROVE  /\ Live \subseteq Address \ {avail_tail} /\ avail_head \in Live
           /\ \A e \in Live : /\ child[e] \in (Live \ {avail_head}) \cup {avail_tail}
                              /\ start[e] \in Int /\ start[child[e]] \in Int
                              /\ mem_start <= start[e] /\ start[e] <= start[child[e]]
                              /\ start[child[e]] <= start[avail_tail]
           /\ \A e, f \in Live : child[e] = child[f] => e = f
           /\ start[avail_tail] \in Address
<1>1. PICK rank : ChainOf(Live, child, rank) /\ Placed(Live, rank, start, Ends, start[avail_tail])
  BY DEF Row
<1>2. \A e \in Live : e \in Address /\ Ends[e] = start[child[e]]
  BY DEF Live, Ends
<1>3. \A e \in Live : mem_start <= start[e]
  <2> TAKE e \in Live
  <2>1. CASE e = avail_head
    BY <2>1, Constants DEF Descriptors
  <2>2. CASE e # avail_head
    <3>1. start[e] >= mem_start + 1
      BY <1>1, <2>2, BehindHead
    <3>2. start[e] \in Int
      BY <1>1 DEF Placed
    <3> QED
      BY <3>1, <3>2, Constants
  <2> QED
    BY <2>1, <2>2
<1>4. \A e \in Live : /\ start[e] \in Int /\ start[child[e]] \in Int
                      /\ start[e] <= start[child[e]] /\ start[child[e]] <= start[avail_tail]
  BY <1>1, <1>2 DEF Placed
<1>5. start[avail_tail] \in Address
  <2>1. avail_head \in Live /\ start[avail_tail] \in Address \cup {nullptr}
    BY <1>1, Constants DEF ChainOf, TypeOK
  <2>2. mem_start <= start[avail_tail]
    BY <1>3, <1>4, <2>1, Constants DEF TypeOK
  <2> QED
    BY <2>1, <2>2, Constants
<1> QED
  BY <1>1, <1>3, <1>4, <1>5, OneBefore DEF ChainOf

(* The block behind e is absorbed. *)
LEMMA AbsorbedRow ==
    ASSUME TypeOK, Descriptors, Row,
           NEW e \in Live, e # avail_head, child[e] # avail_tail,
           child' = Absorbed(e, child[e]), start' = start
    PROVE  /\ child' \in [Address -> Address \cup {nullptr}]
           /\ child[e] \in Live /\ Live' = Live \ {child[e]}
           /\ Row'
           /\ \A x \in Live \ {child[e]} : Ends[x] <= Ends'[x] /\ Ends[x] \in Int /\ Ends'[x] \in Int
           /\ \A x \in Live \ {e, child[e]} : Ends'[x] = Ends[x]
<1> DEFINE b == child[e]
<1>1. PICK rank : ChainOf(Live, child, rank) /\ Placed(Live, rank, start, Ends, start[avail_tail])
  BY DEF Row
<1>2. b \in Live /\ b # e /\ e \in Address /\ b \in Address /\ child[b] # nullptr /\ e # nullptr
  <2>1. b \in Live
    BY LiveRow
  <2>2. rank[e] < rank[b] /\ rank[e] \in Int
    BY <1>1 DEF ChainOf
  <2> QED
    BY <2>1, <2>2, Constants DEF Live, IsBlock
<1>3. /\ child' \in [Address -> Address \cup {nullptr}]
      /\ child'[e] = child[b] /\ child'[b] = nullptr
      /\ \A x \in Address \ {e, b} : child'[x] = child[x]
  BY <1>2 DEF Absorbed, TypeOK
<1>4. Live' = Live \ {b}
  BY <1>2, <1>3 DEF Live, IsBlock
<1>5. ChainOf(Live \ {b}, child', rank)
  BY <1>1, <1>2, <1>3, ChainWithout DEF Live
<1>6. /\ Ends'[e] = Ends[b] /\ \A x \in Live \ {e, b} : Ends'[x] = Ends[x]
      /\ \A x \in Live : Ends[x] = start[child[x]]
  BY <1>2, <1>3 DEF Ends, Live
<1>7. Placed(Live \ {b}, rank, start, Ends', start[avail_tail])
  BY <1>1, <1>2, <1>6, PlacedWithout
<1>8. \A x \in Live \ {b} : IsLast(x)' => start[x] < start[avail_tail]
  <2> SUFFICES ASSUME NEW x \in Live \ {b}, child'[x] = avail_tail PROVE start[x] < start[avail_tail]
    BY DEF IsLast
  <2>1. CASE x = e
    <3>1. IsLast(b)
      BY <1>3, <2>1 DEF IsLast
    <3>2. start[b] < start[avail_tail]
      BY <1>2, <3>1 DEF Row
    <3> QED
      BY <1>2, <2>1, <3>2, LiveRow, Constants
  <2>2. CASE x # e
    BY <1>3, <2>2 DEF Row, IsLast, Live
  <2> QED
    BY <2>1, <2>2
<1>11. Covered(Live, Ends, start[avail_tail])'
  <2> SUFFICES ASSUME NEW w \in mem_start + 1 .. start[avail_tail] - 1
               PROVE  \E x \in Live \ {b} : start[x] <= w /\ w < Ends'[x]
    BY <1>4 DEF Covered
  <2>1. PICK x \in Live : start[x] <= w /\ w < Ends[x]
    BY DEF Row, Covered
  <2>2. w \in Int /\ start[e] \in Int /\ start[b] \in Int /\ Ends[e] = start[b]
        /\ Ends[b] \in Int /\ start[e] <= start[b] /\ start[b] <= Ends[b]
    <3>1. w \in Int
      BY LiveRow, Constants
    <3> QED
      BY <1>2, <1>6, <3>1, LiveRow
  <2>3. CASE x = b \/ x = e
    <3>1. start[e] <= w /\ w < Ends'[e]
      BY <1>6, <2>1, <2>2, <2>3
    <3> QED
      BY <1>2, <3>1
  <2>4. CASE x # b /\ x # e
    BY <1>6, <2>1, <2>4
  <2> QED
    BY <2>3, <2>4
<1>9. Row'
  BY <1>4, <1>5, <1>7, <1>8, <1>11 DEF Row
<1>10. ASSUME NEW x \in Live \ {b}
       PROVE Ends[x] <= Ends'[x] /\ Ends[x] \in Int /\ Ends'[x] \in Int
  BY <1>2, <1>6, LiveRow
<1> QED
  BY <1>2, <1>3, <1>4, <1>6, <1>9, <1>10

(* A new descriptor, and a block of the words of e's behind the first n. *)
LEMMA SplitRow ==
    ASSUME TypeOK, Descriptors, Row,
           NEW e \in Live, e # avail_head, NEW n \in Nat, start[e] + n <= start[child[e]],
           start[e] + n < NewElem,
           \A last \in Address : IsLast(last) => HasRoom(last),
           Split(e, n)
    PROVE  /\ start' \in [Address -> Address \cup {nullptr}]
           /\ child' \in [Address -> Address \cup {nullptr}]
           /\ last_before_sys' \in Address
           /\ NewElem \in Address /\ NewElem \notin Live \cup Members
           /\ NewElem < start[avail_tail]
           /\ start'[avail_tail] = NewElem /\ start'[NewElem] = start[e] + n
           /\ \A x \in Address \ {avail_tail, NewElem} : start'[x] = start[x]
           /\ Live' = Live \cup {NewElem}
           /\ Row'
           /\ Ends'[e] = start[e] + n
           /\ Ends'[NewElem] = IF IsLast(e) THEN NewElem ELSE Ends[e]
           /\ \A x \in Live \ {e} : Ends'[x] = IF IsLast(x) THEN NewElem ELSE Ends[x]
           /\ \A x \in Live : IsLast(x) => start[x] < NewElem
<1> DEFINE d == NewElem
           border == start[avail_tail]
           m == start[e] + n
<1>1. PICK rank : ChainOf(Live, child, rank) /\ Placed(Live, rank, start, Ends, border)
  BY DEF Row
<1>2. e \in Address /\ border \in Address /\ start[e] \in Int /\ mem_start <= start[e]
      /\ border <= avail_tail /\ d = border - 2
  BY LiveRow DEF Descriptors, Live, NewElem
<1>3. /\ d \in Address /\ m \in Address /\ d < border /\ d # avail_tail /\ d # avail_head /\ d # e
      /\ d \notin Live \cup Members
  <2>1. d \in Address /\ m \in Address /\ d < border /\ d # avail_tail /\ d # avail_head
    BY <1>2, Constants, SMTT(30)
  <2>2. d \notin Live \cup Members
    BY <1>2, <2>1, Constants DEF Descriptors, Live, Members
  <2> QED
    BY <2>1, <2>2
<1> HIDE DEF d
<1>4. /\ start' \in [Address -> Address \cup {nullptr}]
      /\ start'[avail_tail] = d /\ start'[d] = m
      /\ \A x \in Address \ {avail_tail, d} : start'[x] = start[x]
  BY <1>3, Constants DEF Split, TypeOK, d
<1>5. /\ child' \in [Address -> Address \cup {nullptr}]
      /\ child'[e] = d /\ child'[d] = child[e]
      /\ \A x \in Address \ {e, d} : child'[x] = child[x]
  <2>1. child' = [child EXCEPT ![d] = child[e], ![e] = d]
    BY DEF Split, d
  <2> QED
    BY <1>2, <1>3, <2>1 DEF TypeOK
<1>6. Live' = Live \cup {d}
  <2>1. child[e] # nullptr /\ d # nullptr
    BY <1>3, Constants DEF Live, IsBlock
  <2> QED
    BY <1>2, <1>3, <1>5, <2>1 DEF Live, IsBlock
<1>7. last_before_sys' \in Address /\ \E last \in Live : child[last] = avail_tail
  <2>1. PICK last \in Address : IsLast(last) /\ last_before_sys' = last
    BY DEF Split
  <2> QED
    BY <2>1, Constants DEF IsLast, Live, IsBlock
<1>8. \A x \in Live : IsLast(x) => start[x] < d
  <2> SUFFICES ASSUME NEW x \in Live, IsLast(x) PROVE start[x] < d
    OBVIOUS
  <2>1. HasRoom(x) /\ start[x] < border /\ start[x] \in Int
    BY LiveRow DEF Row, Live
  <2>2. SizeOf(x) = border - start[x]
    BY DEF SizeOf, IsLast
  <2> QED
    BY <1>2, <1>3, <2>1, <2>2, Constants, SMTT(30) DEF HasRoom
<1>9. /\ Ends'[e] = m
      /\ Ends'[d] = IF child[e] = avail_tail THEN d ELSE Ends[e]
      /\ \A x \in Live \ {e} : Ends'[x] = IF child[x] = avail_tail THEN d ELSE Ends[x]
      /\ \A x \in Live : Ends[x] = start[child[x]]
  <2>1. \A x \in Live : child[x] \in Live \cup {avail_tail} /\ x \in Address /\ child[x] # d
    BY <1>3, LiveRow DEF Live
  <2>2. \A x \in Address : Ends'[x] = start'[child'[x]] /\ Ends[x] = start[child[x]]
    BY DEF Ends
  <2>3. \A x \in Live : start'[child[x]] = IF child[x] = avail_tail THEN d ELSE start[child[x]]
    BY <1>4, <2>1, Constants DEF Live
  <2>4. Ends'[e] = m
    BY <1>2, <1>4, <1>5, <2>2
  <2>5. Ends'[d] = IF child[e] = avail_tail THEN d ELSE Ends[e]
    BY <1>2, <1>3, <1>5, <2>2, <2>3
  <2>6. ASSUME NEW x \in Live \ {e} PROVE Ends'[x] = IF child[x] = avail_tail THEN d ELSE Ends[x]
    <3>1. child'[x] = child[x]
      BY <1>3, <1>5, <2>1
    <3> QED
      BY <2>1, <2>2, <2>3, <3>1
  <2> QED
    BY <2>1, <2>2, <2>4, <2>5, <2>6
<1>10. \E rank1 : /\ ChainOf(Live \cup {d}, child', rank1)
                  /\ Placed(Live \cup {d}, rank1, start', Ends', d)
  <2>1. d \in Int /\ border \in Int /\ d <= border /\ m \in Int /\ start[e] <= m /\ m <= Ends[e]
    BY <1>2, <1>3, <1>9, Constants, SMTT(30)
  <2>2. \A x \in Live : child[x] = avail_tail => start[x] < d /\ (x = e => m < d)
    BY <1>8 DEF IsLast, d
  <2>3. d \in Address \ (Live \cup {avail_tail})
    BY <1>3
  <2>4. \A x \in Live : start'[x] = start[x]
    BY <1>3, <1>4, LiveRow DEF Live
  <2>5. \A x \in Live \ {e} : child'[x] = child[x]
    BY <1>3, <1>5 DEF Live
  <2> HIDE DEF m
  <2> QED
    BY <1>1, <1>4, <1>5, <1>7, <1>9, <2>1, <2>2, <2>3, <2>4, <2>5, ChainWith
<1>11. \A x \in Live' : IsLast(x)' => start'[x] < start'[avail_tail]
  <2> SUFFICES ASSUME NEW x \in Live \cup {d}, child'[x] = avail_tail PROVE start'[x] < d
    BY <1>4, <1>6 DEF IsLast
  <2>1. CASE x = d
    BY <1>4, <2>1 DEF d
  <2>2. CASE x = e
    BY <1>3, <1>5, <2>2
  <2>3. CASE x \in Live \ {e}
    <3>1. x \in Address \ {e, d, avail_tail}
      BY <1>3, <2>3, LiveRow
    <3> QED
      BY <1>4, <1>5, <1>8, <2>3, <3>1 DEF IsLast
  <2> QED
    BY <2>1, <2>2, <2>3
<1>13. Covered(Live, Ends, start[avail_tail])'
  <2> SUFFICES ASSUME NEW w \in mem_start + 1 .. d - 1
               PROVE  \E x \in Live \cup {d} : start'[x] <= w /\ w < Ends'[x]
    BY <1>4, <1>6 DEF Covered
  <2>1. w \in mem_start + 1 .. start[avail_tail] - 1 /\ w \in Int /\ w < d
    BY <1>2, <1>3, Constants, SMTT(30)
  <2>2. PICK x \in Live : start[x] <= w /\ w < Ends[x]
    BY <2>1 DEF Row, Covered
  <2>3. start'[x] = start[x] /\ x # d
    BY <1>3, <1>4, LiveRow DEF Live
  <2>4. CASE x # e
    BY <1>9, <2>1, <2>2, <2>3, <2>4
  <2>5. CASE x = e /\ w < m
    BY <1>9, <2>2, <2>3, <2>5
  <2>6. CASE x = e /\ ~ (w < m)
    <3>1. m \in Int /\ start'[d] = m /\ m <= w
      BY <1>2, <1>4, <2>1, <2>6
    <3>2. w < Ends'[d]
      BY <1>9, <2>1, <2>2, <2>6
    <3> QED
      BY <3>1, <3>2
  <2> QED
    BY <2>4, <2>5, <2>6
<1>12. Row'
  BY <1>4, <1>6, <1>10, <1>11, <1>13 DEF Row
<1> QED
  BY <1>3, <1>4, <1>5, <1>6, <1>7, <1>8, <1>9, <1>12 DEF IsLast, d

LEMMA LinkLeadsOn ==
    ASSUME TypeOK, FreeList, NEW p \in Members
    PROVE  /\ p \in Address /\ start[p] \in Address
           /\ next(p) \in (Members \ {avail_head}) \cup {avail_tail} \cup Pointers
           /\ avail_head \in Members /\ avail_tail \notin Members
  BY DEF FreeList, MembersApart, ListOf, Members, Links, next

(* A member leaves the list. *)
LEMMA UnlinkedList ==
    ASSUME TypeOK, FreeList, NEW p \in Members, NEW c \in Members, c = next(p),
           word' = Unlinked(p, c), Members' = Members \ {c},
           \A m \in Members \ {c} : start'[m] = start[m]
    PROVE  /\ word' \in [Address -> Address \cup {nullptr} \cup Pointers]
           /\ FreeList' /\ p \in Members' /\ c # avail_head /\ next(p)' = next(c)
<1>1. PICK place : ListOf(Members, Links, place)
  BY DEF FreeList
<1>2. /\ p \in Address /\ c \in Address /\ start[p] \in Address /\ start[c] \in Address
      /\ c # avail_head
  BY LinkLeadsOn, Constants
<1>3. \A m \in Members : m \in Address /\ start[m] \in Address /\ Links[m] = word[start[m]]
  BY DEF FreeList, MembersApart, Members, Links
<1>4. p # Links[p] /\ Links[p] = c /\ Links[p] \in Members
  BY <1>1, <1>2, <1>3, ListWithout DEF next
<1>5. /\ word' \in [Address -> Address \cup {nullptr} \cup Pointers]
      /\ word'[start[p]] = word[start[c]]
      /\ \A w \in Address \ {start[p]} : word'[w] = word[w]
  BY <1>2 DEF Unlinked, next, TypeOK
<1>6. /\ Links'[p] = Links[c]
      /\ \A m \in Members \ {p, c} : Links'[m] = Links[m]
  <2>1. \A m \in Members \ {p} : start[m] # start[p]
    BY DEF FreeList, MembersApart
  <2>2. \A m \in Members \ {c} : Links'[m] = word'[start[m]]
    BY <1>3 DEF Links
  <2> QED
    BY <1>2, <1>3, <1>4, <1>5, <2>1, <2>2
<1>7. ListOf(Members', Links', place)
  BY <1>1, <1>4, <1>6, ListWithout
<1>8. MembersApart'
  BY <1>2, <1>3 DEF FreeList, MembersApart
<1>9. next(p)' = next(c) /\ p \in Members'
  BY <1>2, <1>4, <1>5 DEF next
<1> QED
  BY <1>2, <1>5, <1>7, <1>8, <1>9 DEF FreeList

(* addToAvailList; the words that hold no links may have changed before. *)
LEMMA AddedList ==
    ASSUME TypeOK, Descriptors, FreeList, NEW n \in Address \ (Members \cup {avail_tail}),
           NEW at \in Address, ~ IsLink(at),
           NEW words \in [Address -> Address \cup {nullptr} \cup Pointers],
           \A m \in Members : words[start[m]] = word[start[m]],
           word' = AddToAvailList(words, n, at), Members' = Members \cup {n},
           start'[n] = at, \A m \in Members : start'[m] = start[m]
    PROVE  word' \in [Address -> Address \cup {nullptr} \cup Pointers] /\ FreeList'
<1>1. PICK place : ListOf(Members, Links, place)
  BY DEF FreeList
<1>2. /\ mem_start \in Address /\ avail_head \in Members /\ n # avail_head
      /\ start[avail_head] = mem_start
  BY Constants DEF Descriptors, Members
<1>3. \A m \in Members : m \in Address /\ start[m] \in Address /\ Links[m] = word[start[m]]
                         /\ start[m] # at
  BY DEF FreeList, MembersApart, Members, Links, IsLink
<1>4. at # mem_start
  BY <1>2, <1>3
<1>5. /\ word' \in [Address -> Address \cup {nullptr} \cup Pointers]
      /\ word'[at] = words[mem_start] /\ word'[mem_start] = n
      /\ \A w \in Address \ {at, mem_start} : word'[w] = words[w]
  BY <1>2, <1>4 DEF AddToAvailList
<1>6. \A m \in Members \ {avail_head} : start[m] # mem_start
  BY <1>2 DEF FreeList, MembersApart
<1>7. /\ Links'[avail_head] = n /\ Links'[n] = Links[avail_head]
      /\ \A m \in Members \ {avail_head} : Links'[m] = Links[m]
  <2>1. \A m \in Members \cup {n} : Links'[m] = word'[start'[m]]
    BY <1>3 DEF Links
  <2> QED
    BY <1>2, <1>3, <1>5, <1>6, <2>1
<1>8. \E place1 : ListOf(Members', Links', place1)
  BY <1>1, <1>7, ListWith
<1>9. MembersApart'
  BY <1>3 DEF FreeList, MembersApart
<1> QED
  BY <1>5, <1>8, <1>9 DEF FreeList

(* A new member comes in the place of c. *)
LEMMA ReplacedList ==
    ASSUME TypeOK, FreeList, NEW p \in Members, NEW c \in Members, c = next(p),
           NEW n \in Address \ (Members \cup {avail_tail}), NEW at \in Address, ~ IsLink(at),
           word' = [word EXCEPT ![at] = next(c), ![start[p]] = n],
           Members' = (Members \ {c}) \cup {n},
           start'[n] = at, \A m \in Members : start'[m] = start[m]
    PROVE  word' \in [Address -> Address \cup {nullptr} \cup Pointers] /\ FreeList'
<1>1. PICK place : ListOf(Members, Links, place)
  BY DEF FreeList
<1>3. \A m \in Members : m \in Address /\ start[m] \in Address /\ Links[m] = word[start[m]]
                         /\ start[m] # at
  BY DEF FreeList, MembersApart, Members, Links, IsLink
<1>2. start[p] # at /\ start[p] \in Address /\ start[c] \in Address /\ start[c] # at
  BY <1>3
<1>4. p # Links[p] /\ Links[p] = c /\ Links[p] \in Members
  <2>1. Links[p] = c
    BY <1>3 DEF next
  <2>2. p # Links[p]
    BY <1>1, <2>1 DEF ListOf
  <2> QED
    BY <2>1, <2>2
<1>5. /\ word' \in [Address -> Address \cup {nullptr} \cup Pointers]
      /\ word'[at] = word[start[c]] /\ word'[start[p]] = n
      /\ \A w \in Address \ {at, start[p]} : word'[w] = word[w]
  BY <1>2 DEF next, TypeOK
<1>6. /\ Links'[p] = n /\ Links'[n] = Links[c]
      /\ \A m \in Members \ {p, c} : Links'[m] = Links[m]
  <2>1. \A m \in Members \cup {n} : Links'[m] = word'[start'[m]]
    BY <1>3 DEF Links
  <2>2. \A m \in Members \ {p} : start[m] # start[p]
    BY DEF FreeList, MembersApart
  <2> QED
    BY <1>2, <1>3, <1>5, <2>1, <2>2
<1>7. \E place1 : ListOf(Members', Links', place1)
  BY <1>1, <1>4, <1>6, ListInstead
<1>8. MembersApart'
  BY <1>3 DEF FreeList, MembersApart
<1> QED
  BY <1>5, <1>7, <1>8 DEF FreeList

-----------------------------------------------------------------------------
(* Steps *)

Types ==
    /\ start \in [Address -> Address \cup {nullptr}]
    /\ isFree \in [Address -> BOOLEAN]
    /\ child \in [Address -> Address \cup {nullptr}]
    /\ word \in [Address -> Address \cup {nullptr} \cup Pointers]
    /\ last_before_sys \in Address
    /\ elem \in [Pointers -> Address \cup {nullptr}]
    /\ asked \in [Pointers -> 0 .. MaxSize]
    /\ tangled \in BOOLEAN

(* The head is a member, the end is none. *)
LEMMA MembersPlaced ==
    ASSUME Tidy
    PROVE  /\ avail_head \in Members /\ avail_tail \notin Members
           /\ \A m \in Members : m \in Address /\ start[m] \in Address
  BY Constants DEF Tidy, Located, Descriptors, Members

(* A write that is onto no link leaves the list what it was. *)
LEMMA NoTangle ==
    ASSUME TypeOK, Tidy, NEW w, tangled' = Tangles(w)
    PROVE  tangled' \in BOOLEAN /\ (~ tangled' => FreeList /\ ~ IsLink(w))
<1>1. tangled' = (tangled \/ IsLink(w))
  BY DEF Tangles
<1>2. tangled \/ FreeList
  BY DEF Tidy, Listed
<1>3. tangled' \in BOOLEAN
  BY <1>1
<1>4. ASSUME ~ tangled' PROVE ~ tangled /\ ~ IsLink(w)
  BY <1>1, <1>4
<1> QED
  BY <1>2, <1>3, <1>4

LEMMA TidyAfter == ASSUME Types', Tidy' PROVE Inv'
<1>1. call'.op \in {"none", "alloc", "join", "joined", "move", "copy"}
  BY DEF Tidy, CallGoesOn, NoCall, Request, Growth, Transfer
<1> QED
  BY <1>1 DEF Inv, Types, TypeOK, Failures

LEMMA StopInv ==
    ASSUME TypeOK, NEW failure \in Failures, Stop(failure)
    PROVE  Inv'
  BY DEF Stop, Inv, TypeOK, Failures, blocks, memory, clients

(* Only the call goes on; the last block may have been found. *)
LEMMA CallInv ==
    ASSUME TypeOK, Tidy, UNCHANGED <<start, isFree, child, memory, clients>>,
           last_before_sys' \in Address, CallGoesOn'
    PROVE  Inv'
<1>1. Types'
  BY DEF Types, TypeOK, memory, clients
<1>2. Tidy'
  <2>1. Live' = Live /\ Ends' = Ends /\ Members' = Members /\ Links' = Links
    BY DEF Live, IsBlock, Ends, Members, Links, memory
  <2>2. Descriptors' /\ Row'
    BY <2>1 DEF Tidy, Descriptors, Row, Covered, IsBlock, IsLast
  <2>3. Located' /\ Listed'
    BY <2>1 DEF Tidy, Located, Listed, FreeList, MembersApart, memory
  <2>4. Owned(Live, Ends)'
    BY <2>1 DEF Tidy, Owned, clients
  <2> QED
    BY <2>2, <2>3, <2>4 DEF Tidy
<1> QED
  BY <1>1, <1>2, TidyAfter

LEMMA SearchGoesOn ==
    ASSUME TypeOK, Tidy, Searching
    PROVE  /\ FreeList /\ ~ tangled
           /\ call \in Request /\ call.prev \in Members /\ call.cur = next(call.prev)
           /\ call.op = "alloc" => elem[call.p] = nullptr
           /\ call.op = "move" => elem[call.p] # nullptr
  BY DEF Tidy, Listed, CallGoesOn, Searching, NoCall, Growth, Transfer

LEMMA AtMember ==
    ASSUME TypeOK, Tidy, AtBlock
    PROVE  /\ FreeList /\ ~ tangled
           /\ call.cur \in Members /\ call.cur # avail_head /\ call.cur \in Address
<1>1. FreeList /\ ~ tangled /\ call \in Request /\ call.prev \in Members /\ call.cur = next(call.prev)
  BY SearchGoesOn DEF AtBlock
<1>2. call.cur \in (Members \ {avail_head}) \cup {avail_tail} \cup Pointers
  BY <1>1, LinkLeadsOn
<1> QED
  BY <1>1, <1>2, Constants DEF AtBlock

LEMMA SearchStarts ==
    ASSUME TypeOK, Tidy, NEW p \in Pointers, NEW n \in 0 .. MaxSize, NEW op \in {"alloc", "move"},
           Search(op, p, n), UNCHANGED <<blocks, memory, clients>>,
           op = "alloc" => elem[p] = nullptr, op = "move" => elem[p] # nullptr
    PROVE  Inv'
<1>1. CASE tangled
  <2>1. Stop("astray")
    BY <1>1 DEF Search, Stop
  <2> QED
    BY <2>1, StopInv DEF Failures
<1>2. CASE ~ tangled
  <2>1. /\ call' = [op |-> op, p |-> p, size |-> n, prev |-> avail_head, cur |-> word[mem_start]]
        /\ start' = start /\ word' = word /\ elem' = elem /\ isFree' = isFree
        /\ last_before_sys' = last_before_sys /\ tangled' = tangled
    BY <1>2 DEF Search, blocks, memory, clients
  <2>2. avail_head \in Members /\ start[avail_head] = mem_start
    BY Constants DEF Tidy, Descriptors, Members
  <2>3. next(avail_head) \in Address \cup Pointers /\ next(avail_head) = word[mem_start]
    <3>1. next(avail_head) \in (Members \ {avail_head}) \cup {avail_tail} \cup Pointers
      BY <1>2, <2>2, LinkLeadsOn DEF Tidy, Listed
    <3> QED
      BY <2>2, <3>1, Constants DEF Members, next
  <2>4. call' \in Request /\ call'.prev = avail_head /\ call'.cur = word[mem_start]
        /\ call'.p = p /\ call'.op = op
    BY <2>1, <2>3, Constants DEF Request
  <2>5. avail_head \in Members' /\ next(avail_head)' = word[mem_start]
    BY <2>1, <2>2, <2>3 DEF Members, next
  <2>6. CallGoesOn'
    BY <1>2, <2>1, <2>4, <2>5 DEF CallGoesOn, next
  <2> QED
    BY <2>6, CallInv DEF blocks, TypeOK
<1> QED
  BY <1>1, <1>2

LEMMA AllocInv ==
    ASSUME TypeOK, Tidy, NEW p \in Pointers, NEW n \in 0 .. MaxSize, Alloc(p, n) PROVE Inv'
  BY SearchStarts DEF Alloc

LEMMA GrowElsewhereInv == ASSUME TypeOK, Tidy, GrowElsewhere PROVE Inv'
<1>1. call \in Growth /\ elem[call.p] # nullptr
  BY DEF Tidy, CallGoesOn, GrowElsewhere, NoCall, Request, Transfer
<1>2. call.p \in Pointers /\ call.size \in 0 .. MaxSize
  BY <1>1 DEF Growth
<1> QED
  BY <1>1, <1>2, SearchStarts DEF GrowElsewhere

LEMMA SearchFailsInv == ASSUME TypeOK, Tidy, SearchFails PROVE Inv'
<1>1. CallGoesOn'
  BY DEF SearchFails, Return, CallGoesOn
<1> QED
  BY <1>1, CallInv DEF SearchFails, blocks, TypeOK

LEMMA FoundLast == ASSUME NoRoom PROVE last_before_sys' \in Address
  BY DEF NoRoom

LEMMA TakePartFailsInv == ASSUME TypeOK, Tidy, TakePartFails PROVE Inv'
<1>1. CallGoesOn'
  BY DEF TakePartFails, Return, CallGoesOn
<1> QED
  BY <1>1, CallInv, FoundLast DEF TakePartFails

LEMMA AdvanceInv == ASSUME TypeOK, Tidy, Advance PROVE Inv'
<1>1. call.cur \in Members /\ call.cur # avail_head /\ call.cur \in Address /\ call \in Request
      /\ FreeList /\ ~ tangled
      /\ (call.op = "alloc" => elem[call.p] = nullptr)
      /\ (call.op = "move" => elem[call.p] # nullptr)
  BY AtMember, SearchGoesOn DEF Advance, TooSmall, AtBlock
<1>2. next(call.cur) \in Address \cup Pointers
  <2>1. next(call.cur) \in (Members \ {avail_head}) \cup {avail_tail} \cup Pointers
    BY <1>1, LinkLeadsOn
  <2> QED
    BY <2>1, Constants DEF Members
<1>3. /\ call' = [call EXCEPT !.prev = call.cur, !.cur = next(call.cur)]
      /\ start' = start /\ word' = word /\ elem' = elem /\ isFree' = isFree
      /\ last_before_sys' = last_before_sys /\ tangled' = tangled
  BY DEF Advance, blocks, memory, clients
<1>4. call' \in Request /\ call'.prev = call.cur /\ call'.cur = next(call.cur)
      /\ call'.op = call.op /\ call'.p = call.p
  BY <1>1, <1>2, <1>3 DEF Request
<1>5. call'.prev \in Members' /\ call'.cur = word'[start'[call'.prev]]
  BY <1>1, <1>3, <1>4 DEF Members, next
<1>6. CallGoesOn'
  BY <1>1, <1>3, <1>4, <1>5 DEF CallGoesOn, next
<1> QED
  BY <1>6, CallInv DEF Advance, blocks, TypeOK

LEMMA JoinEndsInv == ASSUME TypeOK, Tidy, JoinEnds PROVE Inv'
<1>1. call \in Growth /\ elem[call.p] # nullptr
  BY DEF Tidy, CallGoesOn, JoinEnds, NoCall, Request, Transfer
<1>2. call' = [call EXCEPT !.op = "joined"]
  BY DEF JoinEnds
<1>3. call' \in Growth /\ call'.p = call.p
  BY <1>1, <1>2 DEF Growth
<1>4. CallGoesOn'
  BY <1>1, <1>3 DEF JoinEnds, CallGoesOn, clients
<1>5. call.p \in Pointers /\ elem[call.p] \in Address
  BY <1>1 DEF Growth, TypeOK
<1> QED
  BY <1>4, <1>5, CallInv DEF JoinEnds, TypeOK

(* One free block is absorbed by e: by the search, or by a realloc. *)
LEMMA AbsorbInv ==
    ASSUME TypeOK, Tidy, NEW e \in Live, e # avail_head,
           child[e] # avail_tail, isFree[child[e]], child' = Absorbed(e, child[e]),
           UNCHANGED <<start, isFree, memory, clients, call>>, last_before_sys' \in Address,
           call.op # "copy"
    PROVE  Inv'
<1>1. /\ child' \in [Address -> Address \cup {nullptr}]
      /\ child[e] \in Live /\ Live' = Live \ {child[e]}
      /\ Row'
      /\ \A x \in Live \ {child[e]} : Ends[x] <= Ends'[x] /\ Ends[x] \in Int /\ Ends'[x] \in Int
  BY AbsorbedRow DEF Tidy
<1>2. Types'
  BY <1>1 DEF Types, TypeOK, memory, clients
<1>3. Descriptors'
  <2>1. \A x \in Address : IsBlock(x)' => IsBlock(x)
    BY <1>1 DEF Live
  <2> QED
    BY <2>1 DEF Tidy, Descriptors
<1>4. Located' /\ Listed'
  <2>1. Members' = Members /\ Links' = Links
    BY DEF Members, Links, memory
  <2> QED
    BY <2>1 DEF Tidy, Located, Listed, FreeList, MembersApart, memory
<1>5. Owned(Live, Ends)'
  <2> SUFFICES ASSUME NEW p \in Pointers, elem[p] # nullptr
               PROVE  /\ elem[p] \in Live' /\ ~ isFree[elem[p]]
                      /\ \A q \in Pointers \ {p} : elem[q] # elem[p]
                      /\ asked[p] <= Ends'[elem[p]] - start[elem[p]]
    BY DEF Owned, clients
  <2>1. /\ elem[p] \in Live /\ ~ isFree[elem[p]]
        /\ \A q \in Pointers \ {p} : elem[q] # elem[p]
        /\ asked[p] <= Ends[elem[p]] - start[elem[p]]
    BY DEF Tidy, Owned
  <2>2. elem[p] \in Live \ {child[e]}
    BY <2>1
  <2>3. Ends[elem[p]] <= Ends'[elem[p]] /\ Ends[elem[p]] \in Int /\ Ends'[elem[p]] \in Int
    BY <1>1, <2>2
  <2>4. start[elem[p]] \in Int /\ asked[p] \in Int
    BY <2>1, LiveRow, AllocatorAssumption DEF Tidy, TypeOK
  <2> QED
    BY <1>1, <2>1, <2>2, <2>3, <2>4
<1>6. CallGoesOn'
  <2>1. \/ call = NoCall
        \/ /\ call \in Request /\ ~ tangled
           /\ call.prev \in Members /\ call.cur = next(call.prev)
           /\ call.op = "alloc" => elem[call.p] = nullptr
           /\ call.op = "move" => elem[call.p] # nullptr
        \/ call \in Growth /\ elem[call.p] # nullptr
    BY DEF Tidy, CallGoesOn, Transfer
  <2> QED
    BY <2>1 DEF CallGoesOn, Members, next, memory, clients
<1> QED
  BY <1>1, <1>2, <1>3, <1>4, <1>5, <1>6, TidyAfter DEF Tidy

LEMMA MergeInv == ASSUME TypeOK, Tidy, Merge PROVE Inv'
<1>1. call.cur \in Address /\ call.cur # avail_head /\ IsBlock(call.cur) /\ call.op # "copy"
  BY AtMember DEF Merge, TooSmall, AtBlock, Searching
<1>2. call.cur \in Live
  BY <1>1 DEF Live
<1>3. last_before_sys' \in Address
  BY <1>1 DEF Merge, TypeOK
<1> QED
  BY <1>1, <1>2, <1>3, AbsorbInv DEF Merge

LEMMA JoinInv == ASSUME TypeOK, Tidy, Join PROVE Inv'
<1>1. call \in Growth /\ elem[call.p] # nullptr
  BY DEF Tidy, CallGoesOn, Join, NoCall, Request, Transfer
<1>2. elem[call.p] \in Live /\ ~ isFree[elem[call.p]]
  BY <1>1 DEF Growth, Tidy, Owned
<1>3. elem[call.p] # avail_head
  BY <1>2 DEF Tidy, Descriptors
<1>4. last_before_sys' \in Address /\ call.op # "copy"
  BY DEF Join, TypeOK
<1> QED
  BY <1>2, <1>3, <1>4, AbsorbInv DEF Join

LEMMA DropAbsorbedInv == ASSUME TypeOK, Tidy, DropAbsorbed PROVE Inv'
<1> DEFINE p == call.prev
           c == call.cur
<1>1. /\ c \in Members /\ c # avail_head /\ c \in Address /\ call \in Request
      /\ FreeList /\ ~ tangled
      /\ p \in Members /\ c = next(p)
      /\ (call.op = "alloc" => elem[call.p] = nullptr)
      /\ (call.op = "move" => elem[call.p] # nullptr)
  BY AtMember, SearchGoesOn DEF DropAbsorbed, AtBlock
<1>2. c \notin Live /\ c # avail_tail
  BY <1>1, LinkLeadsOn DEF DropAbsorbed, Live
<1>3. /\ word' = Unlinked(p, c)
      /\ isFree' \in [Address -> BOOLEAN] /\ ~ isFree'[c]
      /\ \A x \in Address \ {c} : isFree'[x] = isFree[x] /\ start'[x] = start[x]
      /\ start' \in [Address -> Address \cup {nullptr}]
      /\ UNCHANGED <<child, last_before_sys, tangled, elem, asked>>
      /\ call' = [call EXCEPT !.cur = next(c)]
  BY <1>1 DEF DropAbsorbed, TypeOK, clients
<1>4. Members' = Members \ {c}
  BY <1>1, <1>3 DEF Members
<1>5. /\ word' \in [Address -> Address \cup {nullptr} \cup Pointers]
      /\ FreeList' /\ p \in Members' /\ next(p)' = next(c)
  <2>1. \A m \in Members \ {c} : start'[m] = start[m]
    BY <1>3 DEF Members
  <2> QED
    BY <1>1, <1>3, <1>4, <2>1, UnlinkedList
<1>6. /\ \A x \in Live : x # c /\ x \in Address /\ child[x] # c /\ start'[x] = start[x]
      /\ avail_tail \in Address /\ start'[avail_tail] = start[avail_tail]
  <2>1. \A x \in Live : x \in Address /\ child[x] \in Live \cup {avail_tail}
    BY LiveRow DEF Tidy
  <2> QED
    BY <1>2, <1>3, <2>1, Constants
<1>7. Live' = Live /\ \A x \in Live : Ends'[x] = Ends[x]
  <2>1. Live' = Live
    BY <1>3 DEF Live, IsBlock
  <2>2. \A x \in Live : child[x] \in Address \ {c}
    BY <1>2, <1>6, LiveRow, Constants DEF Tidy
  <2>3. \A x \in Live : Ends'[x] = start'[child[x]] /\ Ends[x] = start[child[x]]
    BY <1>3 DEF Ends, Live
  <2> QED
    BY <1>3, <2>1, <2>2, <2>3
<1>8. Descriptors'
  BY <1>1, <1>3, <1>6, Constants, SMTT(30) DEF Tidy, Descriptors, IsBlock
<1>9. Row'
  <2>1. PICK rank : ChainOf(Live, child, rank) /\ Placed(Live, rank, start, Ends, start[avail_tail])
    BY DEF Tidy, Row
  <2>2. avail_head \in Live
    BY LiveRow DEF Tidy
  <2>3. Placed(Live, rank, start', Ends', start'[avail_tail])
    BY <1>6, <1>7, <2>1, <2>2 DEF Placed
  <2>4. \A e \in Live : IsLast(e)' => start'[e] < start'[avail_tail]
    BY <1>3, <1>6 DEF Tidy, Row, IsLast
  <2>5. Covered(Live, Ends, start[avail_tail])'
    BY <1>6, <1>7 DEF Tidy, Row, Covered
  <2> QED
    BY <1>3, <1>7, <2>1, <2>3, <2>4, <2>5 DEF Row
<1>10. Owned(Live, Ends)'
  BY <1>3, <1>6, <1>7 DEF Tidy, Owned, Live
<1>11. CallGoesOn'
  <2>1. next(c) \in Address \cup Pointers
    BY <1>1, LinkLeadsOn, Constants DEF Members
  <2>2. call' \in Request /\ call'.prev = p /\ call'.cur = next(c) /\ call'.op = call.op
        /\ call'.p = call.p
    BY <1>1, <1>3, <2>1 DEF Request
  <2>3. call'.cur = next(p)'
    BY <1>5, <2>2
  <2> QED
    BY <1>1, <1>3, <1>5, <2>2, <2>3 DEF CallGoesOn, next
<1>12. Located' /\ Listed'
  BY <1>3, <1>4, <1>5 DEF Tidy, Located, Listed, Members
<1> QED
  BY <1>3, <1>5, <1>8, <1>9, <1>10, <1>11, <1>12, TidyAfter DEF Tidy, Types, TypeOK

(* Whoever searched gets the block, which was nobody's.                    *)
LEMMA DeliverInv ==
    ASSUME TypeOK, Tidy, AtBlock, Deliver,
           call.cur \in Live', ~ isFree'[call.cur],
           call.size <= Ends'[call.cur] - start'[call.cur],
           \A p \in Pointers : elem[p] # nullptr =>
               /\ elem[p] \in Live' /\ ~ isFree'[elem[p]]
               /\ asked[p] <= Ends'[elem[p]] - start'[elem[p]]
    PROVE  /\ elem' \in [Pointers -> Address \cup {nullptr}]
           /\ asked' \in [Pointers -> 0 .. MaxSize]
           /\ Owned(Live, Ends)' /\ CallGoesOn'
<1> DEFINE c == call.cur
<1>1. /\ c \in Members /\ c \in Address /\ call \in Request
      /\ (call.op = "alloc" => elem[call.p] = nullptr)
      /\ (call.op = "move" => elem[call.p] # nullptr)
  BY AtMember, SearchGoesOn DEF AtBlock
<1>2. \A p \in Pointers : elem[p] # c
  BY <1>1, Constants DEF Tidy, Owned, Members
<1>3. call.p \in Pointers /\ call.size \in 0 .. MaxSize /\ call.op \in {"alloc", "move"}
  BY <1>1 DEF Request
<1>4. \A p \in Pointers : elem[p] # nullptr => \A q \in Pointers \ {p} : elem[q] # elem[p]
  BY DEF Tidy, Owned
<1>5. CASE call.op = "alloc"
  <2>1. /\ elem' \in [Pointers -> Address \cup {nullptr}] /\ elem'[call.p] = c
        /\ asked' \in [Pointers -> 0 .. MaxSize] /\ asked'[call.p] = call.size
        /\ \A p \in Pointers \ {call.p} : elem'[p] = elem[p] /\ asked'[p] = asked[p]
        /\ call' = NoCall
    BY <1>1, <1>3, <1>5 DEF Deliver, Return, TypeOK
  <2>2. Owned(Live, Ends)'
    <3> SUFFICES ASSUME NEW p \in Pointers, elem'[p] # nullptr
                 PROVE  /\ elem'[p] \in Live' /\ ~ isFree'[elem'[p]]
                        /\ \A q \in Pointers \ {p} : elem'[q] # elem'[p]
                        /\ asked'[p] <= Ends'[elem'[p]] - start'[elem'[p]]
      BY DEF Owned
    <3>1. CASE p = call.p
      BY <1>2, <2>1, <3>1
    <3>2. CASE p # call.p
      BY <1>2, <1>4, <2>1, <3>2
    <3> QED
      BY <3>1, <3>2
  <2> QED
    BY <2>1, <2>2 DEF CallGoesOn
<1>6. CASE call.op = "move"
  <2>1. /\ UNCHANGED <<elem, asked>>
        /\ call' = [op |-> "copy", p |-> call.p, size |-> call.size, to |-> c]
    BY <1>6 DEF Deliver, clients
  <2>2. Owned(Live, Ends)'
    BY <1>4, <2>1 DEF Owned
  <2>3. start'[child'[c]] = Ends'[c]
    BY <1>1 DEF Ends
  <2>4. call' \in Transfer /\ call'.to = c /\ call'.p = call.p /\ call'.size = call.size
    BY <1>1, <1>3, <2>1 DEF Transfer
  <2>5. call'.size <= start'[child'[call'.to]] - start'[call'.to]
    BY <2>3, <2>4
  <2>6. CallGoesOn'
    BY <1>1, <1>2, <1>6, <2>1, <2>4, <2>5 DEF CallGoesOn, SizeOf
  <2> QED
    BY <2>1, <2>2, <2>6 DEF TypeOK
<1> QED
  BY <1>3, <1>5, <1>6

LEMMA TakeAllInv == ASSUME TypeOK, Tidy, TakeAll PROVE Inv'
<1> DEFINE p == call.prev
           c == call.cur
<1>1. /\ c \in Members /\ c # avail_head /\ c \in Address /\ call \in Request
      /\ p \in Members /\ c = next(p) /\ IsBlock(c) /\ AtBlock
      /\ FreeList /\ ~ tangled
  BY AtMember, SearchGoesOn DEF TakeAll, AtBlock
<1>2. /\ word' = Unlinked(p, c)
      /\ isFree' \in [Address -> BOOLEAN] /\ ~ isFree'[c]
      /\ \A x \in Address \ {c} : isFree'[x] = isFree[x]
      /\ UNCHANGED <<start, child, last_before_sys, tangled>> /\ Deliver
  BY <1>1 DEF TakeAll, TypeOK
<1>3. Members' = Members \ {c}
  BY <1>1, <1>2 DEF Members
<1>4. word' \in [Address -> Address \cup {nullptr} \cup Pointers] /\ FreeList'
  <2>1. \A m \in Members \ {c} : start'[m] = start[m]
    BY <1>2
  <2> QED
    BY <1>1, <1>2, <1>3, <2>1, UnlinkedList
<1>5. Live' = Live /\ Ends' = Ends
  BY <1>2 DEF Live, IsBlock, Ends
<1>6. Descriptors' /\ Row'
  <2>1. Descriptors'
    BY <1>1, <1>2, Constants DEF Tidy, Descriptors, IsBlock
  <2> QED
    BY <1>2, <1>5, <2>1 DEF Tidy, Row, Covered, IsLast
<1>7. /\ c \in Live' /\ call.size <= Ends'[c] - start'[c]
  <2>1. c \in Live /\ call.size = SizeOf(c) /\ call.size \in Int
    BY <1>1, AllocatorAssumption DEF TakeAll, Live, Request
  <2> QED
    BY <1>1, <1>2, <1>5, <2>1 DEF SizeOf, Ends
<1>8. \A q \in Pointers : elem[q] # nullptr =>
          /\ elem[q] \in Live' /\ ~ isFree'[elem[q]]
          /\ asked[q] <= Ends'[elem[q]] - start'[elem[q]]
  BY <1>2, <1>5 DEF Tidy, Owned, Live
<1>9. /\ elem' \in [Pointers -> Address \cup {nullptr}]
      /\ asked' \in [Pointers -> 0 .. MaxSize]
      /\ Owned(Live, Ends)' /\ CallGoesOn'
  BY <1>1, <1>2, <1>7, <1>8, DeliverInv
<1>10. Located' /\ Listed'
  BY <1>2, <1>3, <1>4 DEF Tidy, Located, Listed
<1> QED
  BY <1>2, <1>4, <1>6, <1>9, <1>10, TidyAfter DEF Tidy, Types, TypeOK

(* What a split leaves of the blocks of clients.                           *)
LEMMA SplitOwned ==
    ASSUME TypeOK, Tidy, NEW e \in Live, e # avail_head, NEW n \in Nat,
           start[e] + n <= start[child[e]], start[e] + n < NewElem,
           \A last \in Address : IsLast(last) => HasRoom(last),
           Split(e, n),
           NEW owners \in SUBSET Pointers, ~ InUse(NewElem, owners),
           NEW p \in owners, elem[p] # nullptr, elem[p] # e
    PROVE  /\ elem[p] \in Live' /\ elem[p] # NewElem /\ start'[elem[p]] = start[elem[p]]
           /\ asked[p] <= Ends'[elem[p]] - start'[elem[p]]
<1>1. /\ NewElem \in Address /\ NewElem \notin Live \cup Members
      /\ Live' = Live \cup {NewElem}
      /\ \A x \in Address \ {avail_tail, NewElem} : start'[x] = start[x]
      /\ \A x \in Live \ {e} : Ends'[x] = IF IsLast(x) THEN NewElem ELSE Ends[x]
      /\ \A x \in Live : IsLast(x) => start[x] < NewElem
  BY SplitRow DEF Tidy
<1>2. elem[p] \in Live /\ asked[p] <= Ends[elem[p]] - start[elem[p]] /\ asked[p] \in Int
  BY AllocatorAssumption DEF Tidy, Owned, TypeOK
<1>3. elem[p] \in Address \ {avail_tail} /\ elem[p] # NewElem /\ start[elem[p]] \in Int
  BY <1>1, <1>2, LiveRow DEF Tidy
<1>4. IsLast(elem[p]) => asked[p] <= NewElem - start[elem[p]]
  <2> SUFFICES ASSUME IsLast(elem[p]) PROVE asked[p] <= NewElem - start[elem[p]]
    OBVIOUS
  <2>1. start[elem[p]] < NewElem
    BY <1>1, <1>2
  <2>2. ~ (NewElem < start[elem[p]] + asked[p])
    BY <1>1, <1>3, <2>1, Constants DEF InUse, OfClient
  <2> QED
    BY <1>1, <1>2, <1>3, <2>2, Constants
<1> QED
  BY <1>1, <1>2, <1>3, <1>4

LEMMA DescriptorBelow ==
    ASSUME Descriptors, NEW d \in Address, d < start[avail_tail], start[avail_tail] \in Address,
           start'[avail_tail] = d, start'[avail_head] = start[avail_head],
           Live' = Live \cup {d}, Members' \subseteq Members \cup {d}, avail_head \in Members'
    PROVE  Descriptors'
<1>1. \A x \in Address : IsBlock(x)' \/ isFree'[x] => IsBlock(x) \/ isFree[x] \/ x = d
  BY DEF Live, Members
<1>2. ASSUME NEW x \in Address, IsBlock(x)' \/ isFree'[x]
      PROVE  x >= d /\ (x < avail_tail \/ x = avail_head)
  <2>1. CASE x = d
    BY <2>1, Constants DEF Descriptors
  <2>2. CASE x # d
    <3>1. IsBlock(x) \/ isFree[x]
      BY <1>1, <1>2, <2>2
    <3>2. x >= start[avail_tail] /\ (x < avail_tail \/ x = avail_head)
      BY <3>1 DEF Descriptors
    <3> QED
      BY <3>2, Constants
  <2> QED
    BY <2>1, <2>2
<1>3. d <= avail_tail
  BY Constants DEF Descriptors
<1>4. isFree'[avail_head] /\ start'[avail_head] = mem_start
  BY Constants DEF Descriptors, Members
<1> QED
  BY <1>2, <1>3, <1>4 DEF Descriptors

LEMMA TakePartInv == ASSUME TypeOK, Tidy, TakePart PROVE Inv'
<1> DEFINE p == call.prev
           c == call.cur
           rest == start[c] + call.size
<1>1. /\ c \in Members /\ c # avail_head /\ c \in Address /\ call \in Request
      /\ p \in Members /\ c = next(p) /\ IsBlock(c) /\ AtBlock /\ SizeOf(c) > call.size
      /\ FreeList
  BY AtMember, SearchGoesOn DEF TakePart, TooLarge, AtBlock
<1>2. CASE Overruns(rest, Pointers)
  <2>1. Stop("overrun")
    BY <1>2 DEF TakePart
  <2> QED
    BY <2>1, StopInv DEF Failures
<1>3. CASE ~ Overruns(rest, Pointers)
  <2> DEFINE d == NewElem
  <2>1. /\ Split(c, call.size)
        /\ isFree' = [isFree EXCEPT ![d] = TRUE, ![c] = FALSE]
        /\ word' = [word EXCEPT ![rest] = next(c), ![start[p]] = d]
        /\ tangled' = Tangles(rest) /\ Deliver
        /\ \A last \in Address : IsLast(last) => HasRoom(last)
    BY <1>3 DEF TakePart
  <2>2. c \in Live /\ call.size \in Nat /\ rest \in Int /\ rest <= start[child[c]]
    <3>1. c \in Live /\ call.size \in Nat
      BY <1>1, AllocatorAssumption DEF Live, Request
    <3>2. start[c] \in Int /\ start[child[c]] \in Int
      BY <3>1, LiveRow DEF Tidy
    <3> QED
      BY <1>1, <3>1, <3>2 DEF SizeOf
  <2>3. start[avail_tail] \in Address /\ mem_start <= start[c] /\ start[c] \in Int
    BY <2>2, LiveRow DEF Tidy
  <2>4. rest < d /\ ~ InUse(d, Pointers) /\ rest \in Address
    <3>1. ~ (rest >= d) /\ ~ InUse(d, Pointers)
      BY <1>3 DEF Overruns
    <3> QED
      BY <2>2, <2>3, <3>1, Constants, SMTT(30) DEF NewElem
  <2>5. /\ start' \in [Address -> Address \cup {nullptr}]
        /\ child' \in [Address -> Address \cup {nullptr}]
        /\ last_before_sys' \in Address
        /\ d \in Address /\ d \notin Live \cup Members
        /\ d < start[avail_tail]
        /\ start'[avail_tail] = d /\ start'[d] = rest
        /\ \A x \in Address \ {avail_tail, d} : start'[x] = start[x]
        /\ Live' = Live \cup {d}
        /\ Row'
        /\ Ends'[c] = rest
    BY <1>1, <2>1, <2>2, <2>4, SplitRow DEF Tidy
  <2> HIDE DEF d
  <2>6. /\ c # d /\ d # avail_tail /\ d # avail_head /\ c # avail_tail
        /\ isFree' \in [Address -> BOOLEAN] /\ isFree'[d] /\ ~ isFree'[c]
        /\ \A x \in Address \ {c, d} : isFree'[x] = isFree[x]
    <3>1. d < avail_tail /\ d < avail_head
      BY <2>3, <2>5, Constants DEF Tidy, Descriptors
    <3>2. c # avail_tail /\ c # d
      BY <1>1, <2>5, MembersPlaced
    <3>3. isFree' = [isFree EXCEPT ![d] = TRUE, ![c] = FALSE] /\ isFree \in [Address -> BOOLEAN]
      BY <2>1 DEF TypeOK
    <3>4. isFree' \in [Address -> BOOLEAN]
      BY <3>3
    <3>5. isFree'[d] /\ ~ isFree'[c] /\ \A x \in Address \ {c, d} : isFree'[x] = isFree[x]
      BY <1>1, <2>5, <3>2, <3>3
    <3>6. d # avail_tail /\ d # avail_head
      BY <2>5, <3>1, Constants
    <3> QED
      BY <3>2, <3>4, <3>5, <3>6
  <2>7. Members' = (Members \ {c}) \cup {d}
    BY <1>1, <2>5, <2>6 DEF Members
  <2>8. /\ word' \in [Address -> Address \cup {nullptr} \cup Pointers]
        /\ tangled' \in BOOLEAN /\ Located' /\ Listed'
    <3>1. \A m \in Members : start'[m] = start[m] /\ start[m] \in Address
      BY <2>5, MembersPlaced
    <3>2. d \in Address \ (Members \cup {avail_tail})
      BY <2>5, <2>6
    <3>3. next(c) \in Address \cup {nullptr} \cup Pointers
      BY <1>1, <3>1 DEF next, TypeOK
    <3>4. word' \in [Address -> Address \cup {nullptr} \cup Pointers]
      BY <2>1, <3>2, <3>3 DEF TypeOK
    <3>5. Located'
      BY <2>4, <2>5, <2>7, <3>1 DEF Located
    <3>6. tangled' \in BOOLEAN /\ (~ tangled' => ~ IsLink(rest))
      BY <2>1, NoTangle
    <3> HIDE DEF p, c, rest
    <3>7. ASSUME ~ tangled' PROVE FreeList'
      BY <1>1, <2>1, <2>4, <2>5, <2>7, <3>1, <3>2, <3>6, <3>7, ReplacedList
    <3> QED
      BY <3>4, <3>5, <3>6, <3>7 DEF Listed
  <2>9. Descriptors'
    <3>1. Members' \subseteq Members \cup {d} /\ avail_head \in Members'
      BY <1>1, <2>6, <2>7, MembersPlaced
    <3>2. start'[avail_head] = start[avail_head]
      BY <2>5, <2>6, Constants
    <3> QED
      BY <2>3, <2>5, <3>1, <3>2, DescriptorBelow DEF Tidy
  <2>10. \A q \in Pointers : elem[q] # nullptr =>
             /\ elem[q] \in Live' /\ ~ isFree'[elem[q]]
             /\ asked[q] <= Ends'[elem[q]] - start'[elem[q]]
    <3> SUFFICES ASSUME NEW q \in Pointers, elem[q] # nullptr
                 PROVE  /\ elem[q] \in Live' /\ ~ isFree'[elem[q]]
                        /\ asked[q] <= Ends'[elem[q]] - start'[elem[q]]
      OBVIOUS
    <3>1. elem[q] # c /\ elem[q] \in Address /\ ~ isFree[elem[q]]
      BY <1>1 DEF Tidy, Owned, Members, Live
    <3>2. /\ elem[q] \in Live' /\ elem[q] # d
          /\ asked[q] <= Ends'[elem[q]] - start'[elem[q]]
      BY <1>1, <2>1, <2>2, <2>4, <3>1, SplitOwned DEF d
    <3> QED
      BY <2>6, <3>1, <3>2
  <2>11. c \in Live' /\ call.size <= Ends'[c] - start'[c]
    BY <1>1, <2>2, <2>3, <2>5, <2>6
  <2>12. /\ elem' \in [Pointers -> Address \cup {nullptr}]
         /\ asked' \in [Pointers -> 0 .. MaxSize]
         /\ Owned(Live, Ends)' /\ CallGoesOn'
    BY <1>1, <2>1, <2>6, <2>10, <2>11, DeliverInv
  <2> QED
    BY <2>5, <2>6, <2>8, <2>9, <2>12, TidyAfter DEF Tidy, Types
<1> QED
  BY <1>2, <1>3

LEMMA ShrinkInv ==
    ASSUME TypeOK, Tidy, NEW p \in Pointers, elem[p] # nullptr, NEW n \in 0 .. MaxSize,
           SizeOf(elem[p]) >= n, Shrink(p, n)
    PROVE  Inv'
<1> DEFINE e == elem[p]
           rest == start[e] + n
           d == NewElem
<1>1. /\ e \in Live /\ ~ isFree[e] /\ e \in Address /\ e # avail_head /\ n \in Nat
      /\ \A q \in Pointers \ {p} : elem[q] # e
  <2>1. e \in Live /\ ~ isFree[e] /\ \A q \in Pointers \ {p} : elem[q] # e
    BY DEF Tidy, Owned
  <2>2. e \in Address /\ e # avail_head
    BY <2>1 DEF Live, Tidy, Descriptors
  <2> QED
    BY <2>1, <2>2, AllocatorAssumption
<1>2. /\ start[e] \in Int /\ start[child[e]] \in Int /\ mem_start <= start[e]
      /\ rest <= start[child[e]] /\ start[avail_tail] \in Address
  <2>1. /\ start[e] \in Int /\ start[child[e]] \in Int /\ mem_start <= start[e]
        /\ start[avail_tail] \in Address
    BY <1>1, LiveRow DEF Tidy
  <2> QED
    BY <1>1, <2>1 DEF SizeOf
<1> HIDE DEF e
<1>3. CASE SizeOf(e) = n
  <2>1. /\ asked' = [asked EXCEPT ![p] = n] /\ Return
        /\ UNCHANGED <<blocks, memory, elem>>
    BY <1>3 DEF Shrink, e
  <2>2. /\ asked' \in [Pointers -> 0 .. MaxSize] /\ asked'[p] = n
        /\ \A q \in Pointers \ {p} : asked'[q] = asked[q]
    BY <2>1 DEF TypeOK
  <2>3. Live' = Live /\ Ends' = Ends /\ Members' = Members /\ Links' = Links
    BY <2>1 DEF Live, IsBlock, Ends, Members, Links, blocks, memory
  <2>4. Descriptors' /\ Row' /\ Located' /\ Listed'
    BY <2>1, <2>3
       DEF Tidy, Descriptors, Row, Covered, IsBlock, IsLast, Located, Listed, FreeList,
           MembersApart, blocks, memory
  <2>5. Ends[e] - start[e] = n
    BY <1>1, <1>3 DEF Ends, SizeOf
  <2>6. Owned(Live, Ends)'
    <3> SUFFICES ASSUME NEW q \in Pointers, elem[q] # nullptr
                 PROVE  /\ elem[q] \in Live /\ ~ isFree[elem[q]]
                        /\ \A r \in Pointers \ {q} : elem[r] # elem[q]
                        /\ asked'[q] <= Ends[elem[q]] - start[elem[q]]
      BY <2>1, <2>3 DEF Owned, blocks
    <3>1. CASE q = p
      BY <1>1, <2>2, <2>5, <3>1 DEF e
    <3>2. CASE q # p
      BY <2>2, <3>2 DEF Tidy, Owned
    <3> QED
      BY <3>1, <3>2
  <2>7. CallGoesOn'
    BY <2>1 DEF Return, CallGoesOn
  <2> QED
    BY <2>1, <2>2, <2>4, <2>6, <2>7, TidyAfter DEF Tidy, Types, TypeOK, blocks, memory
<1>4. ASSUME ~ Lost, NoRoom, Return, UNCHANGED <<start, isFree, child, memory, clients>>
      PROVE  Inv'
  <2>1. CallGoesOn'
    BY <1>4 DEF Return, CallGoesOn
  <2> QED
    BY <1>4, <2>1, CallInv, FoundLast
<1>5. ASSUME \A last \in Address : IsLast(last) => HasRoom(last),
             ~ Overruns(rest, Pointers \ {p}), Split(e, n),
             isFree' = [isFree EXCEPT ![d] = TRUE],
             word' = AddToAvailList(word, d, rest), tangled' = Tangles(rest),
             asked' = [asked EXCEPT ![p] = n], Return, UNCHANGED elem
      PROVE  Inv'
  <2>1. rest < d /\ ~ InUse(d, Pointers \ {p}) /\ rest \in Address
    <3>1. ~ (rest >= d) /\ ~ InUse(d, Pointers \ {p})
      BY <1>5 DEF Overruns
    <3> QED
      BY <1>1, <1>2, <3>1, Constants, SMTT(30) DEF NewElem
  <2>2. /\ start' \in [Address -> Address \cup {nullptr}]
        /\ child' \in [Address -> Address \cup {nullptr}]
        /\ last_before_sys' \in Address
        /\ d \in Address /\ d \notin Live \cup Members
        /\ d < start[avail_tail]
        /\ start'[avail_tail] = d /\ start'[d] = rest
        /\ \A x \in Address \ {avail_tail, d} : start'[x] = start[x]
        /\ Live' = Live \cup {d}
        /\ Row'
        /\ Ends'[e] = rest
    BY <1>1, <1>2, <1>5, <2>1, SplitRow DEF Tidy
  <2>3. ASSUME NEW q \in Pointers \ {p}, elem[q] # nullptr
        PROVE  /\ elem[q] \in Live' /\ elem[q] # d /\ start'[elem[q]] = start[elem[q]]
               /\ asked[q] <= Ends'[elem[q]] - start'[elem[q]]
    BY <1>1, <1>2, <1>5, <2>1, <2>3, SplitOwned
  <2> HIDE DEF d
  <2>4. e # d /\ d # avail_tail /\ d # avail_head /\ e # avail_tail
    <3>1. d < avail_tail /\ d < avail_head
      BY <1>2, <2>2, Constants DEF Tidy, Descriptors
    <3>2. e # avail_tail /\ e # d
      BY <1>1, <2>2, LiveRow DEF Tidy
    <3> QED
      BY <2>2, <3>1, <3>2, Constants
  <2>5. /\ isFree' \in [Address -> BOOLEAN] /\ isFree'[d]
        /\ \A x \in Address \ {d} : isFree'[x] = isFree[x]
    BY <1>5, <2>2 DEF TypeOK
  <2>6. Members' = Members \cup {d}
    BY <2>2, <2>5 DEF Members
  <2>7. /\ word' \in [Address -> Address \cup {nullptr} \cup Pointers]
        /\ tangled' \in BOOLEAN /\ Located' /\ Listed'
    <3>1. \A m \in Members : start'[m] = start[m] /\ start[m] \in Address
      BY <2>2, MembersPlaced
    <3>2. d \in Address \ (Members \cup {avail_tail})
      BY <2>2, <2>4
    <3>3. word \in [Address -> Address \cup {nullptr} \cup Pointers]
      BY DEF TypeOK
    <3>4. word[mem_start] \in Address \cup {nullptr} \cup Pointers
      BY <3>3, Constants
    <3>5. word' \in [Address -> Address \cup {nullptr} \cup Pointers]
      BY <1>5, <3>2, <3>3, <3>4 DEF AddToAvailList
    <3>6. Located'
      BY <2>1, <2>2, <2>6, <3>1 DEF Located
    <3>7. tangled' \in BOOLEAN /\ (~ tangled' => FreeList /\ ~ IsLink(rest))
      BY <1>5, NoTangle
    <3> HIDE DEF rest
    <3>8. ASSUME ~ tangled' PROVE FreeList'
      BY <1>5, <2>1, <2>2, <2>6, <3>1, <3>2, <3>3, <3>7, <3>8, AddedList DEF Tidy
    <3> QED
      BY <3>5, <3>6, <3>7, <3>8 DEF Listed
  <2>8. Descriptors'
    <3>1. Members' \subseteq Members \cup {d} /\ avail_head \in Members'
      BY <2>6, Constants DEF Tidy, Descriptors, Members
    <3>2. start'[avail_head] = start[avail_head]
      BY <2>2, <2>4, Constants
    <3> QED
      BY <1>2, <2>2, <3>1, <3>2, DescriptorBelow DEF Tidy
  <2>9. /\ asked' \in [Pointers -> 0 .. MaxSize] /\ asked'[p] = n
        /\ \A q \in Pointers \ {p} : asked'[q] = asked[q]
    BY <1>5 DEF TypeOK
  <2>10. Owned(Live, Ends)'
    <3> SUFFICES ASSUME NEW q \in Pointers, elem[q] # nullptr
                 PROVE  /\ elem[q] \in Live' /\ ~ isFree'[elem[q]]
                        /\ \A r \in Pointers \ {q} : elem[r] # elem[q]
                        /\ asked'[q] <= Ends'[elem[q]] - start'[elem[q]]
      BY <1>5 DEF Owned
    <3>1. CASE q = p
      <4>1. elem[q] = e /\ start'[e] = start[e] /\ ~ isFree'[e]
        BY <1>1, <2>2, <2>4, <2>5, <3>1 DEF e
      <4> QED
        BY <1>1, <1>2, <2>2, <2>9, <3>1, <4>1
    <3>2. CASE q # p
      <4>1. ~ isFree[elem[q]] /\ elem[q] \in Address
            /\ \A r \in Pointers \ {q} : elem[r] # elem[q]
        BY DEF Tidy, Owned, Live
      <4> QED
        BY <2>3, <2>5, <2>9, <3>2, <4>1
    <3> QED
      BY <3>1, <3>2
  <2>11. CallGoesOn'
    BY <1>5 DEF Return, CallGoesOn
  <2> QED
    BY <1>5, <2>2, <2>5, <2>7, <2>8, <2>9, <2>10, <2>11, TidyAfter DEF Tidy, Types, TypeOK
<1>6. ASSUME Stop("null_deref") \/ Stop("overrun") PROVE Inv'
  BY <1>6, StopInv DEF Failures
<1> QED
  BY <1>3, <1>4, <1>5, <1>6 DEF Shrink, e, d

LEMMA GrowInPlaceInv == ASSUME TypeOK, Tidy, GrowInPlace PROVE Inv'
<1>1. call \in Growth /\ elem[call.p] # nullptr
  BY DEF Tidy, CallGoesOn, GrowInPlace, NoCall, Request, Transfer
<1>2. call.p \in Pointers /\ call.size \in 0 .. MaxSize
  BY <1>1 DEF Growth
<1> QED
  BY <1>1, <1>2, ShrinkInv DEF GrowInPlace

LEMMA ReallocInv ==
    ASSUME TypeOK, Tidy, NEW p \in Pointers, NEW n \in 0 .. MaxSize, Realloc(p, n) PROVE Inv'
<1>1. CASE SizeOf(elem[p]) >= n
  BY <1>1, ShrinkInv DEF Realloc
<1>2. CASE ~ (SizeOf(elem[p]) >= n)
  <2>1. /\ call' = [op |-> "join", p |-> p, size |-> n]
        /\ UNCHANGED <<blocks, memory, clients>> /\ elem[p] # nullptr
    BY <1>2 DEF Realloc
  <2>2. call' \in Growth /\ call'.p = p
    BY <2>1 DEF Growth
  <2>3. CallGoesOn'
    BY <2>1, <2>2 DEF CallGoesOn, clients
  <2> QED
    BY <2>1, <2>3, CallInv DEF blocks, TypeOK
<1> QED
  BY <1>1, <1>2

LEMMA WriteInv == ASSUME TypeOK, Tidy, NEW p \in Pointers, Write(p) PROVE Inv'
<1>1. /\ call = NoCall /\ UNCHANGED <<start, isFree, child, last_before_sys, tangled, elem, asked, call>>
      /\ word' = [w \in Address |-> IF OfClient(w, p) THEN p ELSE word[w]]
  BY DEF Write, Idle, blocks, clients
<1>2. word' \in [Address -> Address \cup {nullptr} \cup Pointers]
  BY <1>1 DEF TypeOK
<1>3. Live' = Live /\ Ends' = Ends /\ Members' = Members
  BY <1>1 DEF Live, IsBlock, Ends, Members
<1>4. FreeList => FreeList'
  <2> SUFFICES ASSUME FreeList PROVE FreeList'
    OBVIOUS
  <2>1. PICK place : ListOf(Members, Links, place)
    BY DEF FreeList
  <2>2. \A m \in Members : m \in Address /\ start[m] \in Address
    BY MembersPlaced
  <2>3. \A m \in Members : Links'[m] = Links[m] \/ Links'[m] \in Pointers
    BY <1>1, <2>2 DEF Links
  <2>4. ListOf(Members, Links', place)
    BY <2>1, <2>3, ListWrittenOver
  <2> QED
    BY <1>1, <1>3, <2>4 DEF FreeList, MembersApart
<1>5. Descriptors' /\ Row' /\ Owned(Live, Ends)'
  BY <1>1, <1>3 DEF Tidy, Descriptors, Row, Covered, IsBlock, IsLast, Owned
<1>6. CallGoesOn'
  BY <1>1 DEF CallGoesOn
<1>7. Located' /\ Listed'
  BY <1>1, <1>3, <1>4 DEF Tidy, Located, Listed
<1> QED
  BY <1>1, <1>2, <1>5, <1>6, <1>7, TidyAfter DEF Tidy, Types, TypeOK

(* e's block, given up by p, goes to the list. *)
LEMMA FreedInv ==
    ASSUME TypeOK, Tidy, NEW p \in Pointers, elem[p] # nullptr,
           NEW words \in [Address -> Address \cup {nullptr} \cup Pointers],
           tangled' \in BOOLEAN,
           ~ tangled' => /\ FreeList /\ ~ IsLink(start[elem[p]])
                         /\ \A m \in Members : words[start[m]] = word[start[m]],
           word' = AddToAvailList(words, elem[p], start[elem[p]]),
           isFree' = [isFree EXCEPT ![elem[p]] = TRUE],
           NEW new \in Address \cup {nullptr}, NEW n \in 0 .. MaxSize,
           elem' = [elem EXCEPT ![p] = new], asked' = [asked EXCEPT ![p] = n],
           new # nullptr =>
               /\ new \in Live /\ ~ isFree[new] /\ n <= Ends[new] - start[new]
               /\ \A q \in Pointers : elem[q] # new,
           UNCHANGED <<start, child, last_before_sys>>, call' = NoCall
    PROVE  Inv'
<1> DEFINE e == elem[p]
<1>1. /\ e \in Live /\ ~ isFree[e] /\ e \in Address /\ start[e] \in Address
      /\ e \notin Members /\ e # avail_tail
  <2>1. e \in Live /\ ~ isFree[e]
    BY DEF Tidy, Owned
  <2>2. e \in Address /\ e # avail_tail /\ start[e] \in Int /\ mem_start <= start[e]
    BY <2>1, LiveRow DEF Tidy
  <2>3. start[e] \in Address
    BY <2>2, Constants DEF TypeOK
  <2> QED
    BY <2>1, <2>2, <2>3 DEF Members
<1>2. /\ isFree' \in [Address -> BOOLEAN] /\ isFree'[e]
      /\ \A x \in Address \ {e} : isFree'[x] = isFree[x]
  BY <1>1 DEF TypeOK
<1>3. Members' = Members \cup {e}
  BY <1>1, <1>2 DEF Members
<1>4. /\ word' \in [Address -> Address \cup {nullptr} \cup Pointers]
      /\ Located' /\ Listed'
  <2> HIDE DEF e
  <2>1. e \in Address \ (Members \cup {avail_tail})
    BY <1>1
  <2>2. word' = AddToAvailList(words, e, start[e])
    BY DEF e
  <2>3. words[mem_start] \in Address \cup {nullptr} \cup Pointers
    BY Constants
  <2>4. word' \in [Address -> Address \cup {nullptr} \cup Pointers]
    BY <1>1, <2>2, <2>3 DEF AddToAvailList
  <2>5. Located'
    BY <1>1, <1>3, MembersPlaced DEF Located
  <2>6. ASSUME ~ tangled' PROVE FreeList'
    <3>1. /\ FreeList /\ ~ IsLink(start[e])
          /\ \A m \in Members : words[start[m]] = word[start[m]]
      BY <2>6 DEF e
    <3> QED
      BY <1>1, <1>3, <2>1, <2>2, <3>1, AddedList DEF Tidy
  <2> QED
    BY <2>4, <2>5, <2>6 DEF Listed
<1>5. Live' = Live /\ Ends' = Ends
  BY DEF Live, IsBlock, Ends
<1>6. Descriptors' /\ Row'
  <2>1. \A x \in Address : IsBlock(x)' \/ isFree'[x] => IsBlock(x) \/ isFree[x]
    BY <1>1, <1>2 DEF IsBlock, Live
  <2>2. isFree'[avail_head]
    BY <1>1, <1>2, Constants DEF Tidy, Descriptors
  <2> QED
    BY <1>5, <2>1, <2>2 DEF Tidy, Descriptors, Row, Covered, IsLast
<1>7. /\ elem' \in [Pointers -> Address \cup {nullptr}] /\ elem'[p] = new
      /\ asked' \in [Pointers -> 0 .. MaxSize] /\ asked'[p] = n
      /\ \A q \in Pointers \ {p} : elem'[q] = elem[q] /\ asked'[q] = asked[q]
  BY DEF TypeOK
<1>8. Owned(Live, Ends)'
  <2> SUFFICES ASSUME NEW q \in Pointers, elem'[q] # nullptr
               PROVE  /\ elem'[q] \in Live /\ ~ isFree'[elem'[q]]
                      /\ \A r \in Pointers \ {q} : elem'[r] # elem'[q]
                      /\ asked'[q] <= Ends[elem'[q]] - start[elem'[q]]
    BY <1>5 DEF Owned
  <2>1. CASE q = p
    <3>1. new # e /\ new \in Address
      BY <1>7, <2>1 DEF Live
    <3> QED
      BY <1>2, <1>7, <2>1, <3>1
  <2>2. CASE q # p
    <3>1. /\ elem[q] \in Live /\ ~ isFree[elem[q]] /\ elem[q] \in Address
          /\ \A r \in Pointers \ {q} : elem[r] # elem[q]
          /\ asked[q] <= Ends[elem[q]] - start[elem[q]]
      BY <1>7, <2>2 DEF Tidy, Owned, Live
    <3> QED
      BY <1>2, <1>7, <2>2, <3>1
  <2> QED
    BY <2>1, <2>2
<1>9. CallGoesOn'
  BY DEF CallGoesOn
<1> QED
  BY <1>2, <1>4, <1>6, <1>7, <1>8, <1>9, TidyAfter DEF Tidy, Types, TypeOK

LEMMA FreeInv == ASSUME TypeOK, Tidy, NEW p \in Pointers, Free(p) PROVE Inv'
<1>1. CASE Stop("overrun")
  BY <1>1, StopInv DEF Failures
<1>2. CASE ~ Stop("overrun")
  <2>1. /\ elem[p] # nullptr /\ tangled' = Tangles(start[elem[p]])
        /\ elem' = [elem EXCEPT ![p] = nullptr] /\ asked' = [asked EXCEPT ![p] = 0]
        /\ isFree' = [isFree EXCEPT ![elem[p]] = TRUE]
        /\ word' = AddToAvailList(word, elem[p], start[elem[p]])
        /\ UNCHANGED <<start, child, last_before_sys>> /\ call' = NoCall
    BY <1>2 DEF Free, Idle
  <2>2. nullptr \in Address \cup {nullptr} /\ 0 \in 0 .. MaxSize
        /\ word \in [Address -> Address \cup {nullptr} \cup Pointers]
    BY AllocatorAssumption DEF TypeOK
  <2>3. tangled' \in BOOLEAN /\ (~ tangled' => FreeList /\ ~ IsLink(start[elem[p]]))
    BY <2>1, NoTangle
  <2> QED
    BY <2>1, <2>2, <2>3, FreedInv
<1> QED
  BY <1>1, <1>2

LEMMA MoveInv == ASSUME TypeOK, Tidy, Move PROVE Inv'
<1> DEFINE p == call.p
           to == call.to
           e == elem[p]
<1>1. /\ call \in Transfer /\ e # nullptr
      /\ to \in Live /\ ~ isFree[to] /\ call.size <= SizeOf(to)
      /\ \A q \in Pointers : elem[q] # to
  BY DEF Tidy, CallGoesOn, Move, NoCall, Request, Growth
<1>2. p \in Pointers /\ call.size \in 0 .. MaxSize /\ to \in Address
  BY <1>1 DEF Transfer
<1>3. CASE Stop("overrun")
  BY <1>3, StopInv DEF Failures
<1>4. CASE ~ Stop("overrun")
  <2> DEFINE words == Copied(word, start[to], start[e], SizeOf(e))
  <2>1. /\ tangled' = \E w \in {start[e]} \cup start[to] .. start[to] + SizeOf(e) - 1 : Tangles(w)
        /\ word' = AddToAvailList(words, e, start[e])
        /\ isFree' = [isFree EXCEPT ![e] = TRUE]
        /\ elem' = [elem EXCEPT ![p] = to]
        /\ asked' = [asked EXCEPT ![p] = call.size]
        /\ call' = NoCall
        /\ UNCHANGED <<start, child, last_before_sys>>
    BY <1>4 DEF Move, Return
  <2>2. e \in Live /\ e \in Address
    BY <1>1, <1>2 DEF Tidy, Owned, Live
  <2>3. /\ start[e] \in Int /\ start[child[e]] \in Int /\ mem_start <= start[e]
        /\ start[child[e]] <= start[avail_tail] /\ start[avail_tail] \in Address
        /\ start[to] \in Int
    BY <1>1, <2>2, LiveRow DEF Tidy
  <2>4. words \in [Address -> Address \cup {nullptr} \cup Pointers]
    <3>1. \A w \in Address : w \in start[to] .. start[to] + SizeOf(e) - 1 =>
              start[e] + (w - start[to]) \in Address
      <4>1. PICK f, g, t, size, n \in Int : /\ f = start[e] /\ g = start[child[e]] /\ t = start[to]
                                           /\ size = SizeOf(e) /\ n = Size
        BY <2>3, Constants DEF SizeOf
      <4>2. size = g - f /\ 1 <= f /\ g <= n /\ Address = 1 .. n
        BY <2>3, <4>1, Constants DEF SizeOf
      <4>3. \A w \in Int : t <= w /\ w <= t + size - 1 => 1 <= f + (w - t) /\ f + (w - t) <= n
        BY <4>2
      <4>4. \A w \in Int : w \in t .. t + size - 1 => f + (w - t) \in 1 .. n
        BY <4>1, <4>3
      <4> QED
        BY <4>1, <4>2, <4>4, SMTT(30)
    <3>2. word \in [Address -> Address \cup {nullptr} \cup Pointers]
      BY DEF TypeOK
    <3> QED
      BY <3>1, <3>2 DEF Copied
  <2>5. /\ tangled' \in BOOLEAN
        /\ ~ tangled' => /\ FreeList /\ ~ IsLink(start[e])
                         /\ \A m \in Members : words[start[m]] = word[start[m]]
    <3>1. tangled' \in BOOLEAN
      BY <2>1
    <3> SUFFICES ASSUME ~ tangled'
                 PROVE  /\ FreeList /\ ~ IsLink(start[e])
                        /\ \A m \in Members : words[start[m]] = word[start[m]]
      BY <3>1
    <3>2. /\ ~ Tangles(start[e])
          /\ \A w \in start[to] .. start[to] + SizeOf(e) - 1 : ~ Tangles(w)
      BY <2>1
    <3>3. /\ ~ tangled /\ ~ IsLink(start[e])
          /\ \A w \in start[to] .. start[to] + SizeOf(e) - 1 : ~ IsLink(w)
      BY <3>2 DEF Tangles
    <3>4. FreeList
      BY <3>3 DEF Tidy, Listed
    <3>5. \A m \in Members : m \in Address /\ isFree[m] /\ start[m] \in Address
      BY MembersPlaced DEF Members
    <3>6. \A m \in Members : IsLink(start[m])
      BY <3>5 DEF IsLink
    <3>7. \A m \in Members : words[start[m]] = word[start[m]]
      BY <3>3, <3>5, <3>6 DEF Copied
    <3> QED
      BY <3>3, <3>4, <3>7
  <2>6. call.size <= Ends[to] - start[to]
    BY <1>1, <1>2 DEF SizeOf, Ends
  <2> HIDE DEF words
  <2>7. to \in Address \cup {nullptr}
    BY <1>2
  <2> HIDE DEF p, to
  <2> QED
    BY <1>1, <1>2, <2>1, <2>4, <2>5, <2>6, <2>7, FreedInv
<1> QED
  BY <1>3, <1>4

-----------------------------------------------------------------------------
(* Defrag *)

LEMMA DefraggingAfter == ASSUME Types', Defragging' PROVE Inv'
<1>1. call'.op = "defrag"
  BY DEF Defragging, Moving
<1> QED
  BY <1>1 DEF Inv, Types, TypeOK, Failures

LEMMA DefragInv == ASSUME TypeOK, Tidy, Defrag PROVE Inv'
<1> DEFINE first == child[avail_head]
<1>1. /\ word' = [word EXCEPT ![mem_start] = avail_tail]
      /\ call' = [op |-> "defrag", prev |-> avail_head, cur |-> first, pos |-> start[first]]
      /\ UNCHANGED <<start, isFree, child, last_before_sys, tangled, elem, asked>>
  BY DEF Defrag, blocks, clients
<1>2. PICK rank : ChainOf(Live, child, rank) /\ Placed(Live, rank, start, Ends, start[avail_tail])
  BY DEF Tidy, Row
<1>3. /\ avail_head \in Live /\ first \in Address /\ start[first] \in Address
      /\ child \in [Address -> Address \cup {nullptr}]
  <2>1. avail_head \in Live /\ first \in Live \cup {avail_tail}
    BY LiveRow DEF Tidy
  <2>2. Ends[avail_head] = mem_start + 1 /\ Ends[avail_head] = start[first]
    BY <1>2, Constants DEF Placed, Ends
  <2> QED
    BY <2>1, <2>2, Constants DEF Live, TypeOK
<1>4. call' \in Moving /\ call'.prev = avail_head /\ call'.cur = first /\ call'.pos = start[first]
  BY <1>1, <1>3, Constants DEF Moving
<1>5. Live' = Live
  BY <1>1 DEF Live, IsBlock
<1>6. Bridged' = child
  BY <1>1, <1>3, <1>4 DEF Bridged
<1>7. MovedEnds' = Ends
  BY <1>1, <1>4 DEF MovedEnds, Ends
<1>8. \A e \in Live : rank[e] < rank[first] => e = avail_head
  <2> SUFFICES ASSUME NEW e \in Live, rank[e] < rank[first] PROVE e = avail_head
    OBVIOUS
  <2>1. /\ rank[avail_head] <= rank[e] /\ rank[avail_head] \in Int /\ rank[e] \in Int
        /\ rank[first] \in Int
    BY <1>2, <1>3 DEF ChainOf
  <2>2. ~ (rank[avail_head] < rank[e])
    <3>1. rank[avail_head] < rank[e] => rank[first] <= rank[e]
      BY <1>2, <1>3 DEF ChainOf
    <3> QED
      BY <2>1, <3>1
  <2>3. rank[avail_head] = rank[e]
    BY <2>1, <2>2
  <2> QED
    BY <1>2, <1>3, <2>3 DEF ChainOf
<1>9. Gathered(Live, rank)'
  <2>1. Owned(Live, Ends)
    BY DEF Tidy
  <2>2. Owned(Live, MovedEnds)'
    BY <1>1, <1>5, <1>7, <2>1 DEF Owned
  <2>3. Covered(Live, MovedEnds, call.pos)'
    <3>1. Ends[avail_head] = mem_start + 1 /\ Ends[avail_head] = start[first]
      BY <1>2, Constants DEF Placed, Ends
    <3>2. mem_start + 1 .. start[first] - 1 = {}
      BY <3>1, Constants
    <3> QED
      BY <1>4, <3>2 DEF Covered
  <2> QED
    BY <1>1, <1>2, <1>3, <1>4, <1>5, <1>6, <1>7, <1>8, <2>2, <2>3 DEF Gathered
<1>10. Defragging'
  <2>1. Descriptors'
    BY <1>1 DEF Tidy, Descriptors, IsBlock
  <2>2. word'[mem_start] = avail_tail
    BY <1>1, Constants DEF TypeOK
  <2> QED
    BY <1>4, <1>9, <2>1, <2>2 DEF Defragging
<1>11. Types'
  BY <1>1, Constants DEF Types, TypeOK
<1> QED
  BY <1>10, <1>11, DefraggingAfter

(* The row during defrag. *)
LEMMA GatheredRow ==
    ASSUME TypeOK, Defragging, NEW K, NEW rank, Gathered(K, rank)
    PROVE  /\ call.prev \in K /\ call.prev \in Address /\ call.cur \in Address /\ call.pos \in Int
           /\ call.cur \in (K \ {avail_head}) \cup {avail_tail}
           /\ Bridged[call.prev] = call.cur
           /\ \A e \in K \ {call.prev} : Bridged[e] = child[e]
           /\ K \subseteq Live /\ Live \subseteq Address
           /\ \A e \in K : rank[e] \in Int /\ e \in Address /\ e # avail_tail
           /\ rank[avail_tail] \in Int
           /\ rank[call.prev] < rank[call.cur]
           /\ MovedEnds[call.prev] = call.pos
           /\ \A e \in K \ {call.prev} : MovedEnds[e] = start[child[e]]
           /\ avail_head \in K
<1>1. /\ call \in Moving /\ K \subseteq Live /\ call.prev \in K /\ ChainOf(K, Bridged, rank)
  BY DEF Defragging, Gathered
<1>2. call.prev \in Address /\ call.cur \in Address /\ call.pos \in Int /\ Live \subseteq Address
  BY <1>1, Constants DEF Moving, Live
<1>3. /\ Bridged[call.prev] = call.cur
      /\ \A e \in K \ {call.prev} : Bridged[e] = child[e]
      /\ MovedEnds[call.prev] = call.pos
      /\ \A e \in K \ {call.prev} : MovedEnds[e] = start[child[e]]
  BY <1>1, <1>2 DEF Bridged, MovedEnds, TypeOK
<1> QED
  BY <1>1, <1>2, <1>3, Constants DEF ChainOf

LEMMA DefragSkipsInv == ASSUME TypeOK, Defragging, DefragSkips PROVE Inv'
<1> DEFINE c == call.cur
           p == call.prev
<1>1. PICK K, rank : Gathered(K, rank)
  BY DEF Defragging
<1>2. /\ p \in K /\ p \in Address /\ c \in K \ {avail_head} /\ c # p
      /\ Bridged[p] = c /\ rank[p] < rank[c]
      /\ \A e \in K \ {p} : Bridged[e] = child[e]
      /\ K \subseteq Live /\ Live \subseteq Address
      /\ \A e \in K : rank[e] \in Int /\ e \in Address
  <2>1. c # avail_tail
    BY Constants DEF DefragSkips
  <2>2. /\ p \in K /\ p \in Address /\ c \in K \ {avail_head}
        /\ Bridged[p] = c /\ rank[p] < rank[c]
        /\ \A e \in K \ {p} : Bridged[e] = child[e]
        /\ K \subseteq Live /\ Live \subseteq Address
        /\ \A e \in K : rank[e] \in Int /\ e \in Address
    BY <1>1, <2>1, GatheredRow
  <2>3. c # p
    BY <2>2
  <2> QED
    BY <2>2, <2>3
<1>3. /\ isFree[c] /\ call' = [call EXCEPT !.cur = child[c]]
      /\ UNCHANGED <<start, isFree, child, last_before_sys, word, tangled, elem, asked>>
  BY DEF DefragSkips, blocks, memory, clients
<1>4. ChainOf(K, Bridged, rank) /\ child[c] \in (K \ {avail_head}) \cup {avail_tail}
      /\ rank[c] < rank[child[c]] /\ rank[child[c]] \in Int /\ child[c] \in Address
  <2>1. ChainOf(K, Bridged, rank)
    BY <1>1 DEF Gathered
  <2>2. Bridged[c] = child[c]
    BY <1>2
  <2> QED
    BY <1>2, <2>1, <2>2, Constants, ZenonT(60) DEF ChainOf
<1>5. call' \in Moving /\ call'.prev = p /\ call'.cur = child[c] /\ call'.pos = call.pos
  BY <1>3, <1>4 DEF Defragging, Moving
<1>6. Live' = Live
  BY <1>3 DEF Live, IsBlock
<1>7. /\ Bridged'[p] = child[c] /\ \A e \in K \ {p} : Bridged'[e] = child[e]
      /\ MovedEnds' = MovedEnds
  BY <1>2, <1>3, <1>5 DEF Bridged, MovedEnds, TypeOK
<1>15. PICK K1 : K1 = K \ {c}
  OBVIOUS
<1>8. ChainOf(K1, Bridged', rank)
  <2>1. /\ Bridged[p] = c /\ c \in K /\ Bridged'[p] = Bridged[Bridged[p]]
        /\ \A x \in K \ {p, Bridged[p]} : Bridged'[x] = Bridged[x]
    BY <1>2, <1>7
  <2> QED
    BY <1>2, <1>4, <1>15, <2>1, ChainWithout
<1>9. Placed(K1, rank, start, MovedEnds, start[avail_tail])
  BY <1>1, <1>2, <1>15 DEF Gathered, Placed
<1>10. \A e \in K1 : rank[e] < rank[child[c]] => ~ isFree[e] \/ e = avail_head
  <2> SUFFICES ASSUME NEW e \in K1, rank[e] < rank[child[c]] PROVE ~ isFree[e] \/ e = avail_head
    OBVIOUS
  <2>1. rank[c] < rank[e] => rank[child[c]] <= rank[e]
    BY <1>2, <1>4, <1>15 DEF ChainOf
  <2>2. rank[c] # rank[e]
    BY <1>2, <1>4, <1>15 DEF ChainOf
  <2>3. rank[e] < rank[c]
    BY <1>2, <1>4, <1>15, <2>1, <2>2
  <2> QED
    BY <1>1, <1>15, <2>3 DEF Gathered
<1>11. Owned(K1, MovedEnds)
  BY <1>1, <1>3, <1>15 DEF Gathered, Owned
<1>12. \A e \in Live \ K1 : isFree[e]
  BY <1>1, <1>3, <1>15 DEF Gathered
<1>13. Gathered(K1, rank)'
  <2>1. Owned(K1, MovedEnds)'
    BY <1>3, <1>7, <1>11 DEF Owned
  <2>2. K1 \subseteq Live' /\ call'.prev \in K1
    BY <1>2, <1>5, <1>6, <1>15
  <2>3. Covered(K1, MovedEnds, call.pos)'
    <3> SUFFICES ASSUME NEW w \in mem_start + 1 .. call.pos - 1
                 PROVE  \E e \in K1 : start[e] <= w /\ w < MovedEnds[e]
      BY <1>3, <1>5, <1>7 DEF Covered
    <3>1. PICK e \in K : start[e] <= w /\ w < MovedEnds[e]
      BY <1>1 DEF Gathered, Covered
    <3>2. MovedEnds[p] <= start[c] /\ start[c] \in Int
      BY <1>1, <1>2 DEF Gathered, Placed
    <3>3. MovedEnds[p] = call.pos /\ call.pos \in Int
      BY <1>1, GatheredRow
    <3>4. e # c
      BY <3>1, <3>2, <3>3, Constants
    <3> QED
      BY <1>15, <3>1, <3>4
  <2> QED
    BY <1>3, <1>5, <1>6, <1>7, <1>8, <1>9, <1>10, <1>12, <2>1, <2>2, <2>3 DEF Gathered
<1>14. Defragging'
  <2>1. Descriptors' /\ word'[mem_start] = avail_tail
    BY <1>3 DEF Defragging, Descriptors, IsBlock
  <2> QED
    BY <1>5, <1>13, <2>1 DEF Defragging
<1> QED
  BY <1>3, <1>14, DefraggingAfter DEF Types, TypeOK

LEMMA DefragMovesInv ==
    ASSUME TypeOK, Defragging, DefragMoves
    PROVE  Inv' /\ \A q \in Pointers : Keeps(q)
<1>1. PICK K, rank : Gathered(K, rank)
  BY DEF Defragging
<1>2. PICK c, p, pos, s : c = call.cur /\ p = call.prev /\ pos = call.pos /\ s = child[call.cur]
  OBVIOUS
<1>3. /\ p \in K /\ c \in K \ {avail_head} /\ c # p /\ pos \in Int
      /\ Bridged[p] = c /\ rank[p] < rank[c] /\ avail_head \in K
      /\ \A e \in K \ {p} : Bridged[e] = child[e]
      /\ K \subseteq Live /\ Live \subseteq Address
      /\ \A e \in K : rank[e] \in Int /\ e \in Address /\ e # avail_tail
      /\ MovedEnds[p] = pos /\ \A e \in K \ {p} : MovedEnds[e] = start[child[e]]
  <2>1. c # avail_tail
    BY <1>2, Constants DEF DefragMoves
  <2>2. c # p
    BY <1>1, <1>2, GatheredRow
  <2> QED
    BY <1>1, <1>2, <2>1, <2>2, GatheredRow
<1> DEFINE size == start[s] - start[c]
<1>4. /\ ~ isFree[c]
      /\ word' = Copied(word, pos, start[c], size)
      /\ start' = [start EXCEPT ![c] = pos]
      /\ child' = [child EXCEPT ![p] = c]
      /\ call' = [op |-> "defrag", prev |-> c, cur |-> s, pos |-> pos + size]
      /\ UNCHANGED <<isFree, last_before_sys, tangled, elem, asked>>
  BY <1>2 DEF DefragMoves, SizeOf, clients
<1>5. /\ ChainOf(K, Bridged, rank) /\ s \in (K \ {avail_head}) \cup {avail_tail}
      /\ rank[c] < rank[s] /\ rank[s] \in Int /\ s \in Address
  <2>1. ChainOf(K, Bridged, rank)
    BY <1>1 DEF Gathered
  <2>2. Bridged[c] = s
    BY <1>2, <1>3
  <2>3. s \in (K \ {avail_head}) \cup {avail_tail} /\ rank[c] < rank[s]
    BY <1>3, <2>1, <2>2 DEF ChainOf
  <2>4. s \in Address /\ rank \in [Address -> Int]
    BY <2>1, <2>3, Constants DEF ChainOf
  <2> QED
    BY <2>1, <2>3, <2>4
<1>6. /\ \A e \in K : /\ start[e] \in Int /\ MovedEnds[e] \in Int
                      /\ start[e] <= MovedEnds[e] /\ MovedEnds[e] <= start[avail_tail]
      /\ \A e, f \in K : rank[e] < rank[f] => MovedEnds[e] <= start[f]
      /\ start[avail_head] = mem_start /\ MovedEnds[avail_head] = mem_start + 1
      /\ Placed(K, rank, start, MovedEnds, start[avail_tail])
  BY <1>1 DEF Gathered, Placed
<1>7. MovedEnds[c] = start[s] /\ pos <= start[c] /\ start[s] \in Int /\ size \in Nat
      /\ pos + size <= MovedEnds[c] /\ mem_start + 1 <= pos
  <2>1. MovedEnds[c] = start[s] /\ pos <= start[c]
    BY <1>2, <1>3, <1>6
  <2>2. mem_start + 1 <= pos
    <3>1. CASE p = avail_head
      BY <1>3, <1>6, <3>1, Constants
    <3>2. CASE p # avail_head
      <4>1. start[p] >= mem_start + 1
        BY <1>3, <1>5, <1>6, <3>2, BehindHead
      <4> QED
        BY <1>3, <1>6, <4>1, Constants
    <3> QED
      BY <3>1, <3>2
  <2> QED
    BY <1>3, <1>6, <2>1, <2>2
<1>8. /\ start[avail_tail] \in Int /\ start[avail_tail] <= avail_tail
      /\ start' \in [Address -> Address \cup {nullptr}] /\ start'[c] = pos
      /\ \A x \in Address \ {c} : start'[x] = start[x]
      /\ pos \in Address /\ pos + size \in Address
  <2>1. start[avail_tail] \in Int /\ start[avail_tail] <= avail_tail
    BY Constants DEF Defragging, Descriptors, TypeOK
  <2>2. pos \in Address /\ pos + size \in Address
    <3>1. MovedEnds[c] <= start[avail_tail] /\ MovedEnds[c] \in Int
      BY <1>3, <1>6
    <3> HIDE DEF size
    <3> QED
      BY <1>3, <1>7, <2>1, <3>1, Constants
  <2> QED
    BY <1>3, <1>4, <2>1, <2>2 DEF TypeOK
<1> HIDE DEF size
<1>9. /\ child' \in [Address -> Address \cup {nullptr}]
      /\ child'[p] = c /\ \A x \in Address \ {p} : child'[x] = child[x]
      /\ child' = Bridged
  BY <1>2, <1>3, <1>4 DEF TypeOK, Bridged
<1>10. call' \in Moving /\ call'.prev = c /\ call'.cur = s /\ call'.pos = pos + size
  BY <1>3, <1>4, <1>5, <1>8 DEF Moving
<1>11. Live' = Live
  <2>1. p \in Live /\ c # nullptr
    BY <1>3, Constants
  <2> QED
    BY <1>9, <2>1 DEF Live, IsBlock
<1>12. Bridged' = Bridged
  <2>1. child'[c] = s
    BY <1>2, <1>3, <1>9
  <2>2. [child' EXCEPT ![c] = s] = child'
    BY <1>9, <2>1
  <2> QED
    BY <1>9, <1>10, <2>2 DEF Bridged
<1>13. /\ MovedEnds'[c] = pos + size
       /\ \A e \in K \ {c} : MovedEnds'[e] = MovedEnds[e]
  <2>1. MovedEnds' = [e \in Address |-> IF e = c THEN pos + size ELSE start'[child'[e]]]
    BY <1>10 DEF MovedEnds
  <2>2. ASSUME NEW e \in K \ {p, c} PROVE start'[child'[e]] = start[child[e]]
    <3>1. child'[e] = child[e] /\ child[e] = Bridged[e]
      BY <1>3, <1>9
    <3>2. Bridged[e] # c
      BY <1>3, <1>5, OneBefore
    <3>3. Bridged[e] \in Address
      BY <1>5, Constants DEF ChainOf
    <3> QED
      BY <1>8, <3>1, <3>2, <3>3
  <2>3. start'[child'[p]] = pos
    BY <1>8, <1>9
  <2> QED
    BY <1>3, <2>1, <2>2, <2>3
<1>14. Placed(K, rank, start', MovedEnds', start'[avail_tail])
  <2>1. start'[avail_tail] = start[avail_tail] /\ start'[avail_head] = start[avail_head]
        /\ \A e \in K \ {c} : start'[e] = start[e]
    BY <1>3, <1>8, Constants
  <2>2. ASSUME NEW e \in K
        PROVE  /\ start'[e] \in Int /\ MovedEnds'[e] \in Int
               /\ start'[e] <= MovedEnds'[e] /\ MovedEnds'[e] <= start'[avail_tail]
    <3>1. CASE e = c
      BY <1>3, <1>6, <1>7, <1>8, <1>13, <2>1, <3>1
    <3>2. CASE e # c
      BY <1>6, <1>13, <2>1, <3>2
    <3> QED
      BY <3>1, <3>2
  <2>3. ASSUME NEW e \in K, NEW f \in K, rank[e] < rank[f] PROVE MovedEnds'[e] <= start'[f]
    <3>1. CASE e = c
      <4>1. f # c /\ MovedEnds[c] <= start[f]
        BY <1>3, <1>6, <2>3, <3>1
      <4> QED
        BY <1>3, <1>6, <1>7, <1>8, <1>13, <2>1, <3>1, <4>1
    <3>2. CASE f = c /\ e # c
      <4>1. CASE e = p
        BY <1>3, <1>8, <1>13, <3>2, <4>1
      <4>2. CASE e # p
        <5>1. rank[p] < rank[e] => rank[c] <= rank[e]
          BY <1>3, <1>5 DEF ChainOf
        <5>2. rank[p] # rank[e]
          BY <1>3, <1>5, <4>2 DEF ChainOf
        <5>3. rank[e] < rank[p]
          BY <1>3, <2>3, <3>2, <5>1, <5>2
        <5>4. MovedEnds[e] <= start[p] /\ start[p] <= pos
          BY <1>3, <1>6, <5>3
        <5> QED
          BY <1>3, <1>6, <1>8, <1>13, <3>2, <5>4
      <4> QED
        BY <4>1, <4>2
    <3>3. CASE e # c /\ f # c
      BY <1>6, <1>13, <2>1, <2>3, <3>3
    <3> QED
      BY <3>1, <3>2, <3>3
  <2>4. start'[avail_head] = mem_start /\ MovedEnds'[avail_head] = mem_start + 1
    BY <1>3, <1>6, <1>13, <2>1
  <2> QED
    BY <2>2, <2>3, <2>4 DEF Placed
<1>15. \A e \in K : rank[e] < rank[s] => ~ isFree[e] \/ e = avail_head
  <2> SUFFICES ASSUME NEW e \in K, rank[e] < rank[s], e # c PROVE ~ isFree[e] \/ e = avail_head
    BY <1>4
  <2>1. rank[c] < rank[e] => rank[s] <= rank[e]
    BY <1>2, <1>3, <1>5 DEF ChainOf
  <2>2. rank[c] # rank[e]
    BY <1>3, <1>5 DEF ChainOf
  <2>3. rank[e] < rank[c]
    BY <1>3, <1>5, <2>1, <2>2
  <2> QED
    BY <1>1, <1>2, <2>3 DEF Gathered
<1>16. Owned(K, MovedEnds)'
  <2> SUFFICES ASSUME NEW q \in Pointers, elem[q] # nullptr
               PROVE  /\ elem[q] \in K /\ ~ isFree[elem[q]]
                      /\ \A r \in Pointers \ {q} : elem[r] # elem[q]
                      /\ asked[q] <= MovedEnds'[elem[q]] - start'[elem[q]]
    BY <1>4 DEF Owned
  <2>1. /\ elem[q] \in K /\ ~ isFree[elem[q]]
        /\ \A r \in Pointers \ {q} : elem[r] # elem[q]
        /\ asked[q] <= MovedEnds[elem[q]] - start[elem[q]]
    BY <1>1 DEF Gathered, Owned
  <2>2. CASE elem[q] = c
    <3>1. MovedEnds[c] - start[c] = size /\ MovedEnds'[c] - start'[c] = size
      BY <1>3, <1>6, <1>7, <1>8, <1>13 DEF size
    <3> QED
      BY <2>1, <2>2, <3>1
  <2>3. CASE elem[q] # c
    BY <1>3, <1>8, <1>13, <2>1, <2>3
  <2> QED
    BY <2>1, <2>2, <2>3
<1>17. Gathered(K, rank)'
  <2>1. ChainOf(K, Bridged', rank)
    BY <1>5, <1>12
  <2>2. \A e \in Live' \ K : isFree'[e]
    BY <1>1, <1>4, <1>11 DEF Gathered
  <2>3. \A e \in K : rank[e] < rank[call'.cur] => ~ isFree'[e] \/ e = avail_head
    BY <1>4, <1>10, <1>15
  <2>4. Covered(K, MovedEnds, call.pos)'
    <3>1. ASSUME NEW w \in mem_start + 1 .. pos + size - 1
          PROVE  \E e \in K : start'[e] <= w /\ w < MovedEnds'[e]
      <4>1. CASE w >= pos
        BY <1>3, <1>7, <1>8, <1>13, <4>1, Constants, SMTT(30)
      <4>2. CASE w < pos
        <5>1. PICK e \in K : start[e] <= w /\ w < MovedEnds[e]
          BY <1>1, <1>2, <1>3, <4>2, Constants DEF Gathered, Covered
        <5>2. e # c
          BY <1>3, <1>6, <1>7, <4>2, <5>1, Constants
        <5> QED
          BY <1>3, <1>8, <1>13, <5>1, <5>2
      <4> QED
        BY <1>3, <4>1, <4>2, Constants
    <3>2. \A w \in mem_start + 1 .. call'.pos - 1 :
              \E e \in K : start'[e] <= w /\ w < MovedEnds'[e]
      <4>1. call'.pos = pos + size /\ pos \in Int /\ size \in Int
        BY <1>3, <1>7, <1>10
      <4>2. mem_start + 1 .. call'.pos - 1 = mem_start + 1 .. pos + size - 1
        BY <4>1, Constants
      <4> QED
        BY <3>1, <4>2
    <3> QED
      BY <3>2 DEF Covered
  <2> QED
    BY <1>3, <1>10, <1>11, <1>14, <1>16, <2>1, <2>2, <2>3, <2>4 DEF Gathered
<1>18. word' \in [Address -> Address \cup {nullptr} \cup Pointers] /\ word'[mem_start] = avail_tail
  <2>1. \A w \in Address : w \in pos .. pos + size - 1 => start[c] + (w - pos) \in Address
    <3>1. start[c] \in Int /\ mem_start <= start[c] /\ start[c] + size <= avail_tail
      <4>1. start[c] \in Int /\ MovedEnds[c] <= start[avail_tail] /\ MovedEnds[c] \in Int
        BY <1>3, <1>6
      <4>2. start[c] + size = MovedEnds[c]
        BY <1>7, <4>1 DEF size
      <4> QED
        BY <1>3, <1>7, <1>8, <4>1, <4>2, Constants
    <3> QED
      BY <1>3, <1>7, <3>1, Constants, SMTT(30)
  <2>2. word \in [Address -> Address \cup {nullptr} \cup Pointers] /\ word[mem_start] = avail_tail
    BY DEF TypeOK, Defragging
  <2>3. mem_start \in Address /\ mem_start \notin pos .. pos + size - 1
    BY <1>3, <1>7, Constants
  <2> QED
    BY <1>4, <2>1, <2>2, <2>3 DEF Copied
<1>19. Descriptors'
  <2>1. \A x \in Address : IsBlock(x)' => IsBlock(x)
    BY <1>11 DEF Live
  <2>2. start'[avail_tail] = start[avail_tail] /\ start'[avail_head] = start[avail_head]
    BY <1>3, <1>8, Constants
  <2> QED
    BY <1>4, <2>1, <2>2 DEF Defragging, Descriptors
<1>20. Defragging'
  BY <1>10, <1>17, <1>18, <1>19 DEF Defragging
<1>21. ASSUME NEW q \in Pointers PROVE Keeps(q)
  <2> SUFFICES ASSUME elem[q] # nullptr, NEW i \in 1 .. asked[q]
               PROVE  word'[start'[elem[q]] + i - 1] = word[start[elem[q]] + i - 1]
    BY <1>4 DEF Keeps
  <2>1. /\ elem[q] \in K /\ asked[q] <= MovedEnds[elem[q]] - start[elem[q]]
        /\ asked[q] \in Nat /\ elem[q] # avail_head
    <3>1. elem[q] \in K /\ ~ isFree[elem[q]] /\ asked[q] <= MovedEnds[elem[q]] - start[elem[q]]
      BY <1>1 DEF Gathered, Owned
    <3>2. asked[q] \in Nat
      BY AllocatorAssumption DEF TypeOK
    <3> QED
      BY <3>1, <3>2 DEF Defragging, Descriptors
  <2>2. i \in Int /\ 1 <= i /\ i <= asked[q]
    BY <2>1
  <2>3. start[avail_tail] <= Size /\ start[avail_tail] \in Int
    BY <1>8, Constants
  <2>4. CASE elem[q] = c
    <3>1. pos + i - 1 \in pos .. pos + size - 1 /\ pos + i - 1 \in Address
          /\ start[c] + ((pos + i - 1) - pos) = start[c] + i - 1
      <4>1. asked[q] <= size
        BY <1>3, <1>6, <1>7, <2>1, <2>4 DEF size
      <4>2. start[c] \in Int /\ MovedEnds[c] <= start[avail_tail] /\ MovedEnds[c] \in Int
        BY <1>3, <1>6
      <4> QED
        BY <1>3, <1>7, <2>2, <2>3, <2>1, <4>1, <4>2, Constants
    <3> QED
      BY <1>4, <1>8, <2>4, <3>1 DEF Copied
  <2>5. CASE elem[q] # c
    <3>1. MovedEnds'[elem[q]] <= pos \/ pos + size <= start'[elem[q]]
      BY <1>5, <1>8, <1>13, <1>12, <1>3, <1>14, <2>1, <2>5, Apart
    <3>2. start'[elem[q]] = start[elem[q]] /\ MovedEnds'[elem[q]] = MovedEnds[elem[q]]
      BY <1>3, <1>8, <1>13, <2>1, <2>5
    <3>3. /\ start[elem[q]] \in Int /\ MovedEnds[elem[q]] \in Int
          /\ MovedEnds[elem[q]] <= start[avail_tail]
          /\ start[elem[q]] >= mem_start + 1
      BY <1>5, <1>6, <2>1, BehindHead
    <3>4. PICK f \in Int, t \in Int, n \in Nat :
              f = start[elem[q]] /\ t = MovedEnds[elem[q]] /\ n = asked[q]
      BY <2>1, <3>3
    <3>5. t <= pos \/ pos + size <= f
      BY <3>1, <3>2, <3>4
    <3>7. n <= t - f /\ t <= start[avail_tail] /\ f >= mem_start + 1 /\ i <= n
      BY <2>1, <2>2, <3>3, <3>4
    <3>8. t <= Size
      BY <2>3, <3>7, Constants
    <3>9. PICK b \in Int : b = pos + size
      BY <1>3, <1>7
    <3>6. f + i - 1 \in Address /\ f + i - 1 \notin pos .. pos + size - 1
      <4>2. pos \in Int /\ size \in Int /\ n \in Int /\ (t <= pos \/ b <= f)
        BY <1>3, <1>7, <3>5, <3>9
      <4>1. f + i - 1 \in Address /\ f + i - 1 # mem_start /\ f + i - 1 \notin pos .. b - 1
        BY <2>2, <3>7, <3>8, <4>2, OtherWords
      <4> QED
        BY <3>9, <4>1, <4>2
    <3> QED
      BY <1>4, <3>2, <3>4, <3>6 DEF Copied
  <2> QED
    BY <2>4, <2>5
<1> QED
  BY <1>4, <1>8, <1>9, <1>18, <1>20, <1>21, DefraggingAfter DEF Types, TypeOK

LEMMA DefragEndsInv ==
    ASSUME TypeOK, Defragging, DefragEnds
    PROVE  /\ Inv' /\ \A q \in Pointers : Keeps(q)
           /\ call'.op = "none" => \A m \in Live' : isFree'[m] => start'[m] < Ends'[m]
<1>1. PICK K, rank : Gathered(K, rank)
  BY DEF Defragging
<1>2. PICK p, pos, d : p = call.prev /\ pos = call.pos /\ d = NewElem
  OBVIOUS
<1>3. CASE Stop("overrun")
  <2>1. Inv'
    BY <1>3, StopInv DEF Failures
  <2> QED
    BY <1>3, <2>1 DEF Stop, Keeps, blocks, memory, clients
<1>4. CASE ~ Stop("overrun")
  <2>1. /\ call.cur = avail_tail /\ ~ (pos >= d)
        /\ start' = [e \in Address |-> CASE e = d -> pos
                                         [] e = avail_tail -> d
                                         [] e \in Retired -> nullptr
                                         [] OTHER -> start[e]]
        /\ isFree' = [e \in Address |-> e = d \/ (isFree[e] /\ e \notin Retired)]
        /\ child' = [e \in Address |-> CASE e = d -> avail_tail
                                         [] e = p -> d
                                         [] e \in Retired -> nullptr
                                         [] OTHER -> child[e]]
        /\ word' = AddToAvailList(word, d, pos)
        /\ last_before_sys' = d /\ tangled' = FALSE
        /\ call' = NoCall
        /\ UNCHANGED <<elem, asked>>
    BY <1>2, <1>4 DEF DefragEnds, Return, clients
  <2>2. /\ p \in K /\ pos \in Address
        /\ Bridged[p] = avail_tail /\ avail_head \in K
        /\ \A e \in K \ {p} : Bridged[e] = child[e]
        /\ K \subseteq Live
        /\ \A e \in K : rank[e] \in Int /\ e \in Address /\ e # avail_tail
        /\ MovedEnds[p] = pos /\ \A e \in K \ {p} : MovedEnds[e] = start[child[e]]
        /\ ChainOf(K, Bridged, rank)
        /\ Placed(K, rank, start, MovedEnds, start[avail_tail])
    <3>1. ChainOf(K, Bridged, rank) /\ pos \in Address
          /\ Placed(K, rank, start, MovedEnds, start[avail_tail])
      BY <1>1, <1>2 DEF Gathered, Defragging, Moving
    <3> QED
      BY <1>1, <1>2, <2>1, <3>1, GatheredRow
  <2>3. mem_start + 1 <= pos
    <3>1. CASE p = avail_head
      BY <2>2, <3>1, Constants DEF Placed
    <3>2. CASE p # avail_head
      <4>1. start[p] >= mem_start + 1
        BY <2>2, <3>2, BehindHead
      <4>2. start[p] \in Int /\ start[p] <= pos
        BY <2>2 DEF Placed
      <4> QED
        BY <2>2, <4>1, <4>2, Constants
    <3> QED
      BY <3>1, <3>2
  <2>4. /\ start[avail_tail] \in Int /\ start[avail_tail] <= avail_tail
        /\ d = start[avail_tail] - 2 /\ d \in Address /\ pos < d /\ d < avail_tail
        /\ d # avail_head /\ d \notin Live /\ ~ isFree[d]
        /\ d \notin Retired /\ avail_tail \notin Retired
    <3>1. start[avail_tail] \in Int /\ start[avail_tail] <= avail_tail
      BY Constants DEF Defragging, Descriptors, TypeOK
    <3>2. d = start[avail_tail] - 2 /\ pos < d /\ d \in Address /\ d < avail_tail /\ d # avail_head
      BY <1>2, <2>1, <2>2, <3>1, Constants, SMTT(30) DEF NewElem
    <3>3. d \notin Live /\ ~ isFree[d]
      BY <3>1, <3>2, Constants DEF Defragging, Descriptors, Live
    <3>4. d \notin Retired /\ avail_tail \notin Retired
      BY <3>1, <3>2, Constants DEF Retired
    <3> QED
      BY <3>1, <3>2, <3>3, <3>4
  <2>5. \A e \in K : /\ e \notin Retired /\ e # d /\ e # avail_tail
                     /\ e # avail_head => ~ isFree[e]
    <3> SUFFICES ASSUME NEW e \in K
                 PROVE  /\ e \notin Retired /\ e # d /\ e # avail_tail
                        /\ e # avail_head => ~ isFree[e]
      OBVIOUS
    <3>1. rank[e] < rank[avail_tail]
      BY <2>2 DEF ChainOf
    <3>2. ~ isFree[e] \/ e = avail_head
      BY <1>1, <2>1, <3>1 DEF Gathered
    <3>3. avail_head \notin Retired
      BY Constants DEF Retired
    <3> QED
      BY <2>2, <2>4, <3>2, <3>3 DEF Retired
  <2>6. \A e \in Address : isFree[e] /\ e # avail_head => e \in Retired
    BY DEF Retired, Defragging, Descriptors
  <2>7. /\ start'[d] = pos /\ start'[avail_tail] = d
        /\ \A e \in K : start'[e] = start[e]
        /\ start' \in [Address -> Address \cup {nullptr}]
    <3>1. avail_tail \in Address /\ avail_tail # d
      BY <2>4, Constants
    <3>2. \A e \in K : start'[e] = start[e]
      BY <2>1, <2>2, <2>5
    <3>3. start'[d] = pos /\ start'[avail_tail] = d
      BY <2>1, <2>4, <3>1
    <3>4. start' \in [Address -> Address \cup {nullptr}]
      BY <2>1, <2>2, <2>4 DEF TypeOK
    <3> QED
      BY <3>2, <3>3, <3>4
  <2>8. /\ child'[d] = avail_tail /\ child'[p] = d
        /\ \A e \in K \ {p} : child'[e] = child[e]
        /\ \A e \in Address \ (K \cup {d}) : child'[e] = nullptr
        /\ child' \in [Address -> Address \cup {nullptr}]
    <3>1. child'[d] = avail_tail /\ child'[p] = d
      BY <2>1, <2>2, <2>4, <2>5
    <3>2. \A e \in K \ {p} : child'[e] = child[e]
      BY <2>1, <2>2, <2>5
    <3>3. ASSUME NEW e \in Address \ (K \cup {d}) PROVE child'[e] = nullptr
      <4>1. e # p /\ e # avail_head
        BY <2>2
      <4>2. CASE e \in Retired
        BY <2>1, <4>1, <4>2
      <4>3. CASE e \notin Retired
        <5>1. e \notin Live
          BY <1>1, <2>6, <4>1, <4>3 DEF Gathered
        <5> QED
          BY <2>1, <4>1, <4>3, <5>1 DEF Live, IsBlock
      <4> QED
        BY <4>2, <4>3
    <3>4. child' \in [Address -> Address \cup {nullptr}]
      BY <2>1, <2>4, Constants DEF TypeOK
    <3> QED
      BY <3>1, <3>2, <3>3, <3>4
  <2>9. Live' = K \cup {d}
    <3>1. \A e \in K : child'[e] # nullptr
      BY <2>2, <2>4, <2>8, Constants DEF Live, IsBlock
    <3>2. child'[d] # nullptr
      BY <2>8, Constants
    <3> QED
      BY <2>2, <2>4, <2>8, <3>1, <3>2, ZenonT(60) DEF Live, IsBlock
  <2>10. \A e \in K \ {p} : child[e] \in K /\ child[e] # avail_tail
    <3> SUFFICES ASSUME NEW e \in K \ {p} PROVE child[e] \in K /\ child[e] # avail_tail
      OBVIOUS
    <3>1. Bridged[e] # Bridged[p] /\ Bridged[e] = child[e]
      BY <2>2, OneBefore
    <3> QED
      BY <2>2, <3>1 DEF ChainOf
  <2>11. /\ Ends'[p] = pos /\ Ends'[d] = d
         /\ \A e \in K \ {p} : Ends'[e] = MovedEnds[e]
    <3>1. \A e \in Address : Ends'[e] = start'[child'[e]]
      BY DEF Ends
    <3>2. Ends'[p] = pos /\ Ends'[d] = d
      BY <2>2, <2>4, <2>7, <2>8, <3>1, ZenonT(60)
    <3>3. ASSUME NEW e \in K \ {p} PROVE Ends'[e] = MovedEnds[e]
      <4>1. Ends'[e] = start'[child[e]] /\ child[e] \in K
        BY <2>2, <2>8, <2>10, <3>1
      <4> QED
        BY <2>2, <2>7, <4>1
    <3> QED
      BY <3>2, <3>3
  <2>12. \E rank1 : ChainOf(K \cup {d}, child', rank1) /\ Placed(K \cup {d}, rank1, start', Ends', d)
    <3>1. d \in Address \ (K \cup {avail_tail})
      BY <2>4, <2>5, Constants
    <3>2. child'[p] = d /\ child'[d] = Bridged[p] /\ \A x \in K \ {p} : child'[x] = Bridged[x]
      BY <2>2, <2>8
    <3>3. pos \in Int /\ start[p] <= pos /\ pos <= MovedEnds[p] /\ start[p] \in Int
      BY <2>2, Constants DEF Placed
    <3>4. d \in Int /\ d <= start[avail_tail]
      BY <2>4
    <3>5. \A x \in K : Bridged[x] = avail_tail => x = p
      BY <2>2, OneBefore
    <3>6. \A x \in K : Bridged[x] = avail_tail => start[x] < d /\ (x = p => pos < d)
      BY <2>4, <3>3, <3>5
    <3>7. /\ Ends'[p] = pos /\ Ends'[d] = IF Bridged[p] = avail_tail THEN d ELSE MovedEnds[p]
          /\ \A x \in K \ {p} : Ends'[x] = IF Bridged[x] = avail_tail THEN d ELSE MovedEnds[x]
      BY <2>2, <2>11, <3>5
    <3> QED
      BY <2>2, <2>4, <2>7, <3>1, <3>2, <3>3, <3>4, <3>6, <3>7, ChainWith
  <2>13. Row'
    <3>1. \A e \in Live' : IsLast(e)' => start'[e] < start'[avail_tail]
      <4> SUFFICES ASSUME NEW e \in K \cup {d}, child'[e] = avail_tail PROVE start'[e] < d
        BY <2>7, <2>9 DEF IsLast
      <4>1. e = d
        BY <2>4, <2>8, <2>10
      <4> QED
        BY <2>4, <2>7, <4>1
    <3>2. Covered(Live, Ends, start[avail_tail])'
      <4> SUFFICES ASSUME NEW w \in mem_start + 1 .. d - 1
                   PROVE  \E e \in K \cup {d} : start'[e] <= w /\ w < Ends'[e]
        BY <2>7, <2>9 DEF Covered
      <4>1. CASE w >= pos
        BY <2>4, <2>7, <2>11, <4>1, Constants
      <4>2. CASE w < pos
        <5>1. PICK e \in K : start[e] <= w /\ w < MovedEnds[e]
          BY <1>1, <1>2, <2>2, <4>2, Constants DEF Gathered, Covered
        <5> QED
          BY <2>2, <2>7, <2>11, <5>1
      <4> QED
        BY <2>2, <4>1, <4>2, Constants
    <3> QED
      BY <2>7, <2>9, <2>12, <3>1, <3>2 DEF Row
  <2>14. isFree' \in [Address -> BOOLEAN] /\ Members' = {d, avail_head}
         /\ \A e \in K : e # avail_head => ~ isFree'[e]
    <3>1. isFree' \in [Address -> BOOLEAN]
      BY <2>1
    <3>2. \A e \in Address : isFree'[e] <=> e = d \/ e = avail_head
      BY <2>1, <2>5, <2>2, <2>6 DEF Defragging, Descriptors
    <3>3. Members' = {d, avail_head}
      BY <2>4, <3>2, Constants DEF Members
    <3> QED
      BY <2>2, <2>5, <3>1, <3>2, <3>3
  <2>15. /\ word' \in [Address -> Address \cup {nullptr} \cup Pointers]
         /\ word'[mem_start] = d /\ word'[pos] = avail_tail
    <3>1. word' = AddToAvailList(word, d, pos) /\ pos # mem_start /\ mem_start \in Address
          /\ word[mem_start] = avail_tail
          /\ word \in [Address -> Address \cup {nullptr} \cup Pointers]
      BY <2>1, <2>2, <2>3, Constants DEF Defragging, TypeOK
    <3> QED
      BY <2>2, <2>4, <3>1, Constants DEF AddToAvailList
  <2>16. start'[avail_head] = mem_start /\ pos # mem_start /\ mem_start \in Address
    BY <2>2, <2>3, <2>7, Constants DEF Placed
  <2>17. FreeList'
    <3>1. Links'[avail_head] = d /\ Links'[d] = avail_tail
      BY <2>4, <2>7, <2>15, <2>16, Constants DEF Links
    <3>2. d \in Address \ {avail_head, avail_tail}
      BY <2>4, Constants
    <3> DEFINE linked == Links'
    <3>3. \E place : ListOf({avail_head, d}, linked, place)
      <4> HIDE DEF linked
      <4>1. linked[avail_head] = d /\ linked[d] = avail_tail
        BY <3>1 DEF linked
      <4> QED
        BY <3>2, <4>1, ListOfTwo
    <3>4. MembersApart'
      BY <2>2, <2>7, <2>14, <2>16 DEF MembersApart
    <3> QED
      BY <2>14, <3>3, <3>4 DEF FreeList
  <2>24. Located' /\ Listed'
    BY <2>17 DEF Located, Listed, FreeList, MembersApart
  <2>18. Owned(Live, Ends)'
    <3> SUFFICES ASSUME NEW q \in Pointers, elem[q] # nullptr
                 PROVE  /\ elem[q] \in Live' /\ ~ isFree'[elem[q]]
                        /\ \A r \in Pointers \ {q} : elem[r] # elem[q]
                        /\ asked[q] <= Ends'[elem[q]] - start'[elem[q]]
      BY <2>1 DEF Owned
    <3>1. /\ elem[q] \in K /\ ~ isFree[elem[q]]
          /\ \A r \in Pointers \ {q} : elem[r] # elem[q]
          /\ asked[q] <= MovedEnds[elem[q]] - start[elem[q]]
      BY <1>1 DEF Gathered, Owned
    <3>2. elem[q] # avail_head
      BY <3>1 DEF Defragging, Descriptors
    <3> QED
      BY <2>2, <2>7, <2>9, <2>11, <2>14, <3>1, <3>2
  <2>19. Descriptors'
    <3>1. Members' \subseteq Members \cup {d} /\ avail_head \in Members'
      BY <2>14, Constants DEF Defragging, Descriptors, Members
    <3>2. ASSUME NEW e \in Address, IsBlock(e)' \/ isFree'[e]
          PROVE  e >= d /\ (e < avail_tail \/ e = avail_head)
      <4>1. e \in Live' \/ e \in Members'
        BY <3>2 DEF Live, Members
      <4>2. CASE e = d
        BY <2>4, <4>2
      <4>3. CASE e # d
        <5>1. IsBlock(e) \/ isFree[e]
          BY <2>2, <2>9, <3>1, <4>1, <4>3 DEF Live, Members
        <5>2. e >= start[avail_tail] /\ (e < avail_tail \/ e = avail_head)
          BY <5>1 DEF Defragging, Descriptors
        <5> QED
          BY <2>4, <5>2, Constants
      <4> QED
        BY <4>2, <4>3
    <3>3. isFree'[avail_head]
      BY <2>14, Constants DEF Members
    <3>4. start'[avail_tail] <= avail_tail
      BY <2>4, <2>7, Constants
    <3> QED
      BY <2>7, <2>16, <3>2, <3>3, <3>4 DEF Descriptors
  <2>20. CallGoesOn'
    BY <2>1 DEF CallGoesOn
  <2>21. Types'
    BY <2>1, <2>4, <2>7, <2>8, <2>14, <2>15 DEF Types, TypeOK
  <2>22. ASSUME NEW q \in Pointers PROVE Keeps(q)
    <3> SUFFICES ASSUME elem[q] # nullptr, NEW i \in 1 .. asked[q]
                 PROVE  word'[start'[elem[q]] + i - 1] = word[start[elem[q]] + i - 1]
      BY <2>1 DEF Keeps
    <3>1. /\ elem[q] \in K /\ asked[q] <= MovedEnds[elem[q]] - start[elem[q]]
          /\ elem[q] # avail_head
      BY <1>1 DEF Gathered, Owned, Defragging, Descriptors
    <3>2. i \in Int /\ 1 <= i /\ i <= asked[q] /\ asked[q] \in Int
      BY AllocatorAssumption DEF TypeOK
    <3>3. /\ start[elem[q]] \in Int /\ MovedEnds[elem[q]] \in Int
          /\ MovedEnds[elem[q]] <= start[avail_tail]
          /\ start[elem[q]] >= mem_start + 1
      BY <2>2, <3>1, BehindHead DEF Placed
    <3>4. MovedEnds[elem[q]] = Ends'[elem[q]]
      BY <2>2, <2>11, <3>1
    <3>5. Ends'[elem[q]] <= pos \/ d <= start[elem[q]]
      BY <2>5, <2>7, <2>11, <2>12, <3>1, Apart
    <3>6. Ends'[elem[q]] <= d
      BY <2>12, <3>1 DEF Placed
    <3>7. PICK f \in Int, t \in Int, n \in Int :
              f = start[elem[q]] /\ t = MovedEnds[elem[q]] /\ n = asked[q]
      BY <3>2, <3>3
    <3>8. n <= t - f /\ t <= start[avail_tail] /\ f >= mem_start + 1 /\ i <= n
          /\ (t <= pos \/ d <= f) /\ t <= d
      BY <3>1, <3>2, <3>3, <3>4, <3>5, <3>6, <3>7
    <3>10. pos \in Int /\ d \in Int /\ t <= Size /\ pos \in pos .. d - 1
      BY <2>2, <2>4, <3>7, <3>8, Constants, SMTT(30)
    <3>9. f + i - 1 \in Address /\ f + i - 1 # pos /\ f + i - 1 # mem_start
      <4>1. f + i - 1 \in Address /\ f + i - 1 # mem_start /\ f + i - 1 \notin pos .. d - 1
        BY <3>2, <3>8, <3>10, OtherWords
      <4> QED
        BY <3>10, <4>1
    <3> QED
      BY <2>1, <2>2, <2>7, <3>1, <3>7, <3>9 DEF AddToAvailList, TypeOK
  <2>23. \A m \in Live' : isFree'[m] => start'[m] < Ends'[m]
    <3>1. start'[avail_head] < Ends'[avail_head]
      BY <2>12, Constants DEF Placed
    <3> QED
      BY <2>4, <2>7, <2>9, <2>11, <2>14, <3>1
  <2> QED
    BY <2>13, <2>24, <2>18, <2>19, <2>20, <2>21, <2>22, <2>23, TidyAfter DEF Tidy
<1> QED
  BY <1>3, <1>4

-----------------------------------------------------------------------------

LEMMA InitInv == Init => Inv
<1> SUFFICES ASSUME Init PROVE Inv
  OBVIOUS
<1> DEFINE first == mem_end - 6
<1>1. /\ first = Size - 5 /\ first \in Address /\ first # avail_head /\ first # avail_tail
      /\ mem_start \in Address /\ mem_start + 1 = 2 /\ 2 \in Address /\ 2 < first
  BY Constants DEF mem_end
<1> HIDE DEF first
<1>2. /\ start = [e \in Address |-> CASE e = avail_head -> mem_start
                                      [] e = avail_tail -> first
                                      [] e = first -> mem_start + 1
                                      [] OTHER -> nullptr]
      /\ isFree = [e \in Address |-> e \in {avail_head, first}]
      /\ child = [e \in Address |-> CASE e = avail_head -> first
                                      [] e = first -> avail_tail
                                      [] OTHER -> nullptr]
      /\ word = [w \in Address |-> CASE w = mem_start -> first
                                     [] w = mem_start + 1 -> avail_tail
                                     [] OTHER -> nullptr]
      /\ last_before_sys = first
      /\ elem = [p \in Pointers |-> nullptr]
      /\ asked = [p \in Pointers |-> 0]
      /\ call = NoCall
      /\ tangled = FALSE
  BY DEF Init, first
<1>3. /\ start[avail_head] = 1 /\ start[avail_tail] = first /\ start[first] = 2
      /\ child[avail_head] = first /\ child[first] = avail_tail
      /\ word[1] = first /\ word[2] = avail_tail
  BY <1>1, <1>2, Constants
<1>4. Live = {avail_head, first} /\ Members = {avail_head, first}
  BY <1>1, <1>2, Constants DEF Live, IsBlock, Members
<1>5. Types
  <2>1. 0 \in 0 .. MaxSize
    BY AllocatorAssumption
  <2>2. tangled \in BOOLEAN
    BY <1>2
  <2>3. word \in [Address -> Address \cup {nullptr} \cup Pointers]
    BY <1>1, <1>2, Constants
  <2>4. /\ start \in [Address -> Address \cup {nullptr}]
        /\ child \in [Address -> Address \cup {nullptr}]
    BY <1>1, <1>2, Constants
  <2> QED
    BY <1>1, <1>2, <2>1, <2>2, <2>3, <2>4 DEF Types
<1>6. Descriptors
  <2>1. \A e \in Address : IsBlock(e) \/ isFree[e] => e = avail_head \/ e = first
    BY <1>4 DEF Live, Members
  <2>2. isFree[avail_head]
    BY <1>2, Constants
  <2> QED
    BY <1>1, <1>3, <2>1, <2>2, Constants DEF Descriptors
<1>7. Row
  <2> DEFINE rank == [e \in Address |-> CASE e = avail_head -> 0
                                          [] e = first -> 1
                                          [] OTHER -> 2]
  <2>1. rank \in [Address -> Int] /\ rank[avail_head] = 0 /\ rank[first] = 1 /\ rank[avail_tail] = 2
    BY <1>1, Constants
  <2> HIDE DEF rank
  <2>2. ChainOf({avail_head, first}, child, rank)
    BY <1>1, <1>3, <2>1, Constants DEF ChainOf
  <2>3. Ends[avail_head] = 2 /\ Ends[first] = first
    BY <1>1, <1>3, Constants DEF Ends
  <2>4. Placed({avail_head, first}, rank, start, Ends, first)
    BY <1>1, <1>3, <2>1, <2>3, Constants DEF Placed
  <2>5. \A e \in Live : IsLast(e) => start[e] < start[avail_tail]
    BY <1>1, <1>3, <1>4 DEF IsLast
  <2>6. Covered(Live, Ends, start[avail_tail])
    BY <1>1, <1>3, <1>4, <2>3 DEF Covered
  <2> QED
    BY <1>3, <1>4, <2>2, <2>4, <2>5, <2>6 DEF Row
<1>8. FreeList
  <2>2. Links[avail_head] = first /\ Links[first] = avail_tail
    BY <1>1, <1>3, Constants DEF Links
  <2>3. \E place : ListOf({avail_head, first}, Links, place)
    BY <1>1, <2>2, Constants, ListOfTwo
  <2>4. MembersApart
    BY <1>1, <1>3, <1>4, Constants DEF MembersApart
  <2> QED
    BY <1>4, <2>3, <2>4 DEF FreeList
<1>10. Located /\ Listed
  BY <1>8 DEF Located, Listed, FreeList, MembersApart
<1>9. Owned(Live, Ends) /\ CallGoesOn
  BY <1>2 DEF Owned, CallGoesOn
<1> QED
  BY <1>2, <1>5, <1>6, <1>7, <1>9, <1>10
     DEF Inv, Tidy, Types, TypeOK, NoCall, Failures

LEMMA StutterInv == ASSUME Inv, UNCHANGED vars PROVE Inv'
<1>1. UNCHANGED <<start, isFree, child, word, tangled, last_before_sys, elem, asked, call>>
  BY DEF vars, blocks, memory, clients
<1>2. Live' = Live /\ Ends' = Ends /\ Members' = Members /\ Links' = Links
      /\ Bridged' = Bridged /\ MovedEnds' = MovedEnds
  BY <1>1 DEF Live, IsBlock, Ends, Members, Links, Bridged, MovedEnds
<1>3. TypeOK'
  BY <1>1 DEF Inv, TypeOK
<1>4. ASSUME Tidy PROVE Tidy'
  BY <1>1, <1>2, <1>4
     DEF Tidy, Descriptors, Row, Covered, IsBlock, IsLast, Located, Listed, FreeList, MembersApart, Owned, CallGoesOn,
         next, SizeOf
<1>5. ASSUME Defragging PROVE Defragging'
  <2>1. PICK K, rank : Gathered(K, rank)
    BY <1>5 DEF Defragging
  <2>2. Gathered(K, rank)'
    BY <1>1, <1>2, <2>1 DEF Gathered, Covered, Owned
  <2> QED
    BY <1>1, <1>5, <2>2 DEF Defragging, Descriptors, IsBlock
<1> QED
  BY <1>1, <1>3, <1>4, <1>5 DEF Inv

LEMMA ClientInv == ASSUME Inv, Client PROVE Inv'
<1>1. call.op = "none"
  BY DEF Client, Alloc, Realloc, Write, Free, Defrag, Idle, NoCall
<1>2. TypeOK /\ Tidy
  BY <1>1 DEF Inv, Failures
<1> QED
  BY <1>2, AllocInv, ReallocInv, WriteInv, FreeInv, DefragInv DEF Client

LEMMA TurnInv == ASSUME Inv, Turn PROVE Inv'
<1>1. CASE DefragSkips \/ DefragMoves \/ DefragEnds
  <2>1. TypeOK /\ Defragging
    BY <1>1 DEF Inv, DefragSkips, DefragMoves, DefragEnds, Failures
  <2> QED
    BY <1>1, <2>1, DefragSkipsInv, DefragMovesInv, DefragEndsInv
<1>2. CASE ~ (DefragSkips \/ DefragMoves \/ DefragEnds)
  <2>1. call.op \in {"alloc", "move", "join", "joined", "copy"}
    BY <1>2 DEF Turn, SearchFails, SearchGoesWild, DropAbsorbed, TakeAll, TakePart,
         TakePartFails, TakePartLost, Merge, Advance, Join, JoinEnds, GrowInPlace,
         GrowElsewhere, Move, TooLarge, TooSmall, AtBlock, Searching
  <2>2. TypeOK /\ Tidy
    BY <2>1 DEF Inv, Failures
  <2>3. ASSUME SearchGoesWild \/ TakePartLost PROVE Inv'
    BY <2>2, <2>3, StopInv DEF SearchGoesWild, TakePartLost, Failures
  <2> QED
    BY <1>2, <2>2, <2>3, SearchFailsInv, DropAbsorbedInv, TakeAllInv, TakePartInv,
       TakePartFailsInv, MergeInv, AdvanceInv, JoinInv, JoinEndsInv, GrowInPlaceInv,
       GrowElsewhereInv, MoveInv DEF Turn
<1> QED
  BY <1>1, <1>2

LEMMA InvAlways == Spec => []Inv
<1>1. Inv /\ [Next]_vars => Inv'
  BY ClientInv, TurnInv, StutterInv DEF Next
<1> QED
  BY <1>1, InitInv, PTL DEF Spec

-----------------------------------------------------------------------------
(* The results *)

(* Descriptors, words and calls are what the code takes them for.          *)
THEOREM TypeTheorem == Spec => []TypeOK
<1>1. Inv => TypeOK
  BY DEF Inv
<1> QED
  BY <1>1, InvAlways, PTL

(* A client's block is a used one of its own, as large as it was promised, *)
(* in a region of any size with any number of clients                      *)
(* (allocator.cpp:43-91, 200-241).                                         *)
THEOREM ClientsTheorem == Spec => []ClientsHaveBlocks
<1>1. ASSUME Inv, call.op \notin Failures,
             NEW p \in Pointers, elem[p] # nullptr
      PROVE  /\ IsBlock(elem[p]) /\ ~ isFree[elem[p]]
             /\ \A q \in Pointers \ {p} : elem[q] # elem[p]
             /\ call.op # "defrag" => asked[p] <= SizeOf(elem[p])
  <2>1. CASE call.op = "defrag"
    <3>1. PICK K, rank : Gathered(K, rank)
      BY <1>1, <2>1 DEF Inv, Defragging
    <3> QED
      BY <1>1, <2>1, <3>1 DEF Gathered, Owned, Live
  <2>2. CASE call.op # "defrag"
    <3>1. Owned(Live, Ends)
      BY <1>1, <2>2 DEF Inv, Tidy
    <3> QED
      BY <1>1, <3>1 DEF Owned, Live, Ends, SizeOf
  <2> QED
    BY <2>1, <2>2
<1>2. Inv => ClientsHaveBlocks
  BY <1>1 DEF ClientsHaveBlocks
<1> QED
  BY <1>2, InvAlways, PTL

LEMMA OneBlockIsLeft ==
    ASSUME TypeOK, Defragging, DefragEnds, call'.op = "none"
    PROVE  Members' = {avail_head, last_before_sys'}
<1>1. /\ ~ (call.pos >= NewElem)
      /\ isFree' = [e \in Address |-> e = NewElem \/ (isFree[e] /\ e \notin Retired)]
      /\ last_before_sys' = NewElem
  BY DEF DefragEnds, Stop
<1>2. NewElem \in Address
  <2>1. start[avail_tail] \in Int /\ start[avail_tail] <= avail_tail /\ call.pos \in Address
    BY Constants DEF Defragging, Descriptors, Moving, TypeOK
  <2> QED
    BY <1>1, <2>1, Constants, SMTT(30) DEF NewElem
<1>3. \A e \in Address : (isFree[e] /\ e \notin Retired) <=> e = avail_head
  <2>1. \A e \in Address : isFree[e] => e \in Retired \/ e = avail_head
    BY DEF Defragging, Descriptors, Retired
  <2>2. isFree[avail_head] /\ avail_head \notin Retired
    BY Constants DEF Defragging, Descriptors, Retired
  <2> QED
    BY <2>1, <2>2
<1> QED
  BY <1>1, <1>2, <1>3, Constants DEF Members

(* After defrag all that is free is in one block behind the used ones.     *)
THEOREM DefragTheorem == Spec => DefragCompacts
<1>1. ASSUME Inv, Next, call.op = "defrag", call'.op = "none"
      PROVE  Members' = {avail_head, last_before_sys'}
  <2>1. TypeOK /\ Defragging
    BY <1>1 DEF Inv, Failures
  <2>2. DefragSkips \/ DefragMoves \/ DefragEnds
    BY <1>1 DEF Next, Client, Alloc, Realloc, Write, Free, Defrag, Idle, NoCall, Turn,
       SearchFails, SearchGoesWild, DropAbsorbed, TakeAll, TakePart, TakePartFails,
       TakePartLost, Merge, Advance, Join, JoinEnds, GrowInPlace, GrowElsewhere, Move,
       TooLarge, TooSmall, AtBlock, Searching
  <2>3. ~ DefragSkips
    <3>1. call \in [op : {"defrag"}, prev : Address, cur : Address, pos : Address]
      BY <2>1 DEF Defragging, Moving
    <3>2. [call EXCEPT !.cur = child[call.cur]].op = "defrag"
      BY <3>1
    <3> QED
      BY <1>1, <3>2 DEF DefragSkips
  <2>4. ~ DefragMoves
    BY <1>1 DEF DefragMoves
  <2> QED
    BY <1>1, <2>1, <2>2, <2>3, <2>4, OneBlockIsLeft
<1>2. Inv /\ [Next]_vars
          => [call.op = "defrag" /\ call'.op = "none" => Members' = {avail_head, last_before_sys'}]_vars
  BY <1>1
<1> QED
  BY <1>2, InvAlways, PTL DEF Spec, DefragCompacts

(* Outside defrag, every word from the second to the border is of one      *)
(* block, and of one only, whatever was split, absorbed and moved.         *)
THEOREM TilesTheorem == Spec => []BlocksTile
<1>1. ASSUME Inv, call.op \notin {"defrag"} \cup Failures,
             NEW w \in mem_start + 1 .. start[avail_tail] - 1
      PROVE  \E e \in Blocks :
                 /\ w >= start[e] /\ w < start[e] + SizeOf(e)
                 /\ \A f \in Blocks \ {e} : w < start[f] \/ w >= start[f] + SizeOf(f)
  <2>1. TypeOK /\ Descriptors /\ Row /\ w \in Int
    BY <1>1, Constants DEF Inv, Tidy
  <2>2. PICK rank : ChainOf(Live, child, rank) /\ Placed(Live, rank, start, Ends, start[avail_tail])
    BY <2>1 DEF Row
  <2>3. PICK e \in Live : start[e] <= w /\ w < Ends[e]
    BY <2>1 DEF Row, Covered
  <2>4. \A f \in Live : start[f] \in Int /\ Ends[f] \in Int /\ start[f] + SizeOf(f) = Ends[f]
    BY <2>1, LiveRow DEF Ends, SizeOf
  <2>5. e # avail_head
    BY <2>1, <2>2, <2>3, Constants DEF Placed
  <2>6. \A f \in Live \ {e} : w < start[f] \/ w >= Ends[f]
    <3> SUFFICES ASSUME NEW f \in Live \ {e} PROVE w < start[f] \/ w >= Ends[f]
      OBVIOUS
    <3>1. Ends[e] <= start[f] \/ Ends[f] <= start[e]
      BY <2>2, Apart
    <3> QED
      BY <2>1, <2>3, <2>4, <3>1
  <2>7. Blocks \subseteq Live /\ e \in Blocks
    BY <2>5 DEF Blocks, Live
  <2> QED
    BY <2>1, <2>3, <2>4, <2>6, <2>7
<1>2. Inv => BlocksTile
  BY <1>1 DEF BlocksTile
<1> QED
  BY <1>2, InvAlways, PTL

-----------------------------------------------------------------------------
(* What is in the blocks *)

(* A free block has words: a link in its first is no client's. *)
FreeRoom == \A m \in Live : isFree[m] => start[m] < Ends[m]

(***************************************************************************)
(* The link that a search may have to set is no client's, even when its    *)
(* block was absorbed by the one after it in the list; and a block that    *)
(* moves is smaller than the one it moves to.                              *)
(***************************************************************************)
Roomy ==
    call.op \notin {"defrag"} \cup Failures =>
        /\ FreeRoom
        /\ Searching => \A q \in Pointers : ~ OfClient(start[call.prev], q)
        /\ call.op \in {"move", "copy"} => SizeOf(elem[call.p]) < call.size

Contents == [p \in Pointers |-> Content(p)]

HeapStep == Heap!Next \/ Contents' = Contents

LEMMA OwnBlock ==
    ASSUME TypeOK, Tidy, NEW q \in Pointers, elem[q] # nullptr
    PROVE  /\ elem[q] \in Live /\ elem[q] \in Address /\ ~ isFree[elem[q]]
           /\ elem[q] # avail_head /\ elem[q] # avail_tail
           /\ start[elem[q]] \in Int /\ Ends[elem[q]] \in Int /\ asked[q] \in Nat
           /\ start[elem[q]] >= mem_start + 1
           /\ asked[q] <= Ends[elem[q]] - start[elem[q]]
           /\ Ends[elem[q]] <= Size
           /\ Ends[elem[q]] = start[child[elem[q]]]
<1>1. /\ elem[q] \in Live /\ ~ isFree[elem[q]]
      /\ asked[q] <= Ends[elem[q]] - start[elem[q]]
  BY DEF Tidy, Owned
<1>2. elem[q] \in Address /\ elem[q] # avail_head /\ elem[q] # avail_tail
  BY <1>1, LiveRow DEF Tidy, Descriptors
<1>3. start[elem[q]] \in Int /\ Ends[elem[q]] \in Int /\ Ends[elem[q]] <= start[avail_tail]
      /\ Ends[elem[q]] = start[child[elem[q]]] /\ start[avail_tail] \in Address
  BY <1>1, <1>2, LiveRow DEF Tidy, Ends
<1>4. start[elem[q]] >= mem_start + 1
  BY <1>1, <1>2, BehindHead DEF Tidy, Row
<1>5. asked[q] \in Nat
  BY AllocatorAssumption DEF TypeOK
<1> QED
  BY <1>1, <1>2, <1>3, <1>4, <1>5, Constants

(* A word of another block. *)
LEMMA NotOfClient ==
    ASSUME TypeOK, Tidy, NEW e \in Live, NEW w \in Int, start[e] <= w, w < Ends[e],
           NEW q \in Pointers, elem[q] # e
    PROVE  ~ OfClient(w, q)
<1> SUFFICES ASSUME OfClient(w, q) PROVE FALSE
  OBVIOUS
<1>1. elem[q] # nullptr /\ w >= start[elem[q]] /\ w < start[elem[q]] + asked[q]
  BY DEF OfClient
<1>2. /\ elem[q] \in Live /\ start[elem[q]] \in Int /\ Ends[elem[q]] \in Int /\ asked[q] \in Nat
      /\ asked[q] <= Ends[elem[q]] - start[elem[q]]
  BY <1>1, OwnBlock
<1>3. Ends[e] <= start[elem[q]] \/ Ends[elem[q]] <= start[e]
  BY <1>2, Apart DEF Tidy, Row
<1>4. start[e] \in Int /\ Ends[e] \in Int
  BY LiveRow DEF Tidy, Ends
<1> QED
  BY <1>1, <1>2, <1>3, <1>4

LEMMA HeadNotOfClient ==
    ASSUME TypeOK, Tidy, NEW q \in Pointers
    PROVE  ~ OfClient(mem_start, q)
<1>1. elem[q] # nullptr => start[elem[q]] >= mem_start + 1 /\ start[elem[q]] \in Int
  BY OwnBlock
<1> QED
  BY <1>1, Constants DEF OfClient

LEMMA LinkNotOfClient ==
    ASSUME TypeOK, Tidy, FreeRoom, NEW m \in Live, isFree[m], NEW q \in Pointers
    PROVE  ~ OfClient(start[m], q)
<1>1. start[m] \in Int /\ start[m] < Ends[m]
  BY LiveRow DEF Tidy, FreeRoom
<1>2. CASE elem[q] = nullptr
  BY <1>2 DEF OfClient
<1>3. CASE elem[q] # nullptr
  <2>1. elem[q] # m
    BY <1>3, OwnBlock
  <2> QED
    BY <1>1, <2>1, NotOfClient
<1> QED
  BY <1>2, <1>3

(* The words of q are where they were, and as they were. *)
LEMMA KeepsWords ==
    ASSUME TypeOK, Tidy, NEW q \in Pointers, elem'[q] = elem[q], asked'[q] = asked[q],
           elem[q] # nullptr => start'[elem[q]] = start[elem[q]],
           \A w \in Address : OfClient(w, q) => word'[w] = word[w]
    PROVE  Keeps(q)
<1> SUFFICES ASSUME elem[q] # nullptr, NEW i \in 1 .. asked[q]
             PROVE  word'[start[elem[q]] + i - 1] = word[start[elem[q]] + i - 1]
  BY DEF Keeps
<1>1. PICK f \in Int, t \in Int, n \in Int :
          f = start[elem[q]] /\ t = Ends[elem[q]] /\ n = asked[q]
  BY OwnBlock
<1>2. n <= t - f /\ t <= Size /\ f >= mem_start + 1 /\ i \in Int /\ 1 <= i /\ i <= n /\ t <= t
  BY <1>1, OwnBlock
<1>3. f + i - 1 \in Address /\ f + i - 1 >= f /\ f + i - 1 < f + n
  <2>1. f + i - 1 \in Address /\ f + i - 1 # mem_start /\ f + i - 1 \notin t .. t - 1
    BY <1>2, OtherWords
  <2>2. f + i - 1 >= f /\ f + i - 1 < f + n
    BY <1>2
  <2> QED
    BY <2>1, <2>2
<1>4. OfClient(f + i - 1, q)
  BY <1>1, <1>3 DEF OfClient
<1> QED
  BY <1>1, <1>3, <1>4

LEMMA KeepsContent ==
    ASSUME NEW q \in Pointers, Keeps(q)
    PROVE  Content(q)' = Content(q)
  BY DEF Keeps, Content

LEMMA AllKept ==
    ASSUME \A q \in Pointers : Keeps(q)
    PROVE  HeapStep
  BY KeepsContent DEF HeapStep, Contents

LEMMA OthersKept ==
    ASSUME NEW p \in Pointers, \A q \in Pointers \ {p} : Keeps(q)
    PROVE  Contents' = [Contents EXCEPT ![p] = Content(p)']
<1>1. \A q \in Pointers \ {p} : Content(q)' = Content(q)
  BY KeepsContent
<1> QED
  BY <1>1 DEF Contents

(* n words from f on. *)
LEMMA WordsRead ==
    ASSUME NEW words \in [Address -> Address \cup {nullptr} \cup Pointers],
           NEW f \in Int, NEW n \in 0 .. MaxSize, f >= mem_start, f + n <= Size + 1
    PROVE  /\ [i \in 1 .. n |-> words[f + i - 1]] \in Seq(Address \cup {nullptr} \cup Pointers)
           /\ [i \in 1 .. n |-> words[f + i - 1]] # None
<1>1. n \in Nat
  BY AllocatorAssumption
<1>2. \A i \in 1 .. n : f + i - 1 \in Address
  BY <1>1, Constants
<1>3. [i \in 1 .. n |-> words[f + i - 1]] \in [1 .. n -> Address \cup {nullptr} \cup Pointers]
  BY <1>2
<1> DEFINE read == [i \in 1 .. n |-> words[f + i - 1]]
           Word == Address \cup {nullptr} \cup Pointers
<1>4. read \in [1 .. n -> Word]
  BY <1>3
<1> HIDE DEF read, Word
<1>5. read \in Seq(Word)
  BY <1>1, <1>4
<1>6. read # None
  BY <1>4, NoneAssumption DEF Word
<1> QED
  BY <1>5, <1>6 DEF read, Word

(* The steps of the promise *)

LEMMA OwnsSome ==
    ASSUME TypeOK, Tidy, NEW p \in Pointers, elem[p] # nullptr
    PROVE  Contents[p] # None
<1>1. [i \in 1 .. asked[p] |-> word[start[elem[p]] + i - 1]] # None
  <2>1. start[elem[p]] \in Int /\ start[elem[p]] >= mem_start /\ start[elem[p]] + asked[p] <= Size + 1
    BY OwnBlock, Constants
  <2> QED
    BY <2>1, WordsRead DEF TypeOK
<1> QED
  BY <1>1 DEF Contents, Content

LEMMA HeapAlloc ==
    ASSUME TypeOK, TypeOK', NEW p \in Pointers, \A q \in Pointers \ {p} : Keeps(q),
           elem[p] = nullptr, elem'[p] # nullptr,
           start'[elem'[p]] \in Int, start'[elem'[p]] >= mem_start,
           start'[elem'[p]] + asked'[p] <= Size + 1
    PROVE  HeapStep
<1>1. Contents' = [Contents EXCEPT ![p] = Content(p)'] /\ Contents'[p] = Content(p)'
  BY OthersKept DEF Contents
<1>2. Content(p)' \in Seq(Address \cup {nullptr} \cup Pointers)
  <2>1. [i \in 1 .. asked'[p] |-> word'[start'[elem'[p]] + i - 1]]
            \in Seq(Address \cup {nullptr} \cup Pointers)
    BY WordsRead DEF TypeOK
  <2> QED
    BY <2>1 DEF Content
<1>3. Contents[p] = None
  BY DEF Contents, Content
<1> QED
  BY <1>1, <1>2, <1>3 DEF HeapStep, Heap!Next, Heap!Alloc, Heap!Only, Contents

LEMMA HeapFree ==
    ASSUME TypeOK, Tidy, NEW p \in Pointers, \A q \in Pointers \ {p} : Keeps(q),
           elem[p] # nullptr, elem'[p] = nullptr
    PROVE  HeapStep
<1>1. Contents' = [Contents EXCEPT ![p] = None]
  BY OthersKept DEF Content
<1>2. Contents[p] # None
  BY OwnsSome
<1> QED
  BY <1>1, <1>2 DEF HeapStep, Heap!Next, Heap!Free, Contents

LEMMA HeapRealloc ==
    ASSUME TypeOK, Tidy, TypeOK', NEW p \in Pointers, \A q \in Pointers \ {p} : Keeps(q),
           elem[p] # nullptr, elem'[p] # nullptr,
           start'[elem'[p]] \in Int, start'[elem'[p]] >= mem_start,
           start'[elem'[p]] + asked'[p] <= Size + 1,
           \A i \in (1 .. asked[p]) \cap (1 .. asked'[p]) :
               word'[start'[elem'[p]] + i - 1] = word[start[elem[p]] + i - 1]
    PROVE  HeapStep
<1>1. Contents' = [Contents EXCEPT ![p] = Content(p)'] /\ Contents'[p] = Content(p)'
  BY OthersKept DEF Contents
<1>2. Content(p)' \in Seq(Address \cup {nullptr} \cup Pointers)
  <2>1. [i \in 1 .. asked'[p] |-> word'[start'[elem'[p]] + i - 1]]
            \in Seq(Address \cup {nullptr} \cup Pointers)
    BY WordsRead DEF TypeOK
  <2> QED
    BY <2>1 DEF Content
<1>3. Contents[p] # None
  BY OwnsSome
<1>4. \A i \in DOMAIN Contents[p] \cap DOMAIN Contents'[p] : Contents'[p][i] = Contents[p][i]
  BY <1>1 DEF Contents, Content
<1> QED
  BY <1>1, <1>2, <1>3, <1>4 DEF HeapStep, Heap!Next, Heap!Realloc, Heap!Only, Contents

LEMMA QuietStep == ASSUME UNCHANGED <<start, word, elem, asked>> PROVE HeapStep
  BY AllKept DEF Keeps

(* What a search looks at, and what it may write. *)
LEMMA SearchWrites ==
    ASSUME TypeOK, Tidy, Roomy, Searching
    PROVE  /\ call.p \in Pointers /\ call.size \in 0 .. MaxSize /\ FreeRoom
           /\ start[call.prev] \in Address /\ call.op \in {"alloc", "move"}
           /\ \A q \in Pointers : ~ OfClient(start[call.prev], q)
<1>1. call \in Request /\ call.prev \in Members
  BY SearchGoesOn
<1>2. call.op \in {"alloc", "move"}
  BY DEF Searching
<1>3. start[call.prev] \in Address
  BY <1>1, MembersPlaced
<1> QED
  BY <1>1, <1>2, <1>3 DEF Roomy, Failures, Request

LEMMA DropAbsorbedStep == ASSUME TypeOK, Tidy, Roomy, DropAbsorbed PROVE HeapStep
<1>1. /\ word' = [word EXCEPT ![start[call.prev]] = next(call.cur)]
      /\ start' = [start EXCEPT ![call.cur] = nullptr]
      /\ elem' = elem /\ asked' = asked /\ call.cur \notin Live
      /\ \A q \in Pointers : ~ OfClient(start[call.prev], q)
  BY SearchWrites DEF DropAbsorbed, AtBlock, Unlinked, Live, clients
<1>2. ASSUME NEW q \in Pointers PROVE Keeps(q)
  <2>1. elem[q] # nullptr => start'[elem[q]] = start[elem[q]]
    BY <1>1, OwnBlock DEF TypeOK
  <2>2. \A w \in Address : OfClient(w, q) => word'[w] = word[w]
    BY <1>1 DEF TypeOK
  <2> QED
    BY <1>1, <2>1, <2>2, KeepsWords
<1> QED
  BY <1>2, AllKept

(* A block found is given to the client, or is still to be moved to. *)
LEMMA DeliverStep ==
    ASSUME TypeOK, Tidy, TypeOK', Roomy, Searching, AtBlock, IsBlock(call.cur), Deliver,
           call.size <= SizeOf(call.cur),
           start'[call.cur] = start[call.cur],
           \A q \in Pointers : elem[q] # nullptr => start'[elem[q]] = start[elem[q]],
           \A q \in Pointers : \A w \in Address : OfClient(w, q) => word'[w] = word[w]
    PROVE  HeapStep
<1> DEFINE p == call.p
           c == call.cur
<1>1. p \in Pointers /\ call.op \in {"alloc", "move"} /\ (call.op = "alloc" => elem[p] = nullptr)
  BY SearchWrites, SearchGoesOn
<1>2. c \in Live /\ c \in Address /\ c # nullptr
  BY Constants DEF Live, AtBlock
<1>3. start[c] \in Int /\ start[c] >= mem_start /\ start[c] + call.size <= Size + 1
  <2>1. /\ start[c] \in Int /\ start[child[c]] \in Int /\ mem_start <= start[c]
        /\ start[child[c]] <= start[avail_tail] /\ start[avail_tail] \in Address
    BY <1>2, LiveRow DEF Tidy
  <2>2. call.size <= start[child[c]] - start[c] /\ call.size \in Int
    BY SearchWrites, AllocatorAssumption DEF SizeOf
  <2> QED
    BY <2>1, <2>2, Constants
<1>4. ASSUME NEW q \in Pointers, elem'[q] = elem[q], asked'[q] = asked[q] PROVE Keeps(q)
  BY <1>4, KeepsWords
<1>5. CASE call.op = "alloc"
  <2>1. elem' = [elem EXCEPT ![p] = c] /\ asked' = [asked EXCEPT ![p] = call.size]
    BY <1>5 DEF Deliver
  <2>2. elem'[p] = c /\ asked'[p] = call.size
        /\ \A q \in Pointers \ {p} : elem'[q] = elem[q] /\ asked'[q] = asked[q]
    BY <1>1, <2>1 DEF TypeOK
  <2>3. \A q \in Pointers \ {p} : Keeps(q)
    BY <1>4, <2>2
  <2>4. start'[elem'[p]] = start[c]
    BY <2>2
  <2> HIDE DEF p, c
  <2> QED
    BY <1>1, <1>2, <1>3, <1>5, <2>2, <2>3, <2>4, HeapAlloc
<1>6. CASE call.op = "move"
  <2>1. elem' = elem /\ asked' = asked
    BY <1>6 DEF Deliver, clients
  <2> QED
    BY <1>4, <2>1, AllKept
<1> QED
  BY <1>1, <1>5, <1>6

LEMMA TakeAllStep == ASSUME TypeOK, Tidy, TypeOK', Roomy, TakeAll PROVE HeapStep
<1>1. /\ word' = [word EXCEPT ![start[call.prev]] = next(call.cur)]
      /\ start' = start /\ Searching /\ AtBlock /\ IsBlock(call.cur) /\ Deliver
      /\ SizeOf(call.cur) = call.size
  BY DEF TakeAll, AtBlock, Unlinked
<1>2. \A q \in Pointers : ~ OfClient(start[call.prev], q)
  BY <1>1, SearchWrites
<1>3. \A q \in Pointers : \A w \in Address : OfClient(w, q) => word'[w] = word[w]
  BY <1>1, <1>2 DEF TypeOK
<1>4. call.size <= SizeOf(call.cur)
  BY <1>1, SearchWrites, AllocatorAssumption
<1> QED
  BY <1>1, <1>3, <1>4, DeliverStep

LEMMA TakePartStep == ASSUME TypeOK, Tidy, TypeOK', Roomy, TakePart PROVE HeapStep
<1> DEFINE c == call.cur
           rest == start[c] + call.size
<1>1. CASE Overruns(rest, Pointers)
  BY <1>1, QuietStep DEF TakePart, Stop, blocks, memory, clients
<1>2. CASE ~ Overruns(rest, Pointers)
  <2>1. /\ Split(c, call.size)
        /\ word' = [word EXCEPT ![rest] = next(c), ![start[call.prev]] = NewElem]
        /\ Deliver /\ Searching /\ AtBlock /\ IsBlock(c) /\ SizeOf(c) > call.size
        /\ \A last \in Address : IsLast(last) => HasRoom(last)
    BY <1>2 DEF TakePart, TooLarge, AtBlock
  <2>2. c \in Live /\ c \in Address /\ c # avail_head /\ call.size \in Nat
        /\ \A q \in Pointers : ~ OfClient(start[call.prev], q)
    BY <2>1, AtMember, SearchWrites, AllocatorAssumption DEF Live
  <2>3. start[c] \in Int /\ Ends[c] \in Int /\ Ends[c] = start[child[c]]
        /\ start[avail_tail] \in Address
    BY <2>2, LiveRow DEF Tidy, Ends
  <2>4. rest < NewElem /\ rest \in Int /\ start[c] <= rest /\ rest < Ends[c]
    <3>1. ~ (rest >= NewElem)
      BY <1>2 DEF Overruns
    <3>2. rest \in Int /\ NewElem \in Int
      BY <2>2, <2>3, Constants, SMTT(30) DEF NewElem
    <3> QED
      BY <2>1, <2>2, <2>3, <3>1, <3>2 DEF SizeOf
  <2>5. /\ NewElem \in Address /\ NewElem \notin Live \cup Members
        /\ \A x \in Address \ {avail_tail, NewElem} : start'[x] = start[x]
    BY <2>1, <2>2, <2>3, <2>4, SplitRow DEF Tidy
  <2>6. \A e \in Live : start'[e] = start[e]
    BY <2>5, LiveRow DEF Tidy
  <2>7. ASSUME NEW q \in Pointers, elem[q] # nullptr
        PROVE  elem[q] # c /\ elem[q] \in Live
    BY <2>1, <2>7, OwnBlock, AtMember DEF Members
  <2>8. ASSUME NEW q \in Pointers, NEW w \in Address, OfClient(w, q) PROVE word'[w] = word[w]
    <3>1. elem[q] # c
      BY <2>7, <2>8 DEF OfClient
    <3>2. w # rest
      BY <2>2, <2>4, <2>8, <3>1, NotOfClient
    <3>3. w # start[call.prev]
      BY <2>2, <2>8
    <3> HIDE DEF rest
    <3> QED
      BY <2>1, <3>2, <3>3 DEF TypeOK
  <2>9. call.size <= SizeOf(c)
    BY <2>1, <2>2, <2>3 DEF SizeOf
  <2> QED
    BY <2>1, <2>2, <2>6, <2>7, <2>8, <2>9, DeliverStep
<1> QED
  BY <1>1, <1>2

LEMMA WriteStep == ASSUME TypeOK, Tidy, NEW p \in Pointers, Write(p) PROVE HeapStep
<1>1. /\ word' = [w \in Address |-> IF OfClient(w, p) THEN p ELSE word[w]]
      /\ elem[p] # nullptr /\ UNCHANGED <<start, elem, asked>>
  BY DEF Write, blocks, clients
<1>2. ASSUME NEW q \in Pointers \ {p} PROVE Keeps(q)
  <2>1. ASSUME NEW w \in Address, OfClient(w, q) PROVE ~ OfClient(w, p)
    <3>1. /\ elem[q] # nullptr /\ w >= start[elem[q]] /\ w < start[elem[q]] + asked[q]
          /\ elem[p] # elem[q]
      BY <1>1, <2>1 DEF OfClient, Tidy, Owned
    <3>2. elem[q] \in Live /\ w \in Int /\ w < Ends[elem[q]]
      BY <3>1, OwnBlock, Constants
    <3> QED
      BY <3>1, <3>2, NotOfClient
  <2> QED
    BY <1>1, <2>1, KeepsWords
<1>3. Contents' = [Contents EXCEPT ![p] = Content(p)']
  BY <1>2, OthersKept
<1>4. Contents[p] = [i \in 1 .. asked[p] |-> word[start[elem[p]] + i - 1]]
  BY <1>1 DEF Contents, Content
<1>5. Content(p)' = [i \in DOMAIN Contents[p] |-> p]
  <2>1. ASSUME NEW i \in 1 .. asked[p] PROVE word'[start[elem[p]] + i - 1] = p
    <3>1. PICK f \in Int, t \in Int, n \in Int :
              f = start[elem[p]] /\ t = Ends[elem[p]] /\ n = asked[p]
      BY <1>1, OwnBlock
    <3>2. n <= t - f /\ t <= Size /\ f >= mem_start + 1 /\ i \in Int /\ 1 <= i /\ i <= n /\ t <= t
      BY <1>1, <3>1, OwnBlock
    <3>3. f + i - 1 \in Address /\ f + i - 1 # mem_start /\ f + i - 1 \notin t .. t - 1
      BY <3>2, OtherWords
    <3>4. f + i - 1 >= f /\ f + i - 1 < f + n
      BY <3>2
    <3>5. OfClient(f + i - 1, p)
      BY <1>1, <3>1, <3>4 DEF OfClient
    <3> QED
      BY <1>1, <3>1, <3>3, <3>5
  <2>2. Content(p)' = [i \in 1 .. asked[p] |-> word'[start[elem[p]] + i - 1]]
    BY <1>1 DEF Content
  <2> QED
    BY <1>4, <2>1, <2>2
<1>6. Contents[p] # None
  BY <1>1, OwnsSome
<1> QED
  BY <1>3, <1>5, <1>6 DEF HeapStep, Heap!Next, Heap!Write, Contents

LEMMA FreeStep == ASSUME TypeOK, Tidy, NEW p \in Pointers, Free(p) PROVE HeapStep
<1> DEFINE e == elem[p]
<1>1. CASE SizeOf(e) = 0
  BY <1>1, QuietStep DEF Free, Stop, blocks, memory, clients
<1>2. CASE SizeOf(e) # 0
  <2>1. /\ e # nullptr /\ elem' = [elem EXCEPT ![p] = nullptr]
        /\ asked' = [asked EXCEPT ![p] = 0] /\ start' = start
        /\ word' = AddToAvailList(word, e, start[e]) /\ SizeOf(e) # 0
    BY <1>2 DEF Free
  <2>2. /\ e \in Live /\ start[e] \in Int /\ start[e] < Ends[e]
        /\ \A q \in Pointers \ {p} : elem[q] # e
    <3>1. e \in Live /\ \A q \in Pointers \ {p} : elem[q] # e
      BY <2>1 DEF Tidy, Owned
    <3>2. start[e] \in Int /\ Ends[e] \in Int /\ start[e] <= Ends[e] /\ Ends[e] = start[child[e]]
      BY <3>1, LiveRow DEF Tidy, Ends
    <3> QED
      BY <2>1, <3>1, <3>2 DEF SizeOf
  <2>3. ASSUME NEW q \in Pointers \ {p} PROVE Keeps(q)
    <3>1. elem'[q] = elem[q] /\ asked'[q] = asked[q]
      BY <2>1 DEF TypeOK
    <3>2. ~ OfClient(start[e], q) /\ ~ OfClient(mem_start, q)
      BY <2>2, NotOfClient, HeadNotOfClient
    <3>3. \A w \in Address : OfClient(w, q) => word'[w] = word[w]
      BY <2>1, <3>2 DEF AddToAvailList, TypeOK
    <3> QED
      BY <2>1, <3>1, <3>3, KeepsWords
  <2> QED
    BY <2>1, <2>3, HeapFree DEF TypeOK
<1> QED
  BY <1>1, <1>2

(* A block keeps its place and gets or keeps n words. *)
LEMMA InPlace ==
    ASSUME TypeOK, Tidy, TypeOK', NEW p \in Pointers, elem[p] # nullptr,
           NEW n \in 0 .. MaxSize, SizeOf(elem[p]) >= n,
           elem' = elem, asked' = [asked EXCEPT ![p] = n],
           \A q \in Pointers : elem[q] # nullptr => start'[elem[q]] = start[elem[q]],
           \A q \in Pointers \ {p}, w \in Address : OfClient(w, q) => word'[w] = word[w],
           \A i \in (1 .. asked[p]) \cap (1 .. n) :
               word'[start[elem[p]] + i - 1] = word[start[elem[p]] + i - 1]
    PROVE  HeapStep
<1>1. asked'[p] = n /\ \A q \in Pointers \ {p} : asked'[q] = asked[q]
  BY DEF TypeOK
<1>2. \A q \in Pointers \ {p} : Keeps(q)
  BY <1>1, KeepsWords
<1>3. start'[elem[p]] = start[elem[p]]
  OBVIOUS
<1>4. /\ start[elem[p]] \in Int /\ start[elem[p]] >= mem_start /\ start[elem[p]] + n <= Size + 1
  <2>1. /\ start[elem[p]] \in Int /\ start[elem[p]] >= mem_start + 1
        /\ Ends[elem[p]] = start[child[elem[p]]] /\ Ends[elem[p]] <= Size /\ Ends[elem[p]] \in Int
    BY OwnBlock
  <2>2. n \in Int /\ Ends[elem[p]] - start[elem[p]] >= n
    BY <2>1, AllocatorAssumption DEF SizeOf
  <2> QED
    BY <2>1, <2>2, Constants
<1> QED
  BY <1>1, <1>2, <1>3, <1>4, HeapRealloc

LEMMA ShrinkStep ==
    ASSUME TypeOK, Tidy, TypeOK', NEW p \in Pointers, elem[p] # nullptr, NEW n \in 0 .. MaxSize,
           SizeOf(elem[p]) >= n, Shrink(p, n)
    PROVE  HeapStep
<1> DEFINE e == elem[p]
           rest == start[e] + n
<1>1. /\ e \in Live /\ e \in Address /\ e # avail_head /\ n \in Nat
      /\ start[e] \in Int /\ start[e] >= mem_start + 1
      /\ Ends[e] = start[child[e]] /\ Ends[e] \in Int /\ Ends[e] <= Size
      /\ \A q \in Pointers \ {p} : elem[q] # e
  BY OwnBlock, AllocatorAssumption DEF Tidy, Owned
<1> HIDE DEF e
<1>2. CASE SizeOf(e) = n
  BY <1>2, InPlace DEF Shrink, e, blocks, memory
<1>3. CASE UNCHANGED <<start, word, clients>>
  BY <1>3, QuietStep DEF clients
<1>4. CASE /\ \A last \in Address : IsLast(last) => HasRoom(last)
           /\ ~ Overruns(rest, Pointers \ {p}) /\ Split(e, n)
           /\ word' = AddToAvailList(word, NewElem, rest)
           /\ asked' = [asked EXCEPT ![p] = n] /\ elem' = elem
           /\ SizeOf(e) # n
  <2>1. rest < NewElem /\ rest \in Int /\ start[e] <= rest /\ rest < Ends[e] /\ rest \in Address
    <3>1. ~ (rest >= NewElem)
      BY <1>4 DEF Overruns
    <3>2. rest \in Int /\ NewElem \in Int
      BY <1>1, LiveRow, Constants DEF NewElem, Tidy
    <3>3. rest < Ends[e]
      BY <1>1, <1>4 DEF SizeOf, e
    <3> QED
      BY <1>1, <3>1, <3>2, <3>3, Constants
  <2>2. /\ NewElem \notin Live \cup Members
        /\ \A x \in Address \ {avail_tail, NewElem} : start'[x] = start[x]
    BY <1>1, <1>4, <2>1, SplitRow DEF Tidy
  <2>3. \A q \in Pointers : elem[q] # nullptr => start'[elem[q]] = start[elem[q]]
    BY <2>2, OwnBlock
  <2>4. ASSUME NEW q \in Pointers \ {p}, NEW w \in Address, OfClient(w, q) PROVE word'[w] = word[w]
    <3>1. w # rest
      BY <1>1, <2>1, <2>4, NotOfClient
    <3>2. w # mem_start
      BY <2>4, HeadNotOfClient
    <3> HIDE DEF rest
    <3> QED
      BY <1>4, <3>1, <3>2 DEF AddToAvailList, TypeOK
  <2>5. ASSUME NEW i \in (1 .. asked[p]) \cap (1 .. n)
        PROVE  word'[start[e] + i - 1] = word[start[e] + i - 1]
    <3>1. i \in Int /\ 1 <= i /\ i <= n
      BY <1>1
    <3>2. PICK f \in Int, t \in Int : f = start[e] /\ t = Ends[e]
      BY <1>1
    <3>3. f >= mem_start + 1 /\ t <= Size /\ rest = f + n /\ f + n < t
      BY <1>1, <2>1, <3>2
    <3>4. f + i - 1 \in Int /\ f + i - 1 >= f /\ f + i - 1 < f + n
      BY <1>1, <3>1
    <3>5. f + i - 1 \in Address /\ f + i - 1 # mem_start /\ f + i - 1 # rest
      BY <1>1, <3>3, <3>4, Constants
    <3> HIDE DEF rest
    <3> QED
      BY <1>4, <3>2, <3>5 DEF AddToAvailList, TypeOK
  <2> HIDE DEF rest
  <2> QED
    BY <1>4, <2>3, <2>4, <2>5, InPlace DEF e
<1> QED
  BY <1>2, <1>3, <1>4 DEF Shrink, Stop, e, clients, memory, blocks

LEMMA GrowInPlaceStep == ASSUME TypeOK, Tidy, TypeOK', GrowInPlace PROVE HeapStep
<1>1. call \in Growth /\ elem[call.p] # nullptr
  BY DEF Tidy, CallGoesOn, GrowInPlace, NoCall, Request, Transfer
<1>2. call.p \in Pointers /\ call.size \in 0 .. MaxSize
  BY <1>1 DEF Growth
<1> QED
  BY <1>1, <1>2, ShrinkStep DEF GrowInPlace

LEMMA ReallocStep ==
    ASSUME TypeOK, Tidy, TypeOK', NEW p \in Pointers, NEW n \in 0 .. MaxSize, Realloc(p, n)
    PROVE  HeapStep
<1>1. CASE SizeOf(elem[p]) >= n
  BY <1>1, ShrinkStep DEF Realloc
<1>2. CASE ~ (SizeOf(elem[p]) >= n)
  BY <1>2, QuietStep DEF Realloc, blocks, memory, clients
<1> QED
  BY <1>1, <1>2

LEMMA MoveStep == ASSUME TypeOK, Tidy, TypeOK', Roomy, Move PROVE HeapStep
<1>1. CASE Stop("overrun")
  BY <1>1, QuietStep DEF Stop, blocks, memory, clients
<1>2. CASE ~ Stop("overrun")
  <2>1. PICK p, e, to, src, dst, size : /\ p = call.p /\ e = elem[p] /\ to = call.to
                                        /\ src = start[e] /\ dst = start[to] /\ size = SizeOf(e)
    OBVIOUS
  <2>2. /\ call \in Transfer /\ e # nullptr /\ p \in Pointers /\ call.size \in 0 .. MaxSize
        /\ to \in Live /\ ~ isFree[to] /\ call.size <= SizeOf(to)
        /\ \A q \in Pointers : elem[q] # to
        /\ size < call.size
    <3>1. /\ call \in Transfer /\ e # nullptr
          /\ to \in Live /\ ~ isFree[to] /\ call.size <= SizeOf(to)
          /\ \A q \in Pointers : elem[q] # to
      BY <2>1 DEF Tidy, CallGoesOn, Move, NoCall, Request, Growth
    <3> QED
      BY <2>1, <3>1 DEF Roomy, Move, Failures, Transfer
  <2>3. /\ word' = AddToAvailList(Copied(word, dst, src, size), e, src)
        /\ elem' = [elem EXCEPT ![p] = to] /\ asked' = [asked EXCEPT ![p] = call.size]
        /\ start' = start /\ size # 0
    BY <1>2, <2>1 DEF Move
  <2>4. /\ e \in Live /\ src \in Int /\ Ends[e] \in Int /\ size = Ends[e] - src
        /\ src >= mem_start + 1 /\ Ends[e] <= Size /\ asked[p] \in Nat /\ asked[p] <= size
        /\ \A q \in Pointers \ {p} : elem[q] # e
    BY <2>1, <2>2, OwnBlock DEF Tidy, Owned, SizeOf
  <2>5. /\ dst \in Int /\ Ends[to] \in Int /\ SizeOf(to) = Ends[to] - dst /\ Ends[to] <= Size
        /\ dst >= mem_start + 1 /\ to # nullptr
    <3>1. /\ dst \in Int /\ start[child[to]] \in Int /\ Ends[to] = start[child[to]]
          /\ Ends[to] <= start[avail_tail] /\ start[avail_tail] \in Address
      BY <2>1, <2>2, LiveRow DEF Tidy, Ends
    <3>2. to # avail_head
      BY <2>2 DEF Tidy, Descriptors
    <3>3. dst >= mem_start + 1
      BY <2>1, <2>2, <3>2, BehindHead DEF Tidy, Row
    <3> QED
      BY <2>1, <2>2, <3>1, <3>3, Constants DEF SizeOf, Live
  <2>6. Ends[to] <= src \/ Ends[e] <= dst
    <3>1. to # e
      BY <2>1, <2>2
    <3> QED
      BY <2>1, <2>2, <2>4, <3>1, Apart DEF Tidy, Row
  <2>7. call.size \in Nat /\ size \in Nat /\ size < Ends[to] - dst
    <3>1. call.size \in Nat /\ size \in Int /\ call.size <= Ends[to] - dst
      BY <2>2, <2>4, <2>5, AllocatorAssumption
    <3>2. size >= 0
      BY <2>4
    <3> QED
      BY <2>2, <2>5, <3>1, <3>2
  <2>8. \A w \in Address \ {src, mem_start} :
            word'[w] = IF w \in dst .. dst + size - 1 THEN word[src + (w - dst)] ELSE word[w]
    BY <2>3 DEF AddToAvailList, Copied
  <2>9. ASSUME NEW q \in Pointers \ {p} PROVE Keeps(q)
    <3>1. elem'[q] = elem[q] /\ asked'[q] = asked[q]
      BY <2>3 DEF TypeOK
    <3>2. ASSUME NEW w \in Address, OfClient(w, q) PROVE word'[w] = word[w]
      <4>1. w # mem_start
        BY <3>2, HeadNotOfClient
      <4>2. w # src
        <5>1. src < Ends[e] /\ src = start[e]
          BY <2>1, <2>3, <2>4, <2>7
        <5> QED
          BY <2>4, <3>2, <5>1, NotOfClient
      <4>3. w \notin dst .. dst + size - 1
        <5>1. w \in dst .. dst + size - 1 => w \in Int /\ start[to] <= w /\ w < Ends[to]
          BY <2>1, <2>5, <2>7
        <5> QED
          BY <2>2, <3>2, <5>1, NotOfClient
      <4> QED
        BY <2>8, <4>1, <4>2, <4>3
    <3> QED
      BY <2>3, <3>1, <3>2, KeepsWords
  <2>10. ASSUME NEW i \in (1 .. asked[p]) \cap (1 .. call.size)
         PROVE  word'[dst + i - 1] = word[src + i - 1]
    <3>1. i \in Int /\ 1 <= i /\ i <= size
      BY <2>4, <2>7
    <3>2. PICK w \in Int : w = dst + i - 1
      BY <2>5, <3>1
    <3>3. dst <= w /\ w < dst + size /\ src + (w - dst) = src + i - 1
      BY <2>4, <2>5, <2>7, <3>1, <3>2
    <3>4. w < Ends[to] /\ w \in dst .. dst + size - 1
      BY <2>5, <2>7, <3>2, <3>3
    <3>5. w \in Address /\ w # mem_start
      BY <2>5, <3>3, <3>4, Constants
    <3>6. w # src
      BY <2>3, <2>4, <2>5, <2>6, <2>7, <3>3, <3>4
    <3> QED
      BY <2>8, <3>2, <3>3, <3>4, <3>5, <3>6
  <2>11. elem'[p] = to /\ asked'[p] = call.size /\ start'[to] = dst
    BY <2>1, <2>2, <2>3 DEF TypeOK
  <2>12. dst >= mem_start /\ dst + call.size <= Size + 1
    BY <2>2, <2>5, <2>7, Constants
  <2> QED
    BY <2>1, <2>2, <2>5, <2>9, <2>10, <2>11, <2>12, HeapRealloc
<1> QED
  BY <1>1, <1>2

LEMMA DefragStep == ASSUME TypeOK, Tidy, Defrag PROVE HeapStep
<1>1. /\ word' = [word EXCEPT ![mem_start] = avail_tail]
      /\ start' = start /\ elem' = elem /\ asked' = asked
  BY DEF Defrag, blocks, clients
<1>2. ASSUME NEW q \in Pointers, NEW w \in Address, OfClient(w, q) PROVE word'[w] = word[w]
  BY <1>1, <1>2, HeadNotOfClient DEF TypeOK
<1> QED
  BY <1>1, <1>2, KeepsWords, AllKept

LEMMA NextStep == ASSUME Inv, Roomy, Inv', Next PROVE HeapStep
<1> USE DEF Failures
<1>1. TypeOK /\ TypeOK'
  BY DEF Inv
<1>2. CASE \E p \in Pointers, n \in 0 .. MaxSize : Alloc(p, n)
  BY <1>2, QuietStep DEF Alloc, blocks, memory, clients
<1>3. CASE \/ \E p \in Pointers, n \in 0 .. MaxSize : Realloc(p, n)
           \/ \E p \in Pointers : Write(p) \/ Free(p)
           \/ Defrag
  <2>1. Tidy
    BY <1>3 DEF Inv, Realloc, Write, Free, Defrag, Idle, NoCall
  <2> QED
    BY <1>1, <1>3, <2>1, ReallocStep, WriteStep, FreeStep, DefragStep
<1>4. CASE SearchFails \/ SearchGoesWild \/ TakePartFails \/ TakePartLost \/ Merge \/ Advance
           \/ Join \/ JoinEnds \/ GrowElsewhere \/ DefragSkips
  BY <1>4, QuietStep DEF SearchFails, SearchGoesWild, TakePartFails, TakePartLost, Merge,
     Advance, Join, JoinEnds, GrowElsewhere, DefragSkips, Stop, blocks, memory, clients
<1>5. CASE DropAbsorbed \/ TakeAll \/ TakePart
  <2>1. Tidy
    BY <1>5 DEF Inv, DropAbsorbed, TakeAll, TakePart, TooLarge, AtBlock, Searching
  <2> QED
    BY <1>1, <1>5, <2>1, DropAbsorbedStep, TakeAllStep, TakePartStep
<1>6. CASE GrowInPlace \/ Move
  <2>1. Tidy
    BY <1>6 DEF Inv, GrowInPlace, Move
  <2> QED
    BY <1>1, <1>6, <2>1, GrowInPlaceStep, MoveStep
<1>7. CASE DefragMoves \/ DefragEnds
  <2>1. Defragging
    BY <1>7 DEF Inv, DefragMoves, DefragEnds
  <2> QED
    BY <1>1, <1>7, <2>1, DefragMovesInv, DefragEndsInv, AllKept
<1> QED
  BY <1>2, <1>3, <1>4, <1>5, <1>6, <1>7 DEF Next, Client, Turn

-----------------------------------------------------------------------------
(* Free blocks keep their words *)

LEMMA RoomStays ==
    ASSUME FreeRoom, UNCHANGED <<start, child>>,
           \A m \in Live : isFree'[m] => isFree[m] \/ start[m] < Ends[m]
    PROVE  FreeRoom'
  BY DEF FreeRoom, Live, IsBlock, Ends

LEMMA AbsorbedRoom ==
    ASSUME TypeOK, Tidy, FreeRoom, NEW e \in Live, e # avail_head, child[e] # avail_tail,
           child' = Absorbed(e, child[e]), UNCHANGED <<start, isFree>>
    PROVE  FreeRoom'
<1>1. /\ Live' = Live \ {child[e]}
      /\ \A x \in Live \ {child[e]} : Ends[x] <= Ends'[x] /\ Ends[x] \in Int /\ Ends'[x] \in Int
  BY AbsorbedRow DEF Tidy
<1>2. ASSUME NEW m \in Live \ {child[e]}, isFree[m] PROVE start[m] < Ends'[m]
  <2>1. start[m] < Ends[m] /\ start[m] \in Int
    BY <1>2, LiveRow DEF FreeRoom, Tidy
  <2> QED
    BY <1>1, <2>1
<1> QED
  BY <1>1, <1>2 DEF FreeRoom

LEMMA SplitRoom ==
    ASSUME TypeOK, Tidy, FreeRoom,
           NEW e \in Live, e # avail_head, NEW n \in Nat, start[e] + n < start[child[e]],
           start[e] + n < NewElem,
           \A last \in Address : IsLast(last) => HasRoom(last),
           Split(e, n), ~ isFree'[e], \A x \in Live \ {e} : isFree'[x] => isFree[x]
    PROVE  /\ FreeRoom'
           /\ \A x \in Live \ {e} : start'[x] = start[x] /\ Ends'[x] <= Ends[x]
<1>1. start[e] \in Int /\ start[child[e]] \in Int /\ start[e] + n <= start[child[e]]
  BY LiveRow DEF Tidy
<1>2. /\ NewElem \in Address /\ NewElem \notin Live \cup Members /\ NewElem < start[avail_tail]
      /\ start'[NewElem] = start[e] + n
      /\ \A x \in Address \ {avail_tail, NewElem} : start'[x] = start[x]
      /\ Live' = Live \cup {NewElem}
      /\ Ends'[NewElem] = IF IsLast(e) THEN NewElem ELSE Ends[e]
      /\ \A x \in Live \ {e} : Ends'[x] = IF IsLast(x) THEN NewElem ELSE Ends[x]
      /\ \A x \in Live : IsLast(x) => start[x] < NewElem
  BY <1>1, SplitRow DEF Tidy
<1>3. \A x \in Live : /\ x \in Address \ {avail_tail, NewElem} /\ Ends[x] = start[child[x]]
                      /\ Ends[x] \in Int
  BY <1>2, LiveRow DEF Tidy, Ends
<1>4. start'[NewElem] < Ends'[NewElem]
  BY <1>2, <1>3
<1>5. ASSUME NEW x \in Live \ {e}
      PROVE  /\ isFree'[x] => start'[x] < Ends'[x]
             /\ x # NewElem /\ start'[x] = start[x] /\ Ends'[x] <= Ends[x]
  <2>1. Ends'[x] = (IF IsLast(x) THEN NewElem ELSE Ends[x]) /\ x # NewElem /\ start'[x] = start[x]
        /\ Ends[x] \in Int
    BY <1>2, <1>3
  <2>2. IsLast(x) => start[x] < NewElem /\ Ends[x] = start[avail_tail]
    BY <1>2, <1>3 DEF IsLast
  <2>3. isFree'[x] => start[x] < Ends[x]
    BY DEF FreeRoom
  <2>4. NewElem \in Int /\ start[avail_tail] \in Int
    BY <1>2, LiveRow, Constants DEF Tidy
  <2> QED
    BY <1>2, <2>1, <2>2, <2>3, <2>4
<1> QED
  BY <1>2, <1>4, <1>5 DEF FreeRoom

LEMMA InitRoomy == Init => Roomy
<1> SUFFICES ASSUME Init PROVE Roomy
  OBVIOUS
<1> DEFINE first == mem_end - 6
<1>1. /\ first = Size - 5 /\ first \in Address /\ first # avail_head /\ first # avail_tail
      /\ mem_start = 1 /\ mem_start + 1 = 2 /\ 2 < first
  BY Constants DEF mem_end
<1> HIDE DEF first
<1>2. /\ start = [e \in Address |-> CASE e = avail_head -> mem_start
                                      [] e = avail_tail -> first
                                      [] e = first -> mem_start + 1
                                      [] OTHER -> nullptr]
      /\ child = [e \in Address |-> CASE e = avail_head -> first
                                      [] e = first -> avail_tail
                                      [] OTHER -> nullptr]
      /\ call = NoCall
  BY DEF Init, first
<1>3. /\ start[avail_head] = 1 /\ start[avail_tail] = first /\ start[first] = 2
      /\ child[avail_head] = first /\ child[first] = avail_tail
  BY <1>1, <1>2, Constants
<1>4. \A x \in Live : x = avail_head \/ x = first
  BY <1>1, <1>2, Constants DEF Live, IsBlock
<1>5. FreeRoom
  BY <1>1, <1>3, <1>4, Constants DEF FreeRoom, Ends
<1> QED
  BY <1>2, <1>5 DEF Roomy, NoCall, Searching

LEMMA QuietRoomy == ASSUME FreeRoom', call'.op \in {"none", "join", "joined"} PROVE Roomy'
  BY DEF Roomy, Searching

(* A search begins at the head of the list. *)
LEMMA SearchBegins ==
    ASSUME TypeOK, Tidy, FreeRoom, NEW op, NEW p, NEW n, Search(op, p, n),
           UNCHANGED <<blocks, memory, clients>>,
           op = "move" => SizeOf(elem[p]) < n, op \in {"alloc", "move"}
    PROVE  Roomy'
<1>1. CASE tangled
  BY <1>1 DEF Search, Roomy, Failures
<1>2. CASE ~ tangled
  <2>1. call'.op = op /\ call'.p = p /\ call'.size = n /\ call'.prev = avail_head
        /\ UNCHANGED <<start, isFree, child, elem, asked>>
    BY <1>2 DEF Search, blocks, clients
  <2>2. FreeRoom'
    BY <2>1, RoomStays
  <2>3. \A q \in Pointers : ~ OfClient(start[avail_head], q)
    BY HeadNotOfClient DEF Tidy, Descriptors
  <2>4. \A q \in Pointers : ~ OfClient(start[call.prev], q)'
    BY <2>1, <2>3 DEF OfClient
  <2>5. call'.op = "move" => SizeOf(elem[call.p])' < call'.size
    BY <2>1 DEF SizeOf
  <2> QED
    BY <2>1, <2>2, <2>4, <2>5 DEF Roomy
<1> QED
  BY <1>1, <1>2

LEMMA AllocRoomy ==
    ASSUME TypeOK, Tidy, Roomy, NEW p \in Pointers, NEW n \in 0 .. MaxSize, Alloc(p, n)
    PROVE  Roomy'
  BY SearchBegins DEF Alloc, Idle, NoCall, Roomy, Failures

LEMMA GrowElsewhereRoomy == ASSUME TypeOK, Tidy, Roomy, GrowElsewhere PROVE Roomy'
<1>1. FreeRoom
  BY DEF GrowElsewhere, Roomy, Failures
<1> QED
  BY <1>1, SearchBegins DEF GrowElsewhere

LEMMA SearchHas ==
    ASSUME Roomy, Searching
    PROVE  /\ FreeRoom /\ \A q \in Pointers : ~ OfClient(start[call.prev], q)
           /\ call.op = "move" => SizeOf(elem[call.p]) < call.size
  BY DEF Roomy, Searching, Failures

LEMMA AdvanceRoomy == ASSUME TypeOK, Tidy, Roomy, Advance PROVE Roomy'
<1>1. /\ call.cur \in Members /\ call.cur \in Live /\ call \in Request /\ Searching
  BY AtMember, SearchGoesOn DEF Advance, TooSmall, AtBlock, Live
<1>2. /\ UNCHANGED <<start, isFree, child, elem, asked>>
      /\ call' = [call EXCEPT !.prev = call.cur, !.cur = next(call.cur)]
  BY DEF Advance, blocks, clients
<1>3. call'.op = call.op /\ call'.p = call.p /\ call'.size = call.size /\ call'.prev = call.cur
  BY <1>1, <1>2 DEF Request
<1>4. FreeRoom'
  BY <1>1, <1>2, SearchHas, RoomStays
<1>5. \A q \in Pointers : ~ OfClient(start[call.cur], q)
  BY <1>1, SearchHas, LinkNotOfClient DEF Members
<1>6. \A q \in Pointers : ~ OfClient(start[call.prev], q)'
  BY <1>2, <1>3, <1>5 DEF OfClient
<1>7. call'.op = "move" => SizeOf(elem[call.p])' < call'.size
  BY <1>1, <1>2, <1>3, SearchHas DEF SizeOf
<1>8. call'.op # "copy"
  BY <1>1, <1>3 DEF Searching
<1> QED
  BY <1>4, <1>6, <1>7, <1>8 DEF Roomy

LEMMA MergeRoomy == ASSUME TypeOK, Tidy, Roomy, Merge PROVE Roomy'
<1>1. /\ call.cur \in Live /\ call.cur # avail_head /\ isFree[call.cur]
      /\ call \in Request /\ Searching /\ (call.op = "move" => elem[call.p] # nullptr)
  BY AtMember, SearchGoesOn DEF Merge, TooSmall, AtBlock, Live, Members
<1>2. /\ UNCHANGED <<start, isFree, elem, asked, call>>
      /\ child[call.cur] # avail_tail /\ isFree[child[call.cur]]
      /\ child' = Absorbed(call.cur, child[call.cur])
  BY DEF Merge, clients
<1>3. FreeRoom'
  BY <1>1, <1>2, SearchHas, AbsorbedRoom
<1>4. \A q \in Pointers : ~ OfClient(start[call.prev], q)'
  BY <1>1, <1>2, SearchHas DEF OfClient
<1>5. call.op = "move" => SizeOf(elem[call.p])' < call'.size
  <2> SUFFICES ASSUME call.op = "move" PROVE SizeOf(elem[call.p])' < call'.size
    OBVIOUS
  <2>1. PICK e \in Live : e = elem[call.p] /\ ~ isFree[e] /\ e \in Address
    BY <1>1, OwnBlock DEF Request
  <2>2. Ends'[e] = Ends[e]
    BY <1>1, <1>2, <2>1, AbsorbedRow DEF Tidy
  <2>3. SizeOf(elem[call.p])' = Ends'[e] - start[e] /\ SizeOf(elem[call.p]) = Ends[e] - start[e]
    BY <1>2, <2>1 DEF SizeOf, Ends
  <2> QED
    BY <1>1, <1>2, <2>2, <2>3, SearchHas
<1>6. call.op # "copy"
  BY <1>1 DEF Searching
<1> QED
  BY <1>2, <1>3, <1>4, <1>5, <1>6 DEF Roomy

LEMMA DropAbsorbedRoomy == ASSUME TypeOK, Tidy, Roomy, DropAbsorbed PROVE Roomy'
<1> DEFINE p == call.prev
           c == call.cur
<1>1. /\ c \in Address /\ call \in Request /\ Searching /\ FreeList
      /\ p \in Members /\ c = next(p) /\ c # avail_tail /\ c \in Members
      /\ (call.op = "move" => elem[call.p] # nullptr)
      /\ c \notin Live
  <2>1. c \in Address /\ call \in Request /\ Searching /\ FreeList /\ p \in Members /\ c = next(p)
        /\ c \in Members /\ (call.op = "move" => elem[call.p] # nullptr) /\ c \notin Live
    BY AtMember, SearchGoesOn DEF DropAbsorbed, AtBlock, Live
  <2> QED
    BY <2>1, LinkLeadsOn
<1>2. /\ \A x \in Address \ {c} : isFree'[x] = isFree[x] /\ start'[x] = start[x]
      /\ UNCHANGED <<child, elem, asked>>
      /\ call' = [call EXCEPT !.cur = next(c)]
  BY <1>1 DEF DropAbsorbed, TypeOK, clients
<1>3. \A x \in Live : x # c /\ x \in Address /\ child[x] # c /\ child[x] \in Address
  BY <1>1, LiveRow, Constants DEF Tidy
<1>4. call'.op = call.op /\ call'.p = call.p /\ call'.size = call.size /\ call'.prev = p
  BY <1>1, <1>2 DEF Request
<1>5. Live' = Live /\ \A x \in Live : Ends'[x] = Ends[x] /\ start'[x] = start[x]
                                      /\ isFree'[x] = isFree[x]
  BY <1>2, <1>3 DEF Live, IsBlock, Ends
<1>6. FreeRoom'
  BY <1>1, <1>5, SearchHas DEF FreeRoom
<1>7. p # c /\ start'[p] = start[p]
  <2>1. PICK place : ListOf(Members, Links, place)
    BY <1>1 DEF FreeList
  <2>2. p \in Address /\ Links[p] = c
    BY <1>1 DEF Members, Links, next
  <2>3. place[p] < place[c] /\ place[p] \in Int
    BY <1>1, <2>1, <2>2 DEF ListOf
  <2> QED
    BY <1>2, <2>2, <2>3
<1>8. \A q \in Pointers : ~ OfClient(start[call.prev], q)'
  <2> SUFFICES ASSUME NEW q \in Pointers, elem[q] # nullptr
               PROVE  ~ (start[p] >= start'[elem[q]] /\ start[p] < start'[elem[q]] + asked[q])
    BY <1>2, <1>4, <1>7 DEF OfClient
  <2>1. start'[elem[q]] = start[elem[q]]
    BY <1>5, OwnBlock
  <2> QED
    BY <1>1, <2>1, SearchHas DEF OfClient
<1>9. call'.op = "move" => SizeOf(elem[call.p])' < call'.size
  <2> SUFFICES ASSUME call.op = "move" PROVE SizeOf(elem[call.p])' < call'.size
    BY <1>4
  <2>1. PICK e \in Live : e = elem[call.p] /\ e \in Address
    BY <1>1, OwnBlock DEF Request
  <2>2. SizeOf(elem[call.p])' = Ends'[e] - start'[e] /\ SizeOf(elem[call.p]) = Ends[e] - start[e]
    BY <1>2, <1>4, <2>1 DEF SizeOf, Ends
  <2> QED
    BY <1>1, <1>4, <1>5, <2>1, <2>2, SearchHas
<1>10. call'.op # "copy"
  BY <1>1, <1>4 DEF Searching
<1> QED
  BY <1>6, <1>8, <1>9, <1>10 DEF Roomy

(* A block to move to is larger than the one that moves. *)
LEMMA DeliverRoomy ==
    ASSUME FreeRoom', Searching, call \in Request, Deliver,
           call.op = "move" => SizeOf(elem[call.p])' < call.size \/ elem' # elem
    PROVE  Roomy'
<1>1. CASE call.op = "alloc"
  BY <1>1, QuietRoomy DEF Deliver, Return, NoCall
<1>2. CASE call.op = "move"
  <2>1. /\ call' = [op |-> "copy", p |-> call.p, size |-> call.size, to |-> call.cur]
        /\ elem' = elem
    BY <1>2 DEF Deliver, clients
  <2> QED
    BY <1>2, <2>1 DEF Roomy, Searching
<1> QED
  BY <1>1, <1>2 DEF Searching

LEMMA TakeAllRoomy == ASSUME TypeOK, Tidy, Roomy, TakeAll PROVE Roomy'
<1>1. call.cur \in Members /\ call \in Request /\ Searching
  BY AtMember, SearchGoesOn DEF TakeAll, AtBlock
<1>2. UNCHANGED <<start, child>> /\ isFree' = [isFree EXCEPT ![call.cur] = FALSE] /\ Deliver
  BY DEF TakeAll
<1>3. FreeRoom'
  <2>1. \A m \in Live : isFree'[m] => isFree[m]
    BY <1>2 DEF TypeOK, Live
  <2> QED
    BY <1>1, <1>2, <2>1, SearchHas, RoomStays
<1>4. call.op = "move" => SizeOf(elem[call.p])' < call.size \/ elem' # elem
  <2> SUFFICES ASSUME call.op = "move", elem' = elem PROVE SizeOf(elem[call.p])' < call.size
    OBVIOUS
  <2>1. call' = [op |-> "copy", p |-> call.p, size |-> call.size, to |-> call.cur]
    BY <1>2 DEF Deliver
  <2> QED
    BY <1>1, <1>2, <2>1, SearchHas DEF SizeOf
<1> QED
  BY <1>1, <1>2, <1>3, <1>4, DeliverRoomy

LEMMA TakePartRoomy == ASSUME TypeOK, Tidy, Roomy, TakePart PROVE Roomy'
<1> DEFINE c == call.cur
           rest == start[c] + call.size
           d == NewElem
<1>1. /\ c \in Live /\ c # avail_head /\ c \in Address /\ isFree[c] /\ call \in Request /\ Searching
      /\ SizeOf(c) > call.size /\ call.size \in Nat
      /\ (call.op = "move" => elem[call.p] # nullptr)
  <2>1. /\ c \in Live /\ c # avail_head /\ c \in Address /\ isFree[c] /\ call \in Request
        /\ Searching /\ SizeOf(c) > call.size
        /\ (call.op = "move" => elem[call.p] # nullptr)
    BY AtMember, SearchGoesOn DEF TakePart, TooLarge, AtBlock, Live, Members
  <2> QED
    BY <2>1, AllocatorAssumption DEF Request
<1>2. CASE Overruns(rest, Pointers)
  BY <1>2 DEF TakePart, Stop, Roomy, Failures
<1>3. CASE ~ Overruns(rest, Pointers)
  <2>1. /\ Split(c, call.size)
        /\ isFree' = [isFree EXCEPT ![d] = TRUE, ![c] = FALSE]
        /\ Deliver
        /\ \A last \in Address : IsLast(last) => HasRoom(last)
    BY <1>3 DEF TakePart
  <2>2. rest < d /\ rest < start[child[c]] /\ d \in Address /\ d \notin Live
    <3>1. start[c] \in Int /\ start[child[c]] \in Int /\ mem_start <= start[c]
          /\ start[avail_tail] \in Address
      BY <1>1, LiveRow DEF Tidy
    <3>2. ~ (rest >= d)
      BY <1>3 DEF Overruns
    <3>3. rest < d
      BY <1>1, <3>1, <3>2, Constants, SMTT(30) DEF NewElem
    <3>4. rest < start[child[c]]
      BY <1>1, <3>1 DEF SizeOf
    <3>5. d \in Address /\ d \notin Live
      BY <1>1, <2>1, <3>1, <3>3, <3>4, SplitRow DEF Tidy
    <3> QED
      BY <3>3, <3>4, <3>5
  <2>3. ~ isFree'[c] /\ \A x \in Live \ {c} : isFree'[x] => isFree[x]
    BY <1>1, <2>1, <2>2 DEF Live, TypeOK
  <2>4. /\ FreeRoom'
        /\ \A x \in Live \ {c} : start'[x] = start[x] /\ Ends'[x] <= Ends[x]
    BY <1>1, <2>1, <2>2, <2>3, SearchHas, SplitRoom
  <2>5. call.op = "move" => SizeOf(elem[call.p])' < call.size \/ elem' # elem
    <3> SUFFICES ASSUME call.op = "move", elem' = elem PROVE SizeOf(elem[call.p])' < call.size
      OBVIOUS
    <3>1. call' = [op |-> "copy", p |-> call.p, size |-> call.size, to |-> call.cur]
      BY <2>1 DEF Deliver
    <3>2. PICK e \in Live : e = elem[call.p] /\ ~ isFree[e] /\ e \in Address
                            /\ Ends[e] \in Int /\ start[e] \in Int
      BY <1>1, OwnBlock DEF Request
    <3>3. e # c /\ start'[e] = start[e] /\ Ends'[e] <= Ends[e]
      BY <1>1, <2>4, <3>2
    <3>4. SizeOf(elem[call.p])' = Ends'[e] - start[e] /\ SizeOf(elem[call.p]) = Ends[e] - start[e]
      BY <3>1, <3>2, <3>3 DEF SizeOf, Ends
    <3>5. Ends'[e] \in Int
      <4>1. Ends'[e] = IF IsLast(e) THEN d ELSE Ends[e]
        BY <1>1, <2>1, <2>2, <3>2, <3>3, LiveRow, SplitRow DEF Tidy
      <4> QED
        BY <2>2, <3>2, <4>1, Constants
    <3> QED
      BY <1>1, <3>2, <3>3, <3>4, <3>5, SearchHas
  <2> QED
    BY <1>1, <2>1, <2>4, <2>5, DeliverRoomy
<1> QED
  BY <1>2, <1>3

LEMMA JoinRoomy == ASSUME TypeOK, Tidy, Roomy, Join PROVE Roomy'
<1>1. call \in Growth /\ elem[call.p] # nullptr /\ call.op = "join"
  BY DEF Tidy, CallGoesOn, Join, NoCall, Request, Transfer
<1>2. elem[call.p] \in Live /\ elem[call.p] # avail_head
  BY <1>1, OwnBlock DEF Growth
<1>3. FreeRoom
  BY <1>1 DEF Roomy, Failures
<1> QED
  BY <1>1, <1>2, <1>3, AbsorbedRoom, QuietRoomy DEF Join

LEMMA ShrinkRoomy ==
    ASSUME TypeOK, Tidy, FreeRoom, NEW p \in Pointers, elem[p] # nullptr, NEW n \in 0 .. MaxSize,
           SizeOf(elem[p]) >= n, Shrink(p, n)
    PROVE  Roomy'
<1> DEFINE e == elem[p]
           rest == start[e] + n
           d == NewElem
<1>1. /\ e \in Live /\ e # avail_head /\ e \in Address /\ ~ isFree[e] /\ n \in Nat
      /\ start[e] \in Int /\ start[child[e]] \in Int /\ start[avail_tail] \in Address
  <2>1. e \in Live /\ e # avail_head /\ e \in Address /\ ~ isFree[e]
    BY OwnBlock
  <2> QED
    BY <2>1, LiveRow, AllocatorAssumption DEF Tidy
<1> HIDE DEF e
<1>2. CASE SizeOf(e) = n
  BY <1>2, RoomStays, QuietRoomy DEF Shrink, Return, NoCall, blocks, e
<1>3. CASE call' = [op |-> "null_deref"] \/ call' = [op |-> "overrun"]
  BY <1>3 DEF Roomy, Failures
<1>4. ASSUME Return, UNCHANGED <<start, isFree, child, memory, clients>> PROVE Roomy'
  BY <1>4, RoomStays, QuietRoomy DEF Return, NoCall
<1>5. ASSUME \A last \in Address : IsLast(last) => HasRoom(last), SizeOf(e) # n,
             ~ Overruns(rest, Pointers \ {p}), Split(e, n),
             isFree' = [isFree EXCEPT ![d] = TRUE], Return
      PROVE  Roomy'
  <2>1. rest < d
    <3>1. ~ (rest >= d)
      BY <1>5 DEF Overruns
    <3> QED
      BY <1>1, <3>1, Constants, SMTT(30) DEF NewElem
  <2>2. rest < start[child[e]]
    BY <1>1, <1>5 DEF SizeOf, e
  <2>3. d \in Address /\ d \notin Live
    <3>1. rest <= start[child[e]]
      BY <1>1, <2>2
    <3> QED
      BY <1>1, <1>5, <2>1, <3>1, SplitRow DEF Tidy
  <2>4. ~ isFree'[e] /\ \A x \in Live \ {e} : isFree'[x] => isFree[x]
    BY <1>1, <1>5, <2>3 DEF Live, TypeOK
  <2>5. FreeRoom'
    BY <1>1, <1>5, <2>1, <2>2, <2>4, SplitRoom
  <2> QED
    BY <1>5, <2>5, QuietRoomy DEF Return, NoCall
<1> QED
  BY <1>2, <1>3, <1>4, <1>5 DEF Shrink, Stop, e

LEMMA GrowInPlaceRoomy == ASSUME TypeOK, Tidy, Roomy, GrowInPlace PROVE Roomy'
<1>1. call \in Growth /\ elem[call.p] # nullptr
  BY DEF Tidy, CallGoesOn, GrowInPlace, NoCall, Request, Transfer
<1>2. FreeRoom
  BY DEF GrowInPlace, Roomy, Failures
<1> QED
  BY <1>1, <1>2, ShrinkRoomy DEF Growth, GrowInPlace

LEMMA ReallocRoomy ==
    ASSUME TypeOK, Tidy, Roomy, NEW p \in Pointers, NEW n \in 0 .. MaxSize, Realloc(p, n)
    PROVE  Roomy'
<1>1. FreeRoom
  BY DEF Realloc, Idle, NoCall, Roomy, Failures
<1>2. CASE SizeOf(elem[p]) >= n
  BY <1>1, <1>2, ShrinkRoomy DEF Realloc
<1>3. CASE ~ (SizeOf(elem[p]) >= n)
  <2>1. call' = [op |-> "join", p |-> p, size |-> n] /\ UNCHANGED <<blocks, memory, clients>>
    BY <1>3 DEF Realloc
  <2>2. FreeRoom'
    BY <1>1, <2>1, RoomStays DEF blocks
  <2> QED
    BY <2>1, <2>2, QuietRoomy
<1> QED
  BY <1>2, <1>3

(* A block that goes to the list has words. *)
LEMMA FreedRoom ==
    ASSUME TypeOK, Tidy, FreeRoom, NEW p \in Pointers, elem[p] # nullptr, SizeOf(elem[p]) # 0,
           isFree' = [isFree EXCEPT ![elem[p]] = TRUE], UNCHANGED <<start, child>>
    PROVE  FreeRoom'
<1>1. elem[p] \in Live /\ elem[p] \in Address
  BY OwnBlock
<1>2. start[elem[p]] < Ends[elem[p]]
  <2>1. /\ start[elem[p]] \in Int /\ start[child[elem[p]]] \in Int
        /\ start[elem[p]] <= start[child[elem[p]]]
    BY <1>1, LiveRow DEF Tidy
  <2> QED
    BY <1>1, <2>1 DEF Ends, SizeOf
<1>3. \A m \in Live : isFree'[m] => isFree[m] \/ start[m] < Ends[m]
  BY <1>1, <1>2 DEF TypeOK, Live
<1> QED
  BY <1>3, RoomStays

LEMMA FreeRoomy ==
    ASSUME TypeOK, Tidy, Roomy, NEW p \in Pointers, Free(p) PROVE Roomy'
<1>1. FreeRoom
  BY DEF Free, Idle, NoCall, Roomy, Failures
<1>2. CASE Stop("overrun")
  BY <1>2 DEF Stop, Roomy, Failures
<1>3. CASE ~ Stop("overrun")
  <2>1. FreeRoom'
    BY <1>1, <1>3, FreedRoom DEF Free
  <2> QED
    BY <1>3, <2>1, QuietRoomy DEF Free, Idle, NoCall
<1> QED
  BY <1>2, <1>3

LEMMA MoveRoomy == ASSUME TypeOK, Tidy, Roomy, Move PROVE Roomy'
<1>1. call.p \in Pointers /\ elem[call.p] # nullptr
  BY DEF Tidy, CallGoesOn, Move, NoCall, Request, Growth, Transfer
<1>2. FreeRoom
  BY DEF Move, Roomy, Failures
<1>3. CASE Stop("overrun")
  BY <1>3 DEF Stop, Roomy, Failures
<1>4. CASE ~ Stop("overrun")
  <2>1. FreeRoom'
    BY <1>1, <1>2, <1>4, FreedRoom DEF Move
  <2>2. call' = NoCall
    BY <1>4 DEF Move, Return
  <2> QED
    BY <2>1, <2>2, QuietRoomy DEF NoCall
<1> QED
  BY <1>3, <1>4

LEMMA NextRoomy == ASSUME Inv, Roomy, Inv', Next PROVE Roomy'
<1>1. TypeOK
  BY DEF Inv
<1>2. CASE \/ \E p \in Pointers, n \in 0 .. MaxSize : Alloc(p, n) \/ Realloc(p, n)
           \/ \E p \in Pointers : Free(p)
  <2>1. Tidy
    BY <1>2 DEF Inv, Alloc, Realloc, Free, Idle, NoCall, Failures
  <2> QED
    BY <1>1, <1>2, <2>1, AllocRoomy, ReallocRoomy, FreeRoomy
<1>3. CASE (\E p \in Pointers : Write(p)) \/ SearchFails \/ TakePartFails \/ JoinEnds
  <2>1. FreeRoom
    BY <1>3 DEF Roomy, Failures, Write, Idle, NoCall, SearchFails, TakePartFails, TooLarge,
       AtBlock, Searching, JoinEnds
  <2>2. FreeRoom'
    BY <1>3, <2>1, RoomStays DEF Write, SearchFails, TakePartFails, JoinEnds, blocks
  <2>3. call'.op \in {"none", "join", "joined"}
    <3>1. CASE JoinEnds
      <4>1. Tidy
        BY <3>1 DEF Inv, JoinEnds, Failures
      <4>2. call \in Growth
        BY <3>1, <4>1 DEF Tidy, CallGoesOn, JoinEnds, NoCall, Request, Transfer
      <4> QED
        BY <3>1, <4>2 DEF JoinEnds, Growth
    <3>2. CASE ~ JoinEnds
      BY <1>3, <3>2 DEF Write, Idle, NoCall, SearchFails, TakePartFails, Return
    <3> QED
      BY <3>1, <3>2
  <2> QED
    BY <2>2, <2>3, QuietRoomy
<1>4. CASE SearchGoesWild \/ TakePartLost
  BY <1>4 DEF SearchGoesWild, TakePartLost, Stop, Roomy, Failures
<1>5. CASE Defrag \/ DefragSkips \/ DefragMoves
  <2>1. call'.op = "defrag"
    <3>1. CASE DefragSkips
      <4>1. call \in Moving
        BY <3>1 DEF Inv, DefragSkips, Defragging, Failures
      <4> QED
        BY <3>1, <4>1 DEF DefragSkips, Moving
    <3> QED
      BY <1>5, <3>1 DEF Defrag, DefragMoves
  <2> QED
    BY <2>1 DEF Roomy
<1>6. CASE DefragEnds
  <2>1. Defragging
    BY <1>6 DEF Inv, DefragEnds, Failures
  <2>2. call'.op = "none" => FreeRoom'
    BY <1>1, <1>6, <2>1, DefragEndsInv DEF FreeRoom
  <2>3. call'.op \in {"none", "overrun"}
    BY <1>6 DEF DefragEnds, Stop, Return, NoCall
  <2> QED
    BY <2>2, <2>3, QuietRoomy DEF Roomy, Failures
<1>7. CASE DropAbsorbed \/ TakeAll \/ TakePart \/ Merge \/ Advance
           \/ Join \/ GrowInPlace \/ GrowElsewhere \/ Move
  <2>1. Tidy
    BY <1>7 DEF Inv, Failures, DropAbsorbed, TakeAll, TakePart, Merge, Advance, TooSmall, TooLarge,
       AtBlock, Searching, Join, GrowInPlace, GrowElsewhere, Move
  <2> QED
    BY <1>1, <1>7, <2>1, DropAbsorbedRoomy, TakeAllRoomy, TakePartRoomy, MergeRoomy, AdvanceRoomy,
       JoinRoomy, GrowInPlaceRoomy, GrowElsewhereRoomy, MoveRoomy
<1> QED
  BY <1>2, <1>3, <1>4, <1>5, <1>6, <1>7 DEF Next, Client, Turn

LEMMA RoomyAlways == Spec => []Roomy
<1>1. ASSUME Roomy, UNCHANGED vars PROVE Roomy'
  <2>1. UNCHANGED <<start, isFree, child, elem, asked, call>>
    BY <1>1 DEF vars, blocks, clients
  <2>2. FreeRoom' <=> FreeRoom
    BY <2>1 DEF FreeRoom, Live, IsBlock, Ends
  <2>3. \A q \in Pointers : OfClient(start[call.prev], q)' <=> OfClient(start[call.prev], q)
    BY <2>1 DEF OfClient
  <2>4. SizeOf(elem[call.p])' = SizeOf(elem[call.p])
    BY <2>1 DEF SizeOf
  <2> QED
    BY <1>1, <2>1, <2>2, <2>3, <2>4 DEF Roomy, Searching
<1>2. Inv /\ Inv' /\ Roomy /\ [Next]_vars => Roomy'
  BY <1>1, NextRoomy
<1> QED
  BY <1>2, InitRoomy, InvAlways, PTL DEF Spec

(* What a client has in its block stays there until the client changes it, *)
(* whatever is allocated, freed, resized, merged or moved around it: the   *)
(* allocator implements MovableHeap (allocator.cpp:58-84, 217-241,         *)
(* 279-336).                                                               *)
THEOREM KeepsTheorem == Spec => KeepsBlocks
<1>1. Init => Heap!Init
  <2> SUFFICES ASSUME Init PROVE Contents = [p \in Pointers |-> None]
    BY DEF Heap!Init, Contents
  <2>1. \A p \in Pointers : Content(p) = None
    BY DEF Init, Content
  <2> QED
    BY <2>1 DEF Contents
<1>2. UNCHANGED vars => HeapStep
  BY QuietStep DEF vars, blocks, memory, clients
<1>3. HeapStep => [Heap!Next]_Contents
  BY DEF HeapStep
<1>4. Inv /\ Inv' /\ Roomy /\ [Next]_vars => [Heap!Next]_([p \in Pointers |-> Content(p)])
  BY <1>2, <1>3, NextStep DEF Contents
<1> QED
  BY <1>1, <1>4, InvAlways, RoomyAlways, PTL DEF Spec, KeepsBlocks, Heap!Spec

-----------------------------------------------------------------------------
(* Writes onto links *)

(* alloc does not search for a block of no words. *)
Wants == call.op = "alloc" => call.size > 0

LEMMA NextWants == ASSUME Inv, Wants, Next PROVE Wants'
<1> SUFFICES ASSUME call'.op = "alloc" PROVE call'.size > 0
  BY DEF Wants
<1>1. CASE \E p \in Pointers, n \in 0 .. MaxSize : Alloc(p, n)
  BY <1>1 DEF Alloc, Search
<1>2. CASE DropAbsorbed \/ Merge \/ Advance
  <2>1. Searching /\ call.op \notin Failures /\ call.op # "defrag"
    BY <1>2 DEF DropAbsorbed, Merge, Advance, TooSmall, AtBlock, Searching, Failures
  <2>2. call \in Request
    BY <2>1, SearchGoesOn DEF Inv
  <2>3. call'.op = call.op /\ call'.size = call.size
    BY <1>2, <2>2 DEF DropAbsorbed, Merge, Advance, Request
  <2> QED
    BY <2>3 DEF Wants
<1>3. CASE Defrag \/ DefragMoves
  BY <1>3 DEF Defrag, DefragMoves
<1>4. CASE SearchFails \/ SearchGoesWild \/ TakePartFails \/ TakePartLost
  BY <1>4 DEF SearchFails, SearchGoesWild, TakePartFails, TakePartLost, Return, Stop, NoCall
<1>5. CASE DefragEnds \/ Move
  <2>1. Return \/ Stop("overrun")
    BY <1>5 DEF DefragEnds, Move
  <2> QED
    BY <2>1 DEF Return, Stop, NoCall
<1>6. CASE \E p \in Pointers : Free(p) \/ Write(p)
  <2>1. call = NoCall /\ (call' = call \/ Stop("overrun"))
    BY <1>6 DEF Free, Write, Idle
  <2> QED
    BY <2>1 DEF Stop, NoCall
<1>7. CASE TakeAll \/ TakePart
  BY <1>7 DEF TakeAll, TakePart, Deliver, Return, Stop, NoCall
<1>8. CASE GrowElsewhere
  BY <1>8 DEF GrowElsewhere, Search
<1>9. CASE GrowInPlace \/ \E p \in Pointers, n \in 0 .. MaxSize : Realloc(p, n)
  <2>1. ASSUME NEW p, NEW n, Shrink(p, n) PROVE call'.op # "alloc"
    BY <2>1 DEF Shrink, Return, Stop, NoCall
  <2>2. CASE GrowInPlace
    BY <2>1, <2>2 DEF GrowInPlace
  <2>3. CASE \E p \in Pointers, n \in 0 .. MaxSize : Realloc(p, n)
    <3>1. PICK p \in Pointers, n \in 0 .. MaxSize : Realloc(p, n)
      BY <2>3
    <3> QED
      BY <2>1, <3>1 DEF Realloc
  <2> QED
    BY <1>9, <2>2, <2>3
<1>10. CASE Join \/ JoinEnds
  <2>1. Tidy
    BY <1>10 DEF Inv, Join, JoinEnds, Failures
  <2>2. call \in Growth
    BY <1>10, <2>1 DEF Tidy, CallGoesOn, Join, JoinEnds, NoCall, Request, Transfer
  <2> QED
    BY <1>10, <2>2 DEF Join, JoinEnds, Growth
<1>11. CASE DefragSkips
  <2>1. call \in Moving
    BY <1>11 DEF Inv, DefragSkips, Defragging, Failures
  <2> QED
    BY <1>11, <2>1 DEF DefragSkips, Moving
<1> QED
  BY <1>1, <1>2, <1>3, <1>4, <1>5, <1>6, <1>7, <1>8, <1>9, <1>10, <1>11
     DEF Next, Client, Turn

LEMMA WantsAlways == Spec => []Wants
<1>1. Init => Wants
  BY DEF Init, NoCall, Wants
<1>2. Inv /\ Wants /\ [Next]_vars => Wants'
  BY NextWants DEF vars, Wants
<1> QED
  BY <1>1, <1>2, InvAlways, PTL DEF Spec

(* Where all members are blocks, a link is only where a free one starts. *)
LEMMA OffLink ==
    ASSUME TypeOK, Tidy, FreeRoom, \A m \in Members : IsBlock(m), NEW e \in Live, NEW w \in Int,
           start[e] <= w, w < Ends[e], isFree[e] => start[e] < w
    PROVE  ~ IsLink(w)
<1> SUFFICES ASSUME IsLink(w) PROVE FALSE
  OBVIOUS
<1>1. PICK m \in Address : isFree[m] /\ start[m] = w
  BY DEF IsLink
<1>2. m \in Live /\ m # e
  BY <1>1 DEF Members, Live
<1>3. Ends[e] <= start[m] \/ Ends[m] <= start[e]
  BY <1>2, Apart DEF Tidy, Row
<1>4. start[m] < Ends[m]
  BY <1>1, <1>2 DEF FreeRoom
<1>5. start[e] \in Int /\ Ends[e] \in Int /\ Ends[m] \in Int
  BY <1>2, LiveRow DEF Tidy, Ends, Live
<1> QED
  BY <1>1, <1>3, <1>4, <1>5

(* The first word of a client's block that has words. *)
LEMMA OffLinkOwned ==
    ASSUME TypeOK, Tidy, FreeRoom, \A m \in Members : IsBlock(m),
           NEW p \in Pointers, elem[p] # nullptr, NEW n \in 0 .. MaxSize,
           n <= SizeOf(elem[p]), n # SizeOf(elem[p])
    PROVE  ~ IsLink(start[elem[p]] + n)
<1>1. /\ elem[p] \in Live /\ ~ isFree[elem[p]]
      /\ start[elem[p]] \in Int /\ Ends[elem[p]] \in Int
      /\ Ends[elem[p]] = start[child[elem[p]]]
  BY OwnBlock
<1>2. n \in Nat
  BY AllocatorAssumption
<1>3. start[elem[p]] + n \in Int /\ start[elem[p]] <= start[elem[p]] + n
      /\ start[elem[p]] + n < Ends[elem[p]]
  BY <1>1, <1>2 DEF SizeOf
<1> QED
  BY <1>1, <1>3, OffLink

LEMMA ShrinkOffLink ==
    ASSUME TypeOK, Tidy, FreeRoom, \A m \in Members : IsBlock(m), ~ tangled,
           NEW p \in Pointers, elem[p] # nullptr, NEW n \in 0 .. MaxSize,
           n <= SizeOf(elem[p]), Shrink(p, n)
    PROVE  ~ tangled'
<1>1. CASE tangled' = tangled
  BY <1>1
<1>2. CASE tangled' = Tangles(start[elem[p]] + n) /\ SizeOf(elem[p]) # n
  BY <1>2, OffLinkOwned DEF Tangles
<1> QED
  BY <1>1, <1>2 DEF Shrink, Stop, memory

LEMMA TakePartOffLink ==
    ASSUME TypeOK, Tidy, Roomy, Wants, \A m \in Members : IsBlock(m), TakePart
    PROVE  ~ tangled'
<1> DEFINE c == call.cur
           rest == start[c] + call.size
<1>1. /\ c \in Live /\ isFree[c] /\ call \in Request /\ Searching /\ ~ tangled
      /\ SizeOf(c) > call.size /\ call.size \in Nat
      /\ (call.op = "move" => elem[call.p] # nullptr)
  <2>1. /\ c \in Live /\ isFree[c] /\ call \in Request /\ Searching /\ ~ tangled
        /\ SizeOf(c) > call.size
        /\ (call.op = "move" => elem[call.p] # nullptr)
    BY AtMember, SearchGoesOn DEF TakePart, TooLarge, AtBlock, Live, Members
  <2> QED
    BY <2>1, AllocatorAssumption DEF Request
<1>2. call.size > 0
  <2>1. CASE call.op = "alloc"
    BY <2>1 DEF Wants
  <2>2. CASE call.op = "move"
    <3>1. SizeOf(elem[call.p]) < call.size
      BY <1>1, <2>2, SearchHas
    <3>2. /\ start[elem[call.p]] \in Int /\ start[child[elem[call.p]]] \in Int
          /\ start[elem[call.p]] <= start[child[elem[call.p]]]
      <4>1. elem[call.p] \in Live
        BY <1>1, <2>2, OwnBlock DEF Request
      <4> QED
        BY <4>1, LiveRow DEF Tidy
    <3> QED
      BY <1>1, <3>1, <3>2 DEF SizeOf
  <2> QED
    BY <1>1, <2>1, <2>2 DEF Searching
<1>3. ~ IsLink(rest)
  <2>1. start[c] \in Int /\ start[child[c]] \in Int /\ Ends[c] = start[child[c]]
    BY <1>1, LiveRow DEF Tidy, Ends, Live
  <2>2. rest \in Int /\ start[c] < rest /\ rest < Ends[c]
    BY <1>1, <1>2, <2>1 DEF SizeOf
  <2>3. FreeRoom
    BY <1>1, SearchHas
  <2> QED
    BY <1>1, <2>1, <2>2, <2>3, OffLink
<1>4. tangled' = tangled \/ tangled' = Tangles(rest)
  BY DEF TakePart, Stop, memory
<1> QED
  BY <1>1, <1>3, <1>4 DEF Tangles

LEMMA MoveOffLink ==
    ASSUME TypeOK, Tidy, Roomy, \A m \in Members : IsBlock(m), ~ tangled, Move
    PROVE  ~ tangled'
<1> DEFINE p == call.p
           to == call.to
           e == elem[p]
<1>1. /\ call \in Transfer /\ e # nullptr
      /\ to \in Live /\ ~ isFree[to] /\ call.size <= SizeOf(to)
  BY DEF Tidy, CallGoesOn, Move, NoCall, Request, Growth
<1>2. p \in Pointers /\ call.size \in Nat
  BY <1>1, AllocatorAssumption DEF Transfer
<1>3. FreeRoom /\ SizeOf(e) < call.size
  BY DEF Move, Roomy, Failures
<1>4. CASE Stop("overrun")
  BY <1>4 DEF Stop, memory
<1>5. CASE ~ Stop("overrun")
  <2>1. /\ SizeOf(e) # 0
        /\ tangled' = \E w \in {start[e]} \cup start[to] .. start[to] + SizeOf(e) - 1 : Tangles(w)
    BY <1>5 DEF Move
  <2>2. /\ e \in Live /\ ~ isFree[e] /\ start[e] \in Int /\ Ends[e] \in Int
        /\ Ends[e] = start[child[e]] /\ start[e] <= start[child[e]]
    <3>1. e \in Live /\ ~ isFree[e] /\ Ends[e] = start[child[e]]
      BY <1>1, <1>2, OwnBlock
    <3> QED
      BY <3>1, LiveRow DEF Tidy
  <2>3. start[to] \in Int /\ start[child[to]] \in Int /\ Ends[to] = start[child[to]]
    BY <1>1, LiveRow DEF Tidy, Ends, Live
  <2>4. ~ IsLink(start[e])
    <3>1. start[e] < Ends[e]
      BY <2>1, <2>2 DEF SizeOf
    <3> QED
      BY <1>3, <2>2, <3>1, OffLink
  <2>5. ASSUME NEW w \in start[to] .. start[to] + SizeOf(e) - 1 PROVE ~ IsLink(w)
    <3>1. SizeOf(e) \in Int /\ SizeOf(e) < SizeOf(to) /\ SizeOf(to) = Ends[to] - start[to]
      BY <1>1, <1>2, <1>3, <2>2, <2>3 DEF SizeOf
    <3>2. w \in Int /\ start[to] <= w /\ w < Ends[to]
      BY <2>3, <3>1
    <3> QED
      BY <1>1, <1>3, <3>2, OffLink
  <2>6. \A w \in {start[e]} \cup start[to] .. start[to] + SizeOf(e) - 1 : ~ Tangles(w)
    BY <2>4, <2>5 DEF Tangles
  <2> QED
    BY <2>1, <2>6
<1> QED
  BY <1>4, <1>5

(* The allocator writes onto a link only if an absorbed block has been     *)
(* left in the list: the words of blocks that are free are safe from its   *)
(* splits, moves and frees, in a region of any size with any number of     *)
(* clients (allocator.cpp:20-25, 60-66, 166-179, 204-238).                 *)
THEOREM TangleTheorem == Spec => OnlyAbsorbedTangle
<1>1. ASSUME Inv, Roomy, Wants, Next, ~ tangled, \A m \in Members : IsBlock(m)
      PROVE  ~ tangled'
  <2> USE DEF Failures
  <2>1. TypeOK
    BY <1>1 DEF Inv
  <2>2. CASE \E p \in Pointers, n \in 0 .. MaxSize : Realloc(p, n)
    <3>1. PICK p \in Pointers, n \in 0 .. MaxSize : Realloc(p, n)
      BY <2>2
    <3>2. Tidy /\ FreeRoom /\ elem[p] # nullptr
      BY <1>1, <3>1 DEF Inv, Realloc, Idle, NoCall, Roomy
    <3>3. CASE SizeOf(elem[p]) >= n
      <4>1. n <= SizeOf(elem[p]) /\ Shrink(p, n)
        BY <3>1, <3>3 DEF Realloc
      <4> QED
        BY <1>1, <2>1, <3>2, <4>1, ShrinkOffLink
    <3>4. CASE ~ (SizeOf(elem[p]) >= n)
      BY <1>1, <3>1, <3>4 DEF Realloc, memory
    <3> QED
      BY <3>3, <3>4
  <2>3. CASE GrowInPlace
    <3>1. Tidy /\ FreeRoom
      BY <1>1, <2>3 DEF Inv, GrowInPlace, Roomy
    <3>2. call \in Growth /\ elem[call.p] # nullptr
      BY <2>3, <3>1 DEF Tidy, CallGoesOn, GrowInPlace, NoCall, Request, Transfer
    <3>3. call.size <= SizeOf(elem[call.p]) /\ Shrink(call.p, call.size)
      BY <2>3 DEF GrowInPlace
    <3> QED
      BY <1>1, <2>1, <3>1, <3>2, <3>3, ShrinkOffLink DEF Growth
  <2>4. CASE \E p \in Pointers : Free(p)
    <3>1. PICK p \in Pointers : Free(p)
      BY <2>4
    <3>2. Tidy /\ FreeRoom /\ elem[p] # nullptr
      BY <1>1, <3>1 DEF Inv, Free, Idle, NoCall, Roomy
    <3>3. CASE SizeOf(elem[p]) = 0
      BY <1>1, <3>1, <3>3 DEF Free, Stop, memory
    <3>4. CASE SizeOf(elem[p]) # 0
      <4>1. tangled' = Tangles(start[elem[p]])
        BY <3>1, <3>4 DEF Free
      <4>2. /\ elem[p] \in Live /\ ~ isFree[elem[p]]
            /\ start[elem[p]] \in Int /\ Ends[elem[p]] = start[child[elem[p]]]
            /\ start[elem[p]] <= start[child[elem[p]]] /\ start[child[elem[p]]] \in Int
        <5>1. elem[p] \in Live /\ ~ isFree[elem[p]] /\ Ends[elem[p]] = start[child[elem[p]]]
          BY <2>1, <3>2, OwnBlock
        <5> QED
          BY <2>1, <3>2, <5>1, LiveRow DEF Tidy
      <4>3. start[elem[p]] < Ends[elem[p]]
        BY <3>4, <4>2 DEF SizeOf
      <4>4. ~ IsLink(start[elem[p]])
        BY <1>1, <2>1, <3>2, <4>2, <4>3, OffLink
      <4> QED
        BY <1>1, <4>1, <4>4 DEF Tangles
    <3> QED
      BY <3>3, <3>4
  <2>5. CASE TakePart
    <3>1. Tidy
      BY <1>1, <2>5 DEF Inv, TakePart, TooLarge, AtBlock, Searching
    <3> QED
      BY <1>1, <2>1, <2>5, <3>1, TakePartOffLink
  <2>6. CASE Move
    <3>1. Tidy
      BY <1>1, <2>6 DEF Inv, Move
    <3> QED
      BY <1>1, <2>1, <2>6, <3>1, MoveOffLink
  <2>7. CASE DefragEnds
    BY <1>1, <2>7 DEF DefragEnds, Stop, memory
  <2>8. CASE \/ \E p \in Pointers, n \in 0 .. MaxSize : Alloc(p, n)
             \/ \E p \in Pointers : Write(p)
             \/ Defrag \/ SearchFails \/ SearchGoesWild \/ DropAbsorbed \/ TakeAll
             \/ TakePartFails \/ TakePartLost \/ Merge \/ Advance \/ Join \/ JoinEnds
             \/ GrowElsewhere \/ DefragSkips \/ DefragMoves
    BY <1>1, <2>8 DEF Alloc, Write, Defrag, SearchFails, SearchGoesWild, DropAbsorbed, TakeAll,
       TakePartFails, TakePartLost, Merge, Advance, Join, JoinEnds, GrowElsewhere, DefragSkips,
       DefragMoves, Stop, memory
  <2> QED
    BY <1>1, <2>2, <2>3, <2>4, <2>5, <2>6, <2>7, <2>8 DEF Next, Client, Turn
<1>2. Inv /\ Roomy /\ Wants /\ [Next]_vars =>
          [~ tangled /\ tangled' => \E m \in Members : ~ IsBlock(m)]_vars
  BY <1>1
<1> QED
  BY <1>2, InvAlways, RoomyAlways, WantsAlways, PTL DEF Spec, OnlyAbsorbedTangle

-----------------------------------------------------------------------------
(***************************************************************************)
(* What a walk along the links reaches: From(e) is the least set of        *)
(* members with e and, with each member, the next.                         *)
(***************************************************************************)
Follow(T) == T \cup ({next(m) : m \in T} \cap Members)

Walk(f, e, n) ==
    /\ f \in [0 .. n -> SUBSET Members]
    /\ f[0] = {e} \cap Members
    /\ \A k \in 1 .. n : f[k] = Follow(f[k - 1])

(* A walk of any length exists. *)
LEMMA WalkExists == \A e : \A n \in Nat : \E f : Walk(f, e, n)
<1> TAKE e
<1> DEFINE bad == {n \in Nat : ~ \E f : Walk(f, e, n)}
<1> SUFFICES ASSUME bad # {} PROVE FALSE
  OBVIOUS
<1>1. PICK n \in bad : \A m \in bad : n <= m
  <2>1. bad \subseteq Nat
    OBVIOUS
  <2> HIDE DEF bad
  <2> QED
    BY <2>1, LeastNumber
<1>2. n \in Nat /\ ~ \E f : Walk(f, e, n)
  BY <1>1
<1>3. CASE n = 0
  <2> DEFINE f == [k \in 0 .. 0 |-> {e} \cap Members]
  <2>1. f \in [0 .. 0 -> SUBSET Members] /\ f[0] = {e} \cap Members
    OBVIOUS
  <2> HIDE DEF f
  <2>2. Walk(f, e, 0)
    BY <2>1 DEF Walk
  <2> QED
    BY <1>2, <1>3, <2>2
<1>4. CASE n # 0
  <2>1. n - 1 \in Nat /\ n - 1 \notin bad
    BY <1>1, <1>2, <1>4
  <2>2. PICK f : Walk(f, e, n - 1)
    BY <2>1
  <2> DEFINE g == [k \in 0 .. n |-> IF k = n THEN Follow(f[n - 1]) ELSE f[k]]
  <2>3. \A k \in 0 .. n - 1 : f[k] \in SUBSET Members /\ k \in 0 .. n /\ k # n
    BY <1>2, <2>1, <2>2 DEF Walk
  <2>4. Follow(f[n - 1]) \in SUBSET Members
    BY <1>2, <2>1, <2>3 DEF Follow
  <2>5. \A k \in 0 .. n : k # n => k \in 0 .. n - 1
    BY <1>2
  <2>6. /\ g \in [0 .. n -> SUBSET Members] /\ g[n] = Follow(f[n - 1])
        /\ \A k \in 0 .. n - 1 : g[k] = f[k]
    BY <1>2, <2>3, <2>4, <2>5
  <2> HIDE DEF g
  <2>7. g[0] = {e} \cap Members
    BY <2>1, <2>2, <2>6 DEF Walk
  <2>8. ASSUME NEW k \in 1 .. n PROVE g[k] = Follow(g[k - 1])
    <3>1. CASE k = n
      BY <1>2, <2>1, <2>6, <3>1
    <3>2. CASE k # n
      <4>1. k \in 1 .. n - 1 /\ k \in 0 .. n - 1 /\ k - 1 \in 0 .. n - 1
        BY <1>2, <3>2
      <4> QED
        BY <2>2, <2>6, <4>1 DEF Walk
    <3> QED
      BY <3>1, <3>2
  <2>9. Walk(g, e, n)
    BY <2>6, <2>7, <2>8 DEF Walk
  <2> QED
    BY <1>2, <2>9
<1> QED
  BY <1>3, <1>4

(* There is one member per address at most. *)
LEMMA CountMembers ==
    /\ IsFiniteSet(Members) /\ Cardinality(Members) \in 0 .. Size
<1>1. IsFiniteSet(Address) /\ Cardinality(Address) = Size
  BY Constants, FS_Interval
<1>2. Members \in SUBSET Address
  BY DEF Members
<1>3. IsFiniteSet(Members) /\ Cardinality(Members) <= Size
  BY <1>1, <1>2, FS_Subset
<1>4. Cardinality(Members) \in Nat
  BY <1>3, FS_CardinalityType
<1> QED
  BY <1>3, <1>4, Constants

LEMMA FromIs == \A e : \E f : Walk(f, e, Size) /\ From(e) = f[Cardinality(Members)]
<1> TAKE e
<1> DEFINE IsReached(f) ==
               f = [k \in 0 .. Size |-> IF k = 0 THEN {e} \cap Members
                                        ELSE LET before == f[k - 1]
                                             IN  before \cup ({next(m) : m \in before} \cap Members)]
           reached == CHOOSE f : IsReached(f)
<1>1. PICK g : Walk(g, e, Size)
  BY WalkExists, Constants
<1>2. IsReached(g)
  <2>1. g = [k \in 0 .. Size |-> g[k]]
    BY <1>1 DEF Walk
  <2>2. \A k \in 0 .. Size : g[k] = IF k = 0 THEN {e} \cap Members
                                    ELSE g[k - 1] \cup ({next(m) : m \in g[k - 1]} \cap Members)
    <3> TAKE k \in 0 .. Size
    <3>1. CASE k = 0
      BY <1>1, <3>1 DEF Walk
    <3>2. CASE k # 0
      <4>1. k \in 1 .. Size
        BY <3>2, Constants
      <4> QED
        BY <1>1, <3>2, <4>1 DEF Walk, Follow
    <3> QED
      BY <3>1, <3>2
  <2> QED
    BY <2>1, <2>2
<1>3. IsReached(reached)
  BY <1>2
<1>4. From(e) = reached[Cardinality(Members)]
  BY DEF From
<1> HIDE DEF reached
<1>5. \A k \in 0 .. Size : reached[k] = IF k = 0 THEN {e} \cap Members ELSE Follow(reached[k - 1])
  BY <1>3 DEF Follow
<1>6. reached = [k \in 0 .. Size |-> reached[k]]
  BY <1>3
<1>7. \A k \in 0 .. Size : reached[k] = g[k]
  <2> DEFINE bad == {k \in 0 .. Size : reached[k] # g[k]}
  <2> SUFFICES ASSUME bad # {} PROVE FALSE
    OBVIOUS
  <2>1. PICK k \in bad : \A j \in bad : k <= j
    <3>1. bad \subseteq Nat
      BY Constants
    <3> HIDE DEF bad
    <3> QED
      BY <3>1, LeastNumber
  <2>2. CASE k = 0
    BY <1>1, <1>5, <2>1, <2>2 DEF Walk
  <2>3. CASE k # 0
    <3>1. k \in 1 .. Size /\ k - 1 \in 0 .. Size /\ k - 1 \notin bad
      BY <2>1, <2>3, Constants
    <3>2. reached[k] = Follow(reached[k - 1]) /\ reached[k - 1] = g[k - 1]
      BY <1>5, <2>3, <3>1
    <3>3. g[k] = Follow(g[k - 1])
      BY <1>1, <3>1 DEF Walk
    <3> QED
      BY <2>1, <3>2, <3>3
  <2> QED
    BY <2>2, <2>3
<1>8. Cardinality(Members) \in 0 .. Size
  BY CountMembers
<1> QED
  BY <1>1, <1>4, <1>7, <1>8

LEMMA WalkGrows ==
    ASSUME NEW e, NEW n \in Nat, NEW f, Walk(f, e, n), NEW j \in 0 .. n, NEW k \in 0 .. n, j <= k
    PROVE  f[j] \subseteq f[k]
<1> DEFINE bad == {i \in j .. n : ~ (f[j] \subseteq f[i])}
<1> SUFFICES ASSUME bad # {} PROVE FALSE
  OBVIOUS
<1>1. PICK i \in bad : \A h \in bad : i <= h
  <2>1. bad \subseteq Nat
    OBVIOUS
  <2> HIDE DEF bad
  <2> QED
    BY <2>1, LeastNumber
<1>2. i \in j .. n /\ i # j
  BY <1>1
<1>3. i \in 1 .. n /\ i - 1 \in j .. n /\ i - 1 \notin bad
  BY <1>1, <1>2
<1>4. f[j] \subseteq f[i - 1] /\ f[i] = Follow(f[i - 1])
  BY <1>3 DEF Walk
<1> QED
  BY <1>1, <1>4 DEF Follow

Reaches(e) ==
    /\ From(e) \subseteq Members
    /\ e \in Members => e \in From(e)
    /\ \A m \in From(e) : next(m) \in Members => next(m) \in From(e)
    /\ \A S \in SUBSET Members :
           (e \in Members => e \in S) /\ (\A m \in S : next(m) \in Members => next(m) \in S)
               => From(e) \subseteq S

(***************************************************************************)
(* A walk of as many turns as there are members gets everywhere, since     *)
(* fewer members are before one than before the next.                      *)
(***************************************************************************)
LEMMA WalkReaches == ASSUME TypeOK, FreeList PROVE \A e : Reaches(e)
<1> TAKE e
<1>1. PICK place : ListOf(Members, Links, place)
  BY DEF FreeList
<1>2. PICK f : Walk(f, e, Size) /\ From(e) = f[Cardinality(Members)]
  BY FromIs
<1> DEFINE c == Cardinality(Members)
           before == [m \in Members |-> {n \in Members : place[n] < place[m]}]
           rank == [m \in Members |-> Cardinality(before[m])]
<1>3. /\ c \in 0 .. Size /\ Size \in Nat
      /\ \A k \in 0 .. Size : f[k] \subseteq Members
      /\ f[0] = {e} \cap Members
      /\ \A k \in 1 .. Size : f[k] = Follow(f[k - 1])
  <2>1. c \in 0 .. Size
    BY CountMembers
  <2> HIDE DEF c
  <2> QED
    BY <1>2, <2>1, Constants DEF Walk
<1>4. /\ \A m \in Members : place[m] \in Int /\ Links[m] = next(m)
      /\ \A m \in Members : next(m) \in Members => place[m] < place[next(m)]
  <2>1. \A m \in Members : m \in Address /\ Links[m] = next(m)
    BY DEF Members, Links, next
  <2> QED
    BY <1>1, <2>1 DEF ListOf
<1>5. \A m \in Members : /\ before[m] \subseteq Members /\ m \notin before[m]
                         /\ next(m) \in Members => /\ before[m] \subseteq before[next(m)]
                                                   /\ m \in before[next(m)]
  <2> TAKE m \in Members
  <2>1. before[m] \subseteq Members /\ m \notin before[m]
    BY <1>4
  <2>2. ASSUME next(m) \in Members
        PROVE  before[m] \subseteq before[next(m)] /\ m \in before[next(m)]
    BY <1>4, <2>2
  <2> QED
    BY <2>1, <2>2
<1> HIDE DEF before
<1>6. ASSUME NEW S \in SUBSET Members, NEW T \in SUBSET S, S # T
      PROVE  Cardinality(T) \in Nat /\ Cardinality(S) \in Nat /\ Cardinality(T) < Cardinality(S)
  <2>1. IsFiniteSet(S)
    BY CountMembers, FS_Subset
  <2>2. IsFiniteSet(T) /\ Cardinality(T) <= Cardinality(S) /\ Cardinality(T) # Cardinality(S)
    BY <1>6, <2>1, FS_Subset
  <2>3. Cardinality(T) \in Nat /\ Cardinality(S) \in Nat
    BY <2>1, <2>2, FS_CardinalityType
  <2> QED
    BY <2>2, <2>3
<1>7. \A m \in Members : /\ rank[m] \in Nat /\ rank[m] < c
                         /\ next(m) \in Members => rank[m] < rank[next(m)]
  <2> TAKE m \in Members
  <2>1. rank[m] \in Nat /\ rank[m] < c
    BY <1>5, <1>6
  <2>2. ASSUME next(m) \in Members PROVE rank[m] < rank[next(m)]
    <3>1. Cardinality(before[m]) < Cardinality(before[next(m)])
      BY <1>5, <1>6, <2>2
    <3> QED
      BY <2>2, <3>1
  <2> QED
    BY <2>1, <2>2
<1> HIDE DEF c, rank
<1>8. \A m \in Members : rank[m] \in 0 .. Size /\ rank[m] + 1 \in 1 .. Size /\ rank[m] + 1 <= c
  <2> TAKE m \in Members
  <2>1. rank[m] \in Nat /\ rank[m] < c
    BY <1>7
  <2> QED
    BY <1>3, <2>1
<1>9. ASSUME NEW m \in Members, m \in f[rank[m]], next(m) \in Members
      PROVE  next(m) \in f[rank[m] + 1]
  <2> DEFINE r == rank[m] + 1
  <2>1. r \in 1 .. Size /\ r - 1 = rank[m]
    BY <1>8
  <2> HIDE DEF r
  <2>2. f[r] = Follow(f[rank[m]])
    BY <1>3, <2>1
  <2>3. next(m) \in f[r]
    BY <1>9, <2>2 DEF Follow
  <2> QED
    BY <2>3 DEF r
<1>10. \A j, k \in 0 .. Size : j <= k => f[j] \subseteq f[k]
  BY <1>2, <1>3, WalkGrows
<1>11. \A k \in 0 .. Size : \A m \in f[k] : m \in f[rank[m]]
  <2> DEFINE bad == {k \in 0 .. Size : \E m \in f[k] : m \notin f[rank[m]]}
  <2> SUFFICES ASSUME bad # {} PROVE FALSE
    OBVIOUS
  <2>1. PICK k \in bad : \A j \in bad : k <= j
    <3>1. bad \subseteq Nat
      OBVIOUS
    <3> HIDE DEF bad
    <3> QED
      BY <3>1, LeastNumber
  <2>2. PICK m \in f[k] : m \notin f[rank[m]]
    BY <2>1
  <2>3. m \in Members /\ k \in 0 .. Size
    BY <1>3, <2>1
  <2>4. CASE k = 0
    <3>1. 0 \in 0 .. Size /\ 0 <= rank[m]
      BY <1>3, <1>7, <2>3
    <3> QED
      BY <1>8, <1>10, <2>2, <2>3, <2>4, <3>1
  <2>5. CASE k # 0
    <3>1. k \in 1 .. Size /\ k - 1 \in 0 .. Size /\ k - 1 \notin bad
      BY <1>3, <2>1, <2>3, <2>5
    <3>2. \A n \in f[k - 1] : n \in Members /\ n \in f[rank[n]]
      BY <1>3, <3>1
    <3>3. m \notin f[k - 1]
      BY <2>2, <3>2
    <3>4. PICK n \in f[k - 1] : m = next(n)
      BY <1>3, <2>2, <3>1, <3>3 DEF Follow
    <3>5. m \in f[rank[n] + 1]
      BY <1>9, <2>3, <3>2, <3>4
    <3>6. /\ rank[n] + 1 \in 0 .. Size /\ rank[m] \in 0 .. Size /\ rank[n] + 1 <= rank[m]
      BY <1>7, <1>8, <2>3, <3>2, <3>4
    <3> QED
      BY <1>10, <2>2, <3>5, <3>6
  <2> QED
    BY <2>4, <2>5
<1>12. ASSUME NEW m \in f[c], next(m) \in Members PROVE next(m) \in f[c]
  <2>1. m \in Members /\ m \in f[rank[m]]
    BY <1>3, <1>11
  <2>2. next(m) \in f[rank[m] + 1]
    BY <1>9, <1>12, <2>1
  <2>3. rank[m] + 1 \in 0 .. Size /\ rank[m] + 1 <= c
    BY <1>3, <1>8, <2>1
  <2> QED
    BY <1>3, <1>10, <2>2, <2>3
<1>13. ASSUME NEW S \in SUBSET Members, e \in Members => e \in S,
              \A m \in S : next(m) \in Members => next(m) \in S
       PROVE  f[c] \subseteq S
  <2> DEFINE bad == {k \in 0 .. Size : ~ (f[k] \subseteq S)}
  <2> SUFFICES ASSUME bad # {} PROVE FALSE
    BY <1>3
  <2>1. PICK k \in bad : \A j \in bad : k <= j
    <3>1. bad \subseteq Nat
      OBVIOUS
    <3> HIDE DEF bad
    <3> QED
      BY <3>1, LeastNumber
  <2>2. k \in 0 .. Size /\ ~ (f[k] \subseteq S)
    BY <2>1
  <2>3. CASE k = 0
    BY <1>3, <1>13, <2>2, <2>3
  <2>4. CASE k # 0
    <3>1. k \in 1 .. Size /\ k - 1 \in 0 .. Size /\ k - 1 \notin bad
      BY <1>3, <2>1, <2>2, <2>4
    <3>2. f[k - 1] \subseteq S
      BY <3>1
    <3>3. Follow(f[k - 1]) \subseteq S
      BY <1>13, <3>2 DEF Follow
    <3> QED
      BY <1>3, <2>2, <3>1, <3>3
  <2> QED
    BY <2>3, <2>4
<1>14. From(e) = f[c]
  BY <1>2 DEF c
<1>15. e \in Members => e \in f[c]
  <2>1. 0 \in 0 .. Size /\ 0 <= c
    BY <1>3
  <2> QED
    BY <1>3, <1>10, <2>1
<1> QED
  BY <1>3, <1>12, <1>13, <1>14, <1>15 DEF Reaches

(* While neither a client nor the allocator has written over a link in it, *)
(* a walk from the head of the list meets each free block, and each has    *)
(* one before it: none is lost to later calls, none can be handed out      *)
(* twice, in a region of any size with any number of clients               *)
(* (allocator.cpp:20-25, 43-91, 166-179).                                  *)
THEOREM ListTheorem == Spec => []FreeBlocksAreListed
<1>1. ASSUME Inv, call.op \notin {"defrag"} \cup Failures, ~ tangled,
             \A m \in Members : next(m) \in Address
      PROVE  /\ From(avail_head) = Members
             /\ \A e \in (Members \ {avail_head}) \cup {avail_tail} :
                    \E m \in Members : next(m) = e /\ \A n \in Members \ {m} : next(n) # e
  <2>1. TypeOK /\ FreeList
    BY <1>1 DEF Inv, Tidy, Listed
  <2>2. PICK place : ListOf(Members, Links, place)
    BY <2>1 DEF FreeList
  <2>3. \A m \in Members : Links[m] = next(m) /\ Links[m] \notin Pointers
    <3>1. \A m \in Members : Links[m] = next(m)
      BY DEF Members, Links, next
    <3> QED
      BY <1>1, <3>1, Constants
  <2>4. \A e \in (Members \ {avail_head}) \cup {avail_tail} :
            \E m \in Members : next(m) = e /\ \A n \in Members \ {m} : next(n) # e
    <3> TAKE e \in (Members \ {avail_head}) \cup {avail_tail}
    <3>1. Complete(Members, Links)
      BY <2>2 DEF ListOf
    <3>2. PICK m \in Members : Links[m] = e /\ \A n \in Members \ {m} : Links[n] # e
      BY <2>3, <3>1 DEF Complete
    <3>3. next(m) = e /\ \A n \in Members \ {m} : next(n) # e
      BY <2>3, <3>2
    <3> QED
      BY <3>3
  <2>5. From(avail_head) \subseteq Members /\ avail_head \in From(avail_head)
        /\ \A m \in From(avail_head) : next(m) \in Members => next(m) \in From(avail_head)
    <3>1. Reaches(avail_head)
      BY <2>1, WalkReaches
    <3>2. avail_head \in Members
      BY <2>2 DEF ListOf
    <3> QED
      BY <3>1, <3>2 DEF Reaches
  <2> DEFINE lost == Members \ From(avail_head)
             ranks == {place[m] - place[avail_head] : m \in lost}
  <2>6. /\ \A m \in Members : place[m] \in Int
        /\ \A m \in Members : m # avail_head => place[avail_head] < place[m]
        /\ \A m \in Members : next(m) \in Members => place[m] < place[next(m)]
        /\ avail_head \in Members
    BY <2>2, <2>3 DEF ListOf
  <2>7. lost = {}
    <3> SUFFICES ASSUME lost # {} PROVE FALSE
      OBVIOUS
    <3>1. ranks \subseteq Nat /\ ranks # {}
      <4>1. \A m \in lost : place[m] - place[avail_head] \in Nat
        BY <2>5, <2>6
      <4> QED
        BY <4>1
    <3>2. PICK r \in ranks : \A s \in ranks : r <= s
      <4> HIDE DEF ranks
      <4> QED
        BY <3>1, LeastNumber
    <3>3. PICK m \in lost : r = place[m] - place[avail_head]
      BY <3>2
    <3>4. m \in Members \ {avail_head} /\ m \notin From(avail_head)
      BY <2>5, <3>3
    <3>5. PICK p \in Members : next(p) = m
      BY <2>4, <3>4
    <3>6. p \notin From(avail_head)
      BY <2>5, <3>4, <3>5
    <3>7. place[p] - place[avail_head] \in ranks
      BY <3>6
    <3>8. place[p] < place[m]
      BY <2>6, <3>4, <3>5
    <3>9. r <= place[p] - place[avail_head]
      BY <3>2, <3>7
    <3>10. place[p] \in Int /\ place[m] \in Int /\ place[avail_head] \in Int
      BY <2>6, <3>4
    <3> QED
      BY <3>3, <3>8, <3>9, <3>10
  <2> QED
    BY <2>4, <2>5, <2>7
<1>2. Inv => FreeBlocksAreListed
  BY <1>1 DEF FreeBlocksAreListed
<1> QED
  BY <1>2, InvAlways, PTL

-----------------------------------------------------------------------------
(* Searches *)

LEMMA FewerTogether ==
    ASSUME NEW F \in SUBSET Address, NEW F1 \in SUBSET F,
           NEW B \in SUBSET Address, NEW B1 \in SUBSET B, F1 # F \/ B1 # B
    PROVE  Cardinality(F1) + Cardinality(B1) < Cardinality(F) + Cardinality(B)
<1>1. IsFiniteSet(Address)
  BY Constants, FS_Interval
<1>2. IsFiniteSet(F) /\ IsFiniteSet(B)
  BY <1>1, FS_Subset
<1>3. /\ IsFiniteSet(F1) /\ Cardinality(F1) <= Cardinality(F)
      /\ Cardinality(F) = Cardinality(F1) => F = F1
  BY <1>2, FS_Subset
<1>4. /\ IsFiniteSet(B1) /\ Cardinality(B1) <= Cardinality(B)
      /\ Cardinality(B) = Cardinality(B1) => B = B1
  BY <1>2, FS_Subset
<1>5. /\ Cardinality(F) \in Nat /\ Cardinality(F1) \in Nat
      /\ Cardinality(B) \in Nat /\ Cardinality(B1) \in Nat
  BY <1>2, <1>3, <1>4, FS_CardinalityType
<1> QED
  BY <1>3, <1>4, <1>5

SearchReaches == Searching => Reaches(call.cur)

(* The members from cur on are those of S after the step, or fewer.        *)
LEMMA ReachesOnly ==
    ASSUME Reaches(call.cur)', NEW S, S \subseteq Members', call'.cur \in Members' => call'.cur \in S,
           \A m \in S : next(m)' \in Members' => next(m)' \in S
    PROVE  From(call.cur)' \subseteq S
  BY DEF Reaches

LEMMA DropAbsorbedAdvances ==
    ASSUME TypeOK, Tidy, Reaches(call.cur), Reaches(call.cur)', DropAbsorbed
    PROVE  Cardinality(From(call.cur)') + Cardinality(Blocks)'
               < Cardinality(From(call.cur)) + Cardinality(Blocks)
<1> DEFINE p == call.prev
           c == call.cur
           F == From(call.cur)
           F1 == From(call.cur)'
<1>1. /\ c \in Members /\ c \in Address /\ p \in Members /\ c = next(p)
      /\ call \in Request /\ FreeList
  BY AtMember, SearchGoesOn DEF DropAbsorbed, AtBlock
<1>2. /\ F \subseteq Members /\ c \in F
      /\ \A m \in F : next(m) \in Members => next(m) \in F
  BY <1>1 DEF Reaches
<1>3. /\ word' = Unlinked(p, c) /\ ~ isFree'[c]
      /\ \A x \in Address \ {c} : isFree'[x] = isFree[x] /\ start'[x] = start[x]
      /\ child' = child /\ call'.cur = next(c)
  BY <1>1 DEF DropAbsorbed, TypeOK, Request
<1>4. Members' = Members \ {c}
  BY <1>1, <1>3 DEF Members
<1>5. \A m \in Members \ {c} : next(m)' = IF m = p THEN next(c) ELSE next(m)
  <2> TAKE m \in Members \ {c}
  <2>1. m \in Address /\ start'[m] = start[m] /\ start[m] \in Address /\ start[p] \in Address
        /\ word \in [Address -> Address \cup {nullptr} \cup Pointers]
    BY <1>1, <1>3, LinkLeadsOn DEF TypeOK
  <2>2. m # p => start[m] # start[p]
    BY <1>1 DEF FreeList, MembersApart
  <2> QED
    BY <1>3, <2>1, <2>2 DEF Unlinked, next
<1>6. F1 \subseteq F \ {c}
  <2> DEFINE S == F \ {c}
  <2>1. S \subseteq Members'
    BY <1>2, <1>4
  <2>2. next(c) \in Members' => next(c) \in S
    BY <1>2, <1>4
  <2>3. \A m \in S : next(m)' \in Members' => next(m)' \in S
    BY <1>2, <1>4, <1>5, <2>2
  <2> HIDE DEF S
  <2>4. From(call.cur)' \subseteq S
    BY <1>3, <2>1, <2>2, <2>3, ReachesOnly
  <2> QED
    BY <2>4 DEF S
<1>7. Blocks' = Blocks /\ Blocks \in SUBSET Address /\ Members \in SUBSET Address
  BY <1>3 DEF Blocks, IsBlock, Members
<1> HIDE DEF F, F1
<1>8. Cardinality(F1) + Cardinality(Blocks') < Cardinality(F) + Cardinality(Blocks)
  BY <1>2, <1>6, <1>7, FewerTogether
<1> QED
  BY <1>8 DEF F, F1

LEMMA AdvanceAdvances ==
    ASSUME TypeOK, Tidy, Reaches(call.cur), Reaches(call.cur)', Advance
    PROVE  Cardinality(From(call.cur)') + Cardinality(Blocks)'
               < Cardinality(From(call.cur)) + Cardinality(Blocks)
<1> DEFINE c == call.cur
           F == From(call.cur)
           F1 == From(call.cur)'
<1>1. c \in Members /\ call \in Request /\ FreeList
  BY AtMember, SearchGoesOn DEF Advance, TooSmall, AtBlock
<1>2. /\ F \subseteq Members /\ c \in F
      /\ \A m \in F : next(m) \in Members => next(m) \in F
  BY <1>1 DEF Reaches
<1>3. /\ UNCHANGED <<start, isFree, child, word>>
      /\ call'.cur = next(c)
  BY <1>1 DEF Advance, blocks, memory, Request
<1>4. Members' = Members /\ Blocks' = Blocks /\ \A m : next(m)' = next(m)
  BY <1>3 DEF Members, Blocks, IsBlock, next
<1>5. PICK place : ListOf(Members, Links, place)
  BY <1>1 DEF FreeList
<1>6. /\ \A m \in Members : place[m] \in Int
      /\ \A m \in Members : next(m) \in Members => place[m] < place[next(m)]
  <2>1. \A m \in Members : Links[m] = next(m)
    BY DEF Members, Links, next
  <2> QED
    BY <1>5, <2>1 DEF ListOf
<1>7. F1 \subseteq F /\ c \notin F1
  <2> DEFINE S == {m \in F : place[c] < place[m]}
  <2>1. S \subseteq Members' /\ c \notin S /\ S \subseteq F
    BY <1>1, <1>2, <1>4, <1>6
  <2>2. next(c) \in Members' => next(c) \in S
    BY <1>1, <1>2, <1>4, <1>6
  <2>3. ASSUME NEW m \in S, next(m)' \in Members' PROVE next(m)' \in S
    <3>1. m \in Members /\ m \in F /\ place[c] < place[m] /\ next(m) \in Members
      BY <1>2, <1>4, <2>3
    <3>2. place[m] < place[next(m)] /\ next(m) \in F
      BY <1>2, <1>6, <3>1
    <3>3. place[c] < place[next(m)]
      BY <1>1, <1>6, <3>1, <3>2
    <3> QED
      BY <1>4, <3>2, <3>3
  <2> HIDE DEF S
  <2>4. From(call.cur)' \subseteq S
    BY <1>3, <2>1, <2>2, <2>3, ReachesOnly
  <2> QED
    BY <2>1, <2>4
<1>8. Blocks \in SUBSET Address /\ Members \in SUBSET Address
  BY DEF Blocks, Members
<1> HIDE DEF F, F1
<1>9. Cardinality(F1) + Cardinality(Blocks') < Cardinality(F) + Cardinality(Blocks)
  BY <1>2, <1>4, <1>7, <1>8, FewerTogether
<1> QED
  BY <1>9 DEF F, F1

LEMMA MergeAdvances ==
    ASSUME TypeOK, Tidy, Reaches(call.cur), Reaches(call.cur)', Merge
    PROVE  Cardinality(From(call.cur)') + Cardinality(Blocks)'
               < Cardinality(From(call.cur)) + Cardinality(Blocks)
<1> DEFINE c == call.cur
           b == child[c]
           F == From(call.cur)
           F1 == From(call.cur)'
<1>1. c \in Members /\ c \in Address /\ c # avail_head
  BY AtMember DEF Merge, TooSmall
<1>2. /\ F \subseteq Members /\ c \in F
      /\ \A m \in F : next(m) \in Members => next(m) \in F
  BY <1>1 DEF Reaches
<1>3. /\ UNCHANGED <<start, isFree, word>> /\ call' = call
      /\ child' = Absorbed(c, b) /\ b # avail_tail /\ IsBlock(c)
  BY DEF Merge, TooSmall, memory
<1>4. Members' = Members /\ \A m : next(m)' = next(m)
  BY <1>3 DEF Members, next
<1>5. b \in Live /\ b \in Address /\ b # avail_head /\ b # c
  <2>1. c \in Live /\ c \in Address
    BY <1>1, <1>3 DEF Live
  <2>2. b \in Live /\ b # avail_head
    BY <1>3, <2>1, LiveRow DEF Tidy
  <2>3. b # c
    <3>1. PICK rank : ChainOf(Live, child, rank)
      BY DEF Tidy, Row
    <3>2. rank[c] < rank[b] /\ rank[c] \in Int
      BY <2>1, <3>1 DEF ChainOf
    <3> QED
      BY <3>2
  <2> QED
    BY <2>2, <2>3 DEF Live
<1>6. Blocks' \subseteq Blocks /\ b \in Blocks /\ b \notin Blocks'
  <2>1. b \in Blocks
    BY <1>5 DEF Live, Blocks
  <2>2. child'[b] = nullptr
    BY <1>1, <1>3, <1>5 DEF Absorbed, TypeOK
  <2>3. \A e \in Address \ {b} : e # c => child'[e] = child[e]
    BY <1>1, <1>3, <1>5 DEF Absorbed, TypeOK
  <2>4. c \in Blocks
    BY <1>1, <1>3 DEF Blocks
  <2> QED
    BY <2>1, <2>2, <2>3, <2>4 DEF Blocks, IsBlock
<1>7. F1 \subseteq F
  <2>1. From(call.cur)' \subseteq F
    <3>1. F \subseteq Members' /\ call'.cur \in F
      BY <1>2, <1>3, <1>4
    <3>2. \A m \in F : next(m)' \in Members' => next(m)' \in F
      BY <1>2, <1>4
    <3> HIDE DEF F
    <3> QED
      BY <3>1, <3>2, ReachesOnly
  <2> QED
    BY <2>1
<1>8. Blocks \in SUBSET Address /\ Members \in SUBSET Address
  BY DEF Blocks, Members
<1> HIDE DEF F, F1
<1>9. Cardinality(F1) + Cardinality(Blocks') < Cardinality(F) + Cardinality(Blocks)
  BY <1>2, <1>6, <1>7, <1>8, FewerTogether
<1> QED
  BY <1>9 DEF F, F1

(* A search of a list that the allocator has not tangled ends, in a region *)
(* of any size: each of its turns leaves a member behind for good or makes *)
(* one block of two, so that there are never more turns than members and   *)
(* blocks when it starts (allocator.cpp:41-91).                            *)
THEOREM SearchTheorem == Spec => SearchAdvances
<1>1. Inv => SearchReaches
  <2> SUFFICES ASSUME Inv, Searching PROVE Reaches(call.cur)
    BY DEF SearchReaches
  <2>1. TypeOK /\ FreeList
    BY SearchGoesOn DEF Inv, Searching, Failures
  <2> QED
    BY <2>1, WalkReaches
<1>2. ASSUME Inv, SearchReaches, SearchReaches', Next, Searching, Searching'
      PROVE  Cardinality(From(call.cur)') + Cardinality(Blocks)'
                 < Cardinality(From(call.cur)) + Cardinality(Blocks)
  <2>1. TypeOK /\ Tidy
    BY <1>2 DEF Inv, Searching, Failures
  <2>2. Reaches(call.cur) /\ Reaches(call.cur)'
    BY <1>2 DEF SearchReaches
  <2>3. call.op \in {"alloc", "move"} /\ call'.op \in {"alloc", "move"} /\ call # NoCall
    BY <1>2 DEF Searching, NoCall
  <2>4. DropAbsorbed \/ Merge \/ Advance
    <3>1. ~ Client
      BY <2>3 DEF Client, Alloc, Realloc, Write, Free, Defrag, Idle
    <3>2. ~ (Join \/ JoinEnds \/ GrowInPlace \/ GrowElsewhere \/ Move
             \/ DefragSkips \/ DefragMoves \/ DefragEnds)
      BY <2>3 DEF Join, JoinEnds, GrowInPlace, GrowElsewhere, Move, DefragSkips, DefragMoves,
                  DefragEnds
    <3>3. ~ (SearchFails \/ SearchGoesWild \/ TakePartFails \/ TakePartLost)
      BY <2>3 DEF SearchFails, SearchGoesWild, TakePartFails, TakePartLost, Return, NoCall, Stop
    <3>4. ~ Deliver
      BY <2>3 DEF Deliver, Return, NoCall
    <3>5. ~ (TakeAll \/ TakePart)
      BY <2>3, <3>4 DEF TakeAll, TakePart, Stop
    <3> QED
      BY <1>2, <3>1, <3>2, <3>3, <3>5 DEF Next, Turn
  <2> QED
    BY <2>1, <2>2, <2>4, DropAbsorbedAdvances, MergeAdvances, AdvanceAdvances
<1>3. Inv /\ SearchReaches /\ SearchReaches' /\ [Next]_vars =>
          [~ tangled /\ Searching /\ Searching' =>
               Cardinality(From(call.cur)') + Cardinality(Blocks)'
                   < Cardinality(From(call.cur)) + Cardinality(Blocks)]_vars
  BY <1>2
<1> QED
  BY <1>1, <1>3, InvAlways, PTL DEF Spec, SearchAdvances
=============================================================================
