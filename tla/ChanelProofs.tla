---------------------------- MODULE ChanelProofs ----------------------------
(***************************************************************************)
(* Proofs about the ring buffer of 06-chanels, for every capacity, every   *)
(* alphabet and every request size.                                        *)
(***************************************************************************)
EXTENDS Chanel, SequenceTheorems, TLAPS

(* What a client passes to write is a sequence of bytes. *)
LEMMA DataIsBytes ==
    ASSUME NEW data \in Data
    PROVE  data \in Seq(Byte) /\ Len(data) \in 0 .. MaxRequest
           /\ data \in [1 .. Len(data) -> Byte]
<1>1. PICK size \in 0 .. MaxRequest : data \in [1 .. size -> Byte]
  BY DEF Data
<1>2. size \in Nat
  BY ChanelAssumption
<1>3. data \in Seq(Byte) /\ Len(data) = size
  BY <1>1, <1>2
<1> QED
  BY <1>1, <1>2, <1>3

(* A memcpy into the buffer leaves a buffer, if data has the bytes. *)
LEMMA CopiedIsBuffer ==
    ASSUME NEW buf \in [Cell -> Byte], NEW at \in Nat, NEW n \in Nat,
           NEW data \in Seq(Byte), n <= Len(data)
    PROVE  Copied(buf, at, data, n) \in [Cell -> Byte]
<1> SUFFICES ASSUME NEW i \in Cell
             PROVE  (IF at <= i /\ i < at + n THEN data[i - at + 1] ELSE buf[i]) \in Byte
  BY DEF Copied
<1>1. i \in Nat
  BY ChanelAssumption DEF Cell
<1>2. CASE at <= i /\ i < at + n
  <2>1. i - at + 1 \in 1 .. Len(data)
    BY <1>1, <1>2
  <2> QED
    BY <1>2, <2>1
<1>3. CASE ~ (at <= i /\ i < at + n)
  BY <1>3
<1> QED
  BY <1>2, <1>3

(* A memcpy out of the buffer that stays inside it yields bytes. *)
LEMMA FetchedIsBytes ==
    ASSUME buffer \in [Cell -> Byte], NEW at \in Nat, NEW n \in Nat, at + n <= Capacity
    PROVE  Fetched(at, n) \in Seq(Byte) /\ Len(Fetched(at, n)) = n
<1>1. \A i \in 1 .. n : buffer[at + i - 1] \in Byte
  BY ChanelAssumption DEF Cell
<1>2. Fetched(at, n) \in [1 .. n -> Byte]
  BY <1>1 DEF Fetched
<1> QED
  BY <1>2

Inv == TypeOK /\ OffsetsAgree

LEMMA InitInv == Init => Inv
  BY ChanelAssumption DEF Init, Inv, TypeOK, OffsetsAgree, Wrap, Cell

LEMMA NextInv == Inv /\ [Next]_vars => Inv'
<1> SUFFICES ASSUME Inv, [Next]_vars PROVE Inv'
  OBVIOUS
<1> USE ChanelAssumption
<1>1. ASSUME NEW data \in Data, WriteContiguous(data) PROVE Inv'
  <2>1. data \in Seq(Byte) /\ Len(data) \in Nat
    BY DataIsBytes
  <2>2. buffer' \in [Cell -> Byte]
    <3>1. end_offset \in Nat
      BY DEF Inv, TypeOK, Cell
    <3> QED
      BY <1>1, <2>1, <3>1, CopiedIsBuffer DEF WriteContiguous, Inv, TypeOK
  <2>3. /\ begin_offset' \in Cell /\ end_offset' \in Cell /\ cur_size' \in 0 .. Capacity
        /\ OffsetsAgree'
    BY <1>1, <2>1 DEF WriteContiguous, Advanced, Fits, Inv, TypeOK, OffsetsAgree, Wrap, Cell
  <2> QED
    BY <1>1, <2>1, <2>2, <2>3 DEF WriteContiguous, Inv, TypeOK
<1>2. ASSUME NEW data \in Data, WriteWrapped(data) PROVE Inv'
  <2> DEFINE to_end_size == Capacity - end_offset
             from_start_size == Len(data) - to_end_size
  <2>1. data \in Seq(Byte) /\ Len(data) \in Nat
    BY DataIsBytes
  <2>2. /\ end_offset \in Nat
        /\ to_end_size \in Nat /\ to_end_size <= Len(data)
        /\ from_start_size \in Nat /\ from_start_size <= Len(data)
    BY <1>2, <2>1 DEF WriteWrapped, Inv, TypeOK, Cell
  <2>3. Copied(buffer, end_offset, data, to_end_size) \in [Cell -> Byte]
    BY <2>1, <2>2, CopiedIsBuffer DEF Inv, TypeOK
  <2>4. buffer' \in [Cell -> Byte]
    BY <1>2, <2>1, <2>2, <2>3, CopiedIsBuffer DEF WriteWrapped
  <2>5. /\ begin_offset' \in Cell /\ end_offset' \in Cell /\ cur_size' \in 0 .. Capacity
        /\ OffsetsAgree'
    BY <1>2, <2>1 DEF WriteWrapped, Fits, Inv, TypeOK, OffsetsAgree, Wrap, Cell
  <2> QED
    BY <1>2, <2>1, <2>4, <2>5 DEF WriteWrapped, Inv, TypeOK
<1>3. ASSUME NEW max_size \in 0 .. MaxRequest, ReadContiguous(max_size) PROVE Inv'
  <2> DEFINE read_num == ReadNum(max_size)
  <2>1. /\ begin_offset \in Nat /\ read_num \in 0 .. cur_size
        /\ begin_offset + read_num <= Capacity
    BY <1>3 DEF ReadContiguous, ReadNum, Inv, TypeOK, Cell
  <2>2. taken' \in Seq(Byte)
    BY <1>3, <2>1, FetchedIsBytes DEF ReadContiguous, Inv, TypeOK
  <2>3. /\ cur_size' = cur_size - read_num
        /\ begin_offset' = IF begin_offset + read_num = Capacity
                           THEN 0 ELSE begin_offset + read_num
        /\ end_offset' = end_offset
    BY <1>3 DEF ReadContiguous, Advanced
  <2> HIDE DEF read_num
  <2>4. /\ begin_offset' \in Cell /\ end_offset' \in Cell /\ cur_size' \in 0 .. Capacity
        /\ OffsetsAgree'
    BY <2>1, <2>3 DEF Inv, TypeOK, OffsetsAgree, Wrap, Cell
  <2> QED
    BY <1>3, <2>2, <2>4 DEF ReadContiguous, Inv, TypeOK
<1>4. ASSUME NEW max_size \in 0 .. MaxRequest, ReadWrapped(max_size) PROVE Inv'
  <2> DEFINE read_num == ReadNum(max_size)
             size_1 == Capacity - begin_offset
             size_2 == read_num - size_1
  <2>1. /\ begin_offset \in Nat /\ read_num \in 0 .. cur_size
        /\ size_1 \in Nat /\ begin_offset + size_1 <= Capacity
        /\ size_2 \in Nat /\ 0 + size_2 <= Capacity
    BY <1>4 DEF ReadWrapped, ReadNum, Inv, TypeOK, Cell
  <2>2. /\ Fetched(begin_offset, size_1) \in Seq(Byte)
        /\ Fetched(0, size_2) \in Seq(Byte)
    BY <2>1, FetchedIsBytes DEF Inv, TypeOK
  <2>3. taken' \in Seq(Byte)
    BY <1>4, <2>2 DEF ReadWrapped
  <2>4. cur_size' = cur_size - read_num /\ begin_offset' = size_2 /\ end_offset' = end_offset
    BY <1>4 DEF ReadWrapped
  <2> HIDE DEF read_num
  <2>5. /\ begin_offset' \in Cell /\ end_offset' \in Cell /\ cur_size' \in 0 .. Capacity
        /\ OffsetsAgree'
    BY <2>1, <2>4 DEF Inv, TypeOK, OffsetsAgree, Wrap, Cell
  <2> QED
    BY <1>4, <2>3, <2>5 DEF ReadWrapped, Inv, TypeOK
<1>5. CASE UNCHANGED vars
  BY <1>5 DEF vars, Inv, TypeOK, OffsetsAgree, Wrap
<1> QED
  BY <1>1, <1>2, <1>3, <1>4, <1>5 DEF Next, WriteRefused, ReadRefused

LEMMA InvAlways == Spec => []Inv
  BY InitInv, NextInv, PTL DEF Spec

(* However requests and capacity relate, no offset leaves the buffer and   *)
(* the size stays between zero and the capacity (engine.cpp:137-181).      *)
THEOREM TypeTheorem == Spec => []TypeOK
<1>1. Inv => TypeOK
  BY DEF Inv
<1> QED
  BY <1>1, InvAlways, PTL

(* TypeOK and OffsetsAgree hold in every reachable state: the offsets stay *)
(* inside the buffer, cur_size never exceeds the capacity nor falls below  *)
(* 0 (a size_t would wrap), and the three counters agree                   *)
(* (engine.cpp:137-181).                                                   *)
THEOREM OffsetsTheorem == Spec => [](TypeOK /\ OffsetsAgree)
<1>1. Inv => TypeOK /\ OffsetsAgree
  BY DEF Inv
<1> QED
  BY <1>1, InvAlways, PTL

-----------------------------------------------------------------------------
(* The channel as a stream of bytes. *)

LEMMA ConcatByParts ==
    ASSUME NEW S, NEW s \in Seq(S), NEW t \in Seq(S), NEW u \in Seq(S),
           Len(u) = Len(s) + Len(t),
           \A i \in 1 .. Len(s) : u[i] = s[i],
           \A i \in 1 .. Len(t) : u[Len(s) + i] = t[i]
    PROVE  u = s \o t
<1>1. /\ s \o t \in Seq(S) /\ Len(s \o t) = Len(u)
      /\ Len(s) \in Nat /\ Len(t) \in Nat
      /\ \A i \in 1 .. Len(s) + Len(t) :
             (s \o t)[i] = IF i <= Len(s) THEN s[i] ELSE t[i - Len(s)]
  BY ConcatProperties
<1>2. ASSUME NEW i \in 1 .. Len(u) PROVE u[i] = (s \o t)[i]
  <2>1. CASE i <= Len(s)
    BY <1>1, <2>1
  <2>2. CASE i > Len(s)
    <3>1. PICK j \in 1 .. Len(t) : i = Len(s) + j
      <4>1. i - Len(s) \in 1 .. Len(t) /\ i = Len(s) + (i - Len(s))
        BY <1>1, <2>2
      <4> QED
        BY <4>1
    <3>2. u[Len(s) + j] = t[j]
      OBVIOUS
    <3> QED
      BY <1>1, <2>2, <3>1, <3>2
  <2> QED
    BY <1>1, <2>1, <2>2
<1> QED
  BY <1>1, <1>2, SeqEqual

StreamOK ==
    /\ Unread \in Seq(Byte) /\ Len(Unread) = cur_size
    /\ Unread \in [1 .. cur_size -> Byte]
    /\ \A i \in 1 .. cur_size : Wrap(begin_offset + i - 1) \in Cell

LEMMA UnreadIsBytes == Inv => StreamOK
<1> SUFFICES ASSUME Inv PROVE StreamOK
  OBVIOUS
<1>1. \A i \in 1 .. cur_size : Wrap(begin_offset + i - 1) \in Cell
  BY ChanelAssumption DEF Inv, TypeOK, Wrap, Cell
<1>2. cur_size \in Nat
  BY ChanelAssumption DEF Inv, TypeOK
<1>3. Unread \in [1 .. cur_size -> Byte]
  BY <1>1 DEF Unread, Inv, TypeOK
<1> QED
  BY <1>1, <1>2, <1>3 DEF StreamOK

LEMMA UnreadIsBytesNext == Inv' => StreamOK'
  BY UnreadIsBytes, PTL

(* A write that leaves the unread cells alone appends to the stream. *)
LEMMA UnreadGrows ==
    ASSUME Inv, Inv', NEW n \in Nat,
           cur_size' = cur_size + n, begin_offset' = begin_offset,
           \A i \in 1 .. cur_size :
               buffer'[Wrap(begin_offset + i - 1)] = buffer[Wrap(begin_offset + i - 1)]
    PROVE  \E stored \in [1 .. n -> Byte] : Unread' = Unread \o stored
<1> DEFINE stored == [i \in 1 .. n |-> Unread'[cur_size + i]]
<1>1. cur_size \in Nat /\ cur_size' \in Nat
  BY ChanelAssumption DEF Inv, TypeOK
<1>2. Unread \in Seq(Byte) /\ Len(Unread) = cur_size
  BY UnreadIsBytes DEF StreamOK
<1>3. /\ Unread' \in Seq(Byte) /\ Len(Unread') = cur_size'
      /\ Unread' \in [1 .. cur_size' -> Byte]
  BY UnreadIsBytesNext DEF StreamOK
<1>4. /\ stored \in [1 .. n -> Byte] /\ stored \in Seq(Byte) /\ Len(stored) = n
      /\ \A i \in 1 .. n : stored[i] = Unread'[cur_size + i]
  BY <1>1, <1>3
<1> HIDE DEF stored
<1>5. ASSUME NEW i \in 1 .. cur_size PROVE Unread'[i] = Unread[i]
  <2>1. i \in 1 .. cur_size'
    BY <1>1
  <2>2. Unread' = [j \in 1 .. cur_size' |-> buffer'[Wrap(begin_offset + j - 1)]]
    BY DEF Unread
  <2>3. Unread'[i] = buffer'[Wrap(begin_offset + i - 1)]
    BY <2>1, <2>2
  <2>4. Unread[i] = buffer[Wrap(begin_offset + i - 1)]
    BY DEF Unread
  <2> QED
    BY <2>3, <2>4
<1>6. Unread' = Unread \o stored
  <2>1. Len(Unread') = Len(Unread) + Len(stored)
    BY <1>1, <1>2, <1>3, <1>4
  <2>2. \A i \in 1 .. Len(Unread) : Unread'[i] = Unread[i]
    BY <1>2, <1>5
  <2>3. \A i \in 1 .. Len(stored) : Unread'[Len(Unread) + i] = stored[i]
    BY <1>2, <1>4
  <2> QED
    BY <1>2, <1>3, <1>4, <2>1, <2>2, <2>3, ConcatByParts
<1> QED
  BY <1>4, <1>6

(* A read of n bytes leaves the rest of the stream, and n bytes fetched    *)
(* one after the other around the end are its front.                       *)
LEMMA UnreadShrinks ==
    ASSUME Inv, Inv', NEW n \in 0 .. cur_size,
           cur_size' = cur_size - n, begin_offset' = Wrap(begin_offset + n),
           buffer' = buffer
    PROVE  Unread' = SubSeq(Unread, n + 1, cur_size)
<1>1. cur_size \in Nat /\ cur_size' \in Nat /\ n \in Nat
  BY ChanelAssumption DEF Inv, TypeOK
<1>2. Unread \in Seq(Byte) /\ Len(Unread) = cur_size
  BY UnreadIsBytes DEF StreamOK
<1>3. SubSeq(Unread, n + 1, cur_size) = [i \in 1 .. cur_size' |-> Unread[n + i]]
  BY <1>1, <1>2
<1>4. ASSUME NEW i \in 1 .. cur_size'
      PROVE  Wrap(begin_offset' + i - 1) = Wrap(begin_offset + (n + i) - 1)
  BY <1>1, ChanelAssumption DEF Inv, TypeOK, Wrap, Cell
<1>5. ASSUME NEW i \in 1 .. cur_size'
      PROVE  Unread[n + i] = buffer[Wrap(begin_offset + (n + i) - 1)]
  <2>1. n + i \in 1 .. cur_size
    BY <1>1
  <2> QED
    BY <2>1 DEF Unread
<1>6. Unread' = [i \in 1 .. cur_size' |-> buffer[Wrap(begin_offset' + i - 1)]]
  BY DEF Unread, Wrap
<1>7. ASSUME NEW i \in 1 .. cur_size'
      PROVE  buffer[Wrap(begin_offset' + i - 1)] = Unread[n + i]
  BY <1>4, <1>5
<1> QED
  BY <1>3, <1>6, <1>7

LEMMA FrontOfUnread ==
    ASSUME Inv, NEW n \in 0 .. cur_size, NEW bytes,
           bytes = [i \in 1 .. n |-> buffer[Wrap(begin_offset + i - 1)]]
    PROVE  bytes = SubSeq(Unread, 1, n)
<1>1. cur_size \in Nat /\ n \in Nat
  BY ChanelAssumption DEF Inv, TypeOK
<1>2. Unread \in Seq(Byte) /\ Len(Unread) = cur_size
  BY UnreadIsBytes DEF StreamOK
<1>3. SubSeq(Unread, 1, n) = [i \in 1 .. n |-> Unread[i]]
  BY <1>1, <1>2
<1> QED
  BY <1>1, <1>3 DEF Unread

LEMMA FetchedAround ==
    ASSUME Inv, NEW n \in 0 .. cur_size, NEW size_1 \in Nat, NEW size_2 \in Nat,
           size_1 = Capacity - begin_offset, n = size_1 + size_2
    PROVE  Fetched(begin_offset, size_1) \o Fetched(0, size_2) = SubSeq(Unread, 1, n)
<1> DEFINE bytes == [i \in 1 .. n |-> buffer[Wrap(begin_offset + i - 1)]]
<1>1. /\ begin_offset \in Nat /\ begin_offset < Capacity /\ Capacity \in Nat
      /\ cur_size \in Nat /\ cur_size <= Capacity /\ n \in Nat /\ size_2 <= Capacity
  BY ChanelAssumption DEF Inv, TypeOK, Cell
<1>2. /\ Fetched(begin_offset, size_1) \in Seq(Byte)
      /\ Len(Fetched(begin_offset, size_1)) = size_1
      /\ Fetched(0, size_2) \in Seq(Byte) /\ Len(Fetched(0, size_2)) = size_2
  <2>1. /\ buffer \in [Cell -> Byte]
        /\ begin_offset + size_1 <= Capacity /\ 0 + size_2 <= Capacity
    BY <1>1 DEF Inv, TypeOK
  <2>2. \A at, m \in Nat : at + m <= Capacity =>
            Fetched(at, m) \in Seq(Byte) /\ Len(Fetched(at, m)) = m
    BY <2>1, FetchedIsBytes
  <2> QED
    BY <1>1, <2>1, <2>2
<1>3. \A i \in 1 .. n : Wrap(begin_offset + i - 1) \in Cell
  <2>1. \A i \in 1 .. cur_size : Wrap(begin_offset + i - 1) \in Cell
    BY UnreadIsBytes DEF StreamOK
  <2>2. \A i \in 1 .. n : i \in 1 .. cur_size
    BY <1>1
  <2> QED
    BY <2>1, <2>2
<1>4. bytes \in Seq(Byte) /\ Len(bytes) = n
  <2>1. bytes \in [1 .. n -> Byte]
    BY <1>3 DEF Inv, TypeOK
  <2> QED
    BY <1>1, <2>1
<1>5. ASSUME NEW i \in 1 .. size_1 PROVE bytes[i] = Fetched(begin_offset, size_1)[i]
  BY <1>1 DEF Fetched, Wrap
<1>6. ASSUME NEW i \in 1 .. size_2 PROVE bytes[size_1 + i] = Fetched(0, size_2)[i]
  <2>1. size_1 + i \in 1 .. n
    OBVIOUS
  <2>2. Wrap(begin_offset + (size_1 + i) - 1) = 0 + i - 1
    BY <1>1 DEF Wrap
  <2> QED
    BY <2>1, <2>2 DEF Fetched
<1>7. bytes = SubSeq(Unread, 1, n)
  BY FrontOfUnread
<1> HIDE DEF bytes
<1>8. bytes = Fetched(begin_offset, size_1) \o Fetched(0, size_2)
  <2> DEFINE s == Fetched(begin_offset, size_1)
             t == Fetched(0, size_2)
  <2>1. /\ s \in Seq(Byte) /\ t \in Seq(Byte) /\ bytes \in Seq(Byte)
        /\ Len(s) = size_1 /\ Len(t) = size_2 /\ Len(bytes) = Len(s) + Len(t)
    BY <1>2, <1>4
  <2>2. \A i \in 1 .. Len(s) : bytes[i] = s[i]
    BY <1>5, <2>1
  <2>3. \A i \in 1 .. Len(t) : bytes[Len(s) + i] = t[i]
    BY <1>6, <2>1
  <2> HIDE DEF s, t
  <2>4. bytes = s \o t
    BY <2>1, <2>2, <2>3, ConcatByParts
  <2> QED
    BY <2>4 DEF s, t
<1> QED
  BY <1>7, <1>8

LEMMA InitStream == Init => Stream!Init
  BY DEF Init, Stream!Init, Unread

LEMMA StepStream ==
    Inv /\ Inv' /\ [Next]_vars => [Stream!SizedNext]_(Stream!vars)
<1> SUFFICES ASSUME Inv, Inv', [Next]_vars PROVE [Stream!SizedNext]_(Stream!vars)
  OBVIOUS
<1> USE ChanelAssumption
<1>0. /\ begin_offset \in Nat /\ begin_offset < Capacity
      /\ end_offset \in Nat /\ end_offset < Capacity
      /\ cur_size \in Nat /\ cur_size <= Capacity
      /\ end_offset = Wrap(begin_offset + cur_size)
  BY DEF Inv, TypeOK, Cell, OffsetsAgree
<1>u. Unread \in Seq(Byte) /\ Len(Unread) = cur_size
  BY UnreadIsBytes DEF StreamOK
<1>s. ASSUME NEW data \in Data, Fits(Len(data)), given' = data, taken' = taken,
             \E stored \in [1 .. Len(data) -> Byte] : Unread' = Unread \o stored
      PROVE  Stream!SizedNext
  <2>1. Len(data) \in Nat
    BY DataIsBytes
  <2>2. Len(Unread) + Len(data) <= Capacity
    BY <1>0, <1>u, <1>s, <2>1 DEF Fits
  <2>3. Stream!WriteSized(data)
    BY <1>s, <2>2 DEF Stream!WriteSized, Stream!Put
  <2> QED
    BY <2>3 DEF Stream!SizedNext, Stream!Data, Data
<1>r. ASSUME NEW max_size \in 0 .. MaxRequest, cur_size # 0, given' = given,
             taken' = SubSeq(Unread, 1, ReadNum(max_size)),
             Unread' = SubSeq(Unread, ReadNum(max_size) + 1, cur_size)
      PROVE  Stream!SizedNext
  <2>1. /\ ReadNum(max_size) \in 0 .. Len(Unread) /\ ReadNum(max_size) <= max_size
        /\ ReadNum(max_size) > 0 \/ max_size = 0
    BY <1>0, <1>u, <1>r DEF ReadNum
  <2>2. Stream!Read(max_size)
    BY <1>u, <1>r, <2>1 DEF Stream!Read
  <2> QED
    BY <2>2 DEF Stream!SizedNext
<1>1. ASSUME NEW data \in Data, WriteContiguous(data) PROVE Stream!SizedNext
  <2>1. Len(data) \in Nat
    BY DataIsBytes
  <2>2. ASSUME NEW i \in 1 .. cur_size
        PROVE  buffer'[Wrap(begin_offset + i - 1)] = buffer[Wrap(begin_offset + i - 1)]
    <3> DEFINE j == Wrap(begin_offset + i - 1)
    <3>1. j \in Cell
      BY UnreadIsBytes DEF StreamOK
    <3>2. ~ (end_offset <= j /\ j < end_offset + Len(data))
      BY <1>0, <1>1, <2>1 DEF WriteContiguous, Fits, Wrap
    <3> QED
      BY <1>1, <3>1, <3>2 DEF WriteContiguous, Copied
  <2>3. \E stored \in [1 .. Len(data) -> Byte] : Unread' = Unread \o stored
    BY <1>1, <2>1, <2>2, UnreadGrows DEF WriteContiguous
  <2> QED
    BY <1>1, <1>s, <2>3 DEF WriteContiguous
<1>2. ASSUME NEW data \in Data, WriteWrapped(data) PROVE Stream!SizedNext
  <2>1. Len(data) \in Nat
    BY DataIsBytes
  <2>2. ASSUME NEW i \in 1 .. cur_size
        PROVE  buffer'[Wrap(begin_offset + i - 1)] = buffer[Wrap(begin_offset + i - 1)]
    <3> DEFINE j == Wrap(begin_offset + i - 1)
    <3>1. j \in Cell
      BY UnreadIsBytes DEF StreamOK
    <3>2. /\ ~ (end_offset <= j)
          /\ ~ (0 <= j /\ j < 0 + (Len(data) - (Capacity - end_offset)))
      BY <1>0, <1>2, <2>1 DEF WriteWrapped, Fits, Wrap
    <3> QED
      BY <1>2, <3>1, <3>2 DEF WriteWrapped, Copied
  <2>3. \E stored \in [1 .. Len(data) -> Byte] : Unread' = Unread \o stored
    BY <1>2, <2>1, <2>2, UnreadGrows DEF WriteWrapped
  <2> QED
    BY <1>2, <1>s, <2>3 DEF WriteWrapped
<1>3. ASSUME NEW max_size \in 0 .. MaxRequest, ReadContiguous(max_size)
      PROVE  Stream!SizedNext
  <2>1. /\ ReadNum(max_size) \in 0 .. cur_size
        /\ begin_offset + ReadNum(max_size) <= Capacity
    BY <1>0, <1>3 DEF ReadContiguous, ReadNum
  <2>2. begin_offset' = Wrap(begin_offset + ReadNum(max_size))
    BY <1>0, <1>3, <2>1 DEF ReadContiguous, Advanced, Wrap
  <2>3. Unread' = SubSeq(Unread, ReadNum(max_size) + 1, cur_size)
    BY <1>3, <2>1, <2>2, UnreadShrinks DEF ReadContiguous
  <2>4. \A i \in 1 .. ReadNum(max_size) : Wrap(begin_offset + i - 1) = begin_offset + i - 1
    BY <1>0, <2>1 DEF Wrap
  <2>5. taken' = [i \in 1 .. ReadNum(max_size) |-> buffer[Wrap(begin_offset + i - 1)]]
    BY <1>3, <2>4 DEF ReadContiguous, Fetched
  <2>6. taken' = SubSeq(Unread, 1, ReadNum(max_size))
    BY <2>1, <2>5, FrontOfUnread
  <2> QED
    BY <1>3, <1>r, <2>3, <2>6 DEF ReadContiguous
<1>4. ASSUME NEW max_size \in 0 .. MaxRequest, ReadWrapped(max_size)
      PROVE  Stream!SizedNext
  <2> DEFINE n == ReadNum(max_size)
             size_1 == Capacity - begin_offset
             size_2 == n - size_1
  <2>1. /\ n \in 0 .. cur_size /\ size_1 \in Nat /\ size_2 \in Nat
        /\ n = size_1 + size_2
    BY <1>0, <1>4 DEF ReadWrapped, ReadNum
  <2>2. begin_offset' = Wrap(begin_offset + n)
    <3>1. begin_offset' = size_2
      BY <1>4 DEF ReadWrapped
    <3>2. begin_offset + n = Capacity + size_2
      BY <1>0, <2>1
    <3> QED
      BY <1>0, <2>1, <3>1, <3>2 DEF Wrap
  <2>3. Unread' = SubSeq(Unread, n + 1, cur_size)
    BY <1>4, <2>1, <2>2, UnreadShrinks DEF ReadWrapped
  <2>4. taken' = Fetched(begin_offset, size_1) \o Fetched(0, size_2)
    BY <1>4 DEF ReadWrapped
  <2>5. taken' = SubSeq(Unread, 1, n)
    BY <2>1, <2>4, FetchedAround
  <2> QED
    BY <1>4, <1>r, <2>3, <2>5 DEF ReadWrapped
<1>5. CASE UNCHANGED vars
  BY <1>5 DEF vars, Stream!vars, Unread, Wrap
<1> QED
  BY <1>1, <1>2, <1>3, <1>4, <1>5 DEF Next, WriteRefused, ReadRefused

(* For every capacity, alphabet and request size, the ring buffer keeps    *)
(* the unread bytes as they are and in their order, whatever the wraps, and*)
(* a write of n bytes adds n: it implements ByteStream with sized writes   *)
(* (engine.cpp:137-181).                                                   *)
THEOREM UnreadIsKeptTheorem == Spec => UnreadIsKept
<1>1. Spec => []Inv
  BY InitInv, NextInv, PTL DEF Spec
<1> QED
  BY <1>1, InitStream, StepStream, PTL DEF Spec, UnreadIsKept, Stream!SizedSpec
=============================================================================
