------------------------------- MODULE Chanel -------------------------------
(***************************************************************************)
(* Engine::Chanel of 06-chanels: the ring buffer behind one channel        *)
(* descriptor.  begin_offset is where the next read starts, end_offset     *)
(* where the next write starts, cur_size how many bytes are unread.        *)
(*                                                                         *)
(* A write is all or nothing; a read returns what there is, up to what it  *)
(* was asked for.  Both have a contiguous case and a case that wraps       *)
(* around the end of the buffer, each an action here.  given and taken are *)
(* the client's side of the calls: the data passed to the last successful  *)
(* write, and the bytes the last successful read copied out.               *)
(***************************************************************************)
EXTENDS Naturals, Sequences

CONSTANTS Byte, Capacity, MaxRequest

ASSUME ChanelAssumption ==
    /\ Capacity \in Nat \ {0}
    /\ MaxRequest \in Nat
    /\ Byte # {}

VARIABLES buffer, begin_offset, end_offset, cur_size, given, taken

vars == <<buffer, begin_offset, end_offset, cur_size, given, taken>>

Cell == 0 .. Capacity - 1

Data == UNION {[1 .. size -> Byte] : size \in 0 .. MaxRequest}

(* new char[capacity] leaves the buffer with arbitrary contents. *)
Init ==
    /\ buffer \in [Cell -> Byte]
    /\ begin_offset = 0 /\ end_offset = 0 /\ cur_size = 0
    /\ given = <<>> /\ taken = <<>>

(***************************************************************************)
(* memcpy(buffer + at, data, n): n bytes of data, from its first one, into *)
(* the cells from at on.                                                   *)
(***************************************************************************)
Copied(buf, at, data, n) ==
    [i \in Cell |-> IF at <= i /\ i < at + n THEN data[i - at + 1] ELSE buf[i]]

(* memcpy(data, buffer + at, n): the bytes of n cells from at on. *)
Fetched(at, n) == [i \in 1 .. n |-> buffer[at + i - 1]]

-----------------------------------------------------------------------------

(* Mutant: off by one. *)
FitsOneMore(size) == size <= Capacity - cur_size + 1

Fits(size) == size <= Capacity - cur_size

(* Mutant: the offset is not reset at the end of the buffer. *)
AdvancedPastEnd(offset, n) == offset + n

Advanced(offset, n) == IF offset + n = Capacity THEN 0 ELSE offset + n

(* The write ends at or before the end of the buffer. *)
WriteContiguous(data) ==
    /\ Fits(Len(data))
    /\ Len(data) <= Capacity - end_offset
    /\ buffer' = Copied(buffer, end_offset, data, Len(data))
    /\ end_offset' = Advanced(end_offset, Len(data))
    /\ cur_size' = cur_size + Len(data)
    /\ given' = data
    /\ UNCHANGED <<begin_offset, taken>>

(* The write goes on at the start of the buffer.  The second memcpy takes  *)
(* its bytes from the start of data again, not from data + to_end_size.    *)
WriteWrapped(data) ==
    LET to_end_size == Capacity - end_offset
        from_start_size == Len(data) - to_end_size
    IN  /\ Fits(Len(data))
        /\ Len(data) > to_end_size
        /\ buffer' = Copied(Copied(buffer, end_offset, data, to_end_size),
                            0, data, from_start_size)
        /\ end_offset' = from_start_size
        /\ cur_size' = cur_size + Len(data)
        /\ given' = data
        /\ UNCHANGED <<begin_offset, taken>>

(* return -1: not enough room for all of data. *)
WriteRefused(data) == ~ Fits(Len(data)) /\ UNCHANGED vars

(* Mutant: std::min is forgotten. *)
ReadNumAsked(max_size) == max_size

ReadNum(max_size) == IF max_size <= cur_size THEN max_size ELSE cur_size

ReadContiguous(max_size) ==
    LET read_num == ReadNum(max_size)
    IN  /\ cur_size # 0
        /\ read_num <= Capacity - begin_offset
        /\ taken' = Fetched(begin_offset, read_num)
        /\ begin_offset' = Advanced(begin_offset, read_num)
        /\ cur_size' = cur_size - read_num
        /\ UNCHANGED <<buffer, end_offset, given>>

ReadWrapped(max_size) ==
    LET read_num == ReadNum(max_size)
        size_1 == Capacity - begin_offset
        size_2 == read_num - size_1
    IN  /\ cur_size # 0
        /\ read_num > size_1
        /\ taken' = Fetched(begin_offset, size_1) \o Fetched(0, size_2)
        /\ begin_offset' = size_2
        /\ cur_size' = cur_size - read_num
        /\ UNCHANGED <<buffer, end_offset, given>>

(* return -1: nothing to read. *)
ReadRefused == cur_size = 0 /\ UNCHANGED vars

Next ==
    \/ \E data \in Data : WriteContiguous(data) \/ WriteWrapped(data) \/ WriteRefused(data)
    \/ \E max_size \in 0 .. MaxRequest : ReadContiguous(max_size) \/ ReadWrapped(max_size)
    \/ ReadRefused

Spec == Init /\ [][Next]_vars

-----------------------------------------------------------------------------

TypeOK ==
    /\ buffer \in [Cell -> Byte]
    /\ begin_offset \in Cell
    /\ end_offset \in Cell
    /\ cur_size \in 0 .. Capacity
    /\ given \in Seq(Byte)
    /\ taken \in Seq(Byte)

(* The cell n places after the start of the buffer, for n < 2 * Capacity. *)
Wrap(n) == IF n < Capacity THEN n ELSE n - Capacity

(* The three counters, which the code updates separately, agree: the       *)
(* unread bytes are exactly the cells from begin_offset up to end_offset,  *)
(* around the end.  An empty and a full channel both have equal offsets;   *)
(* only cur_size tells them apart (engine.cpp:137-181).                    *)
OffsetsAgree == end_offset = Wrap(begin_offset + cur_size)

(* The unread bytes in the order the reader will get them. *)
Unread == [i \in 1 .. cur_size |-> buffer[Wrap(begin_offset + i - 1)]]

Stream == INSTANCE ByteStream WITH stream <- Unread

(* The bytes a reader gets are the bytes the writers sent, in order: what  *)
(* write and read promise together (engine.cpp:137-181).                   *)
Fifo == Stream!Spec

(* No write touches an unread byte, no read skips, repeats or reorders     *)
(* one, and a write of n bytes makes exactly n more readable, through any  *)
(* number of wrap-arounds (engine.cpp:137-181).                            *)
UnreadIsKept == Stream!SizedSpec
=============================================================================
