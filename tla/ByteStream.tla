----------------------------- MODULE ByteStream -----------------------------
(***************************************************************************)
(* What a channel promises, without a ring buffer: a bounded stream of     *)
(* bytes.  A write appends to the stream, a read takes a part of its front.*)
(*                                                                         *)
(* Spec is the whole promise.  SizedSpec is weaker: a write appends as     *)
(* many bytes as it was given, whatever they are, but a byte once in the   *)
(* stream stays there, unchanged and in its place, until a read hands it   *)
(* out.                                                                    *)
(***************************************************************************)
EXTENDS Naturals, Sequences

CONSTANTS Byte,        \* the bytes clients send
          Capacity,    \* how many unread bytes a channel holds at most
          MaxRequest   \* the longest write or read a client asks for

VARIABLES stream,      \* the unread bytes, oldest first
          given,       \* the data of the last successful write
          taken        \* what the last successful read returned

vars == <<stream, given, taken>>

Data == UNION {[1 .. size -> Byte] : size \in 0 .. MaxRequest}

Init == stream = <<>> /\ given = <<>> /\ taken = <<>>

(* The client gives data, and stored is appended to the stream. *)
Put(data, stored) ==
    /\ Len(stream) + Len(data) <= Capacity
    /\ given' = data
    /\ stream' = stream \o stored
    /\ UNCHANGED taken

Write(data) == Put(data, data)

WriteSized(data) == \E stored \in [1 .. Len(data) -> Byte] : Put(data, stored)

(* A read may return less than it was asked for, but never nothing when it *)
(* was asked for something.                                                *)
Read(max_size) ==
    \E n \in 0 .. Len(stream) :
        /\ n <= max_size
        /\ n > 0 \/ max_size = 0
        /\ taken' = SubSeq(stream, 1, n)
        /\ stream' = SubSeq(stream, n + 1, Len(stream))
        /\ UNCHANGED given

Next == \/ \E data \in Data : Write(data)
        \/ \E max_size \in 0 .. MaxRequest : Read(max_size)

SizedNext == \/ \E data \in Data : WriteSized(data)
             \/ \E max_size \in 0 .. MaxRequest : Read(max_size)

Spec == Init /\ [][Next]_vars

SizedSpec == Init /\ [][SizedNext]_vars
=============================================================================
