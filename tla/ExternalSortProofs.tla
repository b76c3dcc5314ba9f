------------------------- MODULE ExternalSortProofs -------------------------
(***************************************************************************)
(* Proofs about the external sort, for any buffer, blocks, limit of files, *)
(* numbers and length of the input.                                        *)
(***************************************************************************)
EXTENDS ExternalSort, InductionLemmas, FiniteSetTheorems

(***************************************************************************)
(* The inductive invariant.  To the properties of ExternalSort it adds     *)
(* that a file has a candidate until it has ended, that nothing is left of *)
(* one that has, and that the files being merged are among the round's.    *)
(***************************************************************************)
Readable(file) ==
    /\ file \in InputFile /\ Len(file.buf) <= B
    /\ file.is_ended => file.buf = <<>> /\ file.disk = <<>>
    /\ ~ file.is_ended => file.candidate # <<>>

InputsAreReadable == \A i \in DOMAIN inputs : Readable(inputs[i])

MergeIsAt ==
    /\ phase # "merge" => inputs = <<>>
    /\ cur_files_pos + Len(inputs) <= Len(sort_files)
    /\ Len(inputs) <= file_limit
    /\ Len(out_file.buf) <= B

Inv ==
    /\ TypeOK
    /\ InputsAreReadable
    /\ MergeIsAt
    /\ FilesAreSorted

-----------------------------------------------------------------------------
(* Ascending sequences *)

LEMMA Joined == \A s, t \in Seq(INT) : s \o t \in Seq(INT)
  BY ConcatProperties

LEMMA Regrouped == \A s, t, u \in Seq(INT) : (s \o t) \o u = s \o (t \o u)
  BY ConcatAssociative

LEMMA AscendingParts ==
    ASSUME NEW s \in Seq(INT), NEW t \in Seq(INT), Ascending(s \o t)
    PROVE  Ascending(s) /\ Ascending(t)
<1> DEFINE u == s \o t
<1>1. /\ Len(u) = Len(s) + Len(t) /\ Len(s) \in Nat /\ Len(t) \in Nat
      /\ \A i \in 1 .. Len(s) + Len(t) : u[i] = IF i <= Len(s) THEN s[i] ELSE t[i - Len(s)]
  BY ConcatProperties
<1>2. \A i \in 1 .. Len(u) - 1 : u[i] <= u[i + 1]
  BY DEF Ascending
<1> HIDE DEF u
<1>3. ASSUME NEW i \in 1 .. Len(s) - 1 PROVE s[i] <= s[i + 1]
  <2>1. i \in 1 .. Len(u) - 1 /\ u[i] = s[i] /\ u[i + 1] = s[i + 1]
    BY <1>1
  <2> QED
    BY <1>2, <2>1
<1>4. ASSUME NEW i \in 1 .. Len(t) - 1 PROVE t[i] <= t[i + 1]
  <2>1. i + Len(s) \in 1 .. Len(u) - 1 /\ (i + Len(s)) + 1 = (i + 1) + Len(s)
    BY <1>1
  <2>2. u[i + Len(s)] = t[i] /\ u[(i + 1) + Len(s)] = t[i + 1]
    BY <1>1, SMTT(30)
  <2>3. u[i + Len(s)] <= u[(i + Len(s)) + 1]
    BY <1>2, <2>1
  <2> QED
    BY <2>1, <2>2, <2>3
<1> QED
  BY <1>3, <1>4 DEF Ascending

LEMMA AppendedBehind ==
    ASSUME NEW s \in Seq(INT), NEW t \in Seq(INT), NEW c \in INT
    PROVE  s \o (t \o <<c>>) = (s \o t) \o <<c>>
<1>1. <<c>> \in Seq(INT)
  OBVIOUS
<1> QED
  BY <1>1, Regrouped, Zenon

(* Where two ascending sequences share a number they can be joined. *)
LEMMA AscendingAt ==
    ASSUME NEW s \in Seq(INT), NEW t \in Seq(INT), NEW c \in INT,
           Ascending(s \o <<c>>), Ascending(t), t # <<>> => c <= t[1]
    PROVE  Ascending((s \o <<c>>) \o t)
<1> DEFINE h == s \o <<c>>
           u == h \o t
<1>1. <<c>> \in Seq(INT) /\ Len(<<c>>) = 1 /\ <<c>>[1] = c
  OBVIOUS
<1>2. /\ h \in Seq(INT) /\ Len(h) = Len(s) + 1 /\ Len(s) \in Nat /\ Len(t) \in Nat
      /\ h[Len(h)] = c
  <2>1. /\ h \in Seq(INT) /\ Len(h) = Len(s) + Len(<<c>>)
        /\ \A i \in 1 .. Len(s) + Len(<<c>>) :
               h[i] = IF i <= Len(s) THEN s[i] ELSE <<c>>[i - Len(s)]
    BY <1>1, ConcatProperties
  <2>2. Len(h) \in 1 .. Len(s) + Len(<<c>>) /\ ~ (Len(h) <= Len(s)) /\ Len(h) - Len(s) = 1
    BY <1>1, <2>1
  <2> QED
    BY <1>1, <2>1, <2>2
<1> HIDE DEF h
<1>3. /\ u \in Seq(INT) /\ Len(u) = Len(h) + Len(t)
      /\ \A i \in 1 .. Len(h) + Len(t) : u[i] = IF i <= Len(h) THEN h[i] ELSE t[i - Len(h)]
  BY <1>2, ConcatProperties
<1> HIDE DEF u
<1>4. \A i \in 1 .. Len(h) - 1 : h[i] <= h[i + 1]
  BY DEF Ascending, h
<1>5. \A i \in 1 .. Len(t) - 1 : t[i] <= t[i + 1]
  BY DEF Ascending
<1>6. ASSUME NEW i \in 1 .. Len(u) - 1 PROVE u[i] <= u[i + 1]
  <2>1. CASE i < Len(h)
    <3>1. u[i] = h[i] /\ u[i + 1] = h[i + 1] /\ i \in 1 .. Len(h) - 1
      BY <1>2, <1>3, <2>1
    <3> QED
      BY <1>4, <3>1
  <2>2. CASE i = Len(h)
    <3>1. u[i] = h[i] /\ u[i + 1] = t[1] /\ t # <<>>
      BY <1>2, <1>3, <2>2
    <3> QED
      BY <1>2, <2>2, <3>1
  <2>3. CASE i > Len(h)
    <3>1. u[i] = t[i - Len(h)] /\ u[i + 1] = t[(i + 1) - Len(h)]
      BY <1>2, <1>3, <2>3
    <3>2. i - Len(h) \in 1 .. Len(t) - 1 /\ (i + 1) - Len(h) = (i - Len(h)) + 1
      BY <1>2, <1>3, <2>3
    <3> QED
      BY <1>5, <3>1, <3>2
  <2> QED
    BY <1>2, <1>3, <2>1, <2>2, <2>3
<1>7. Ascending(u)
  BY <1>6 DEF Ascending
<1> QED
  BY <1>7 DEF u, h

-----------------------------------------------------------------------------
(* TempFile *)

LEMMA HeadAndTail ==
    ASSUME NEW s \in Seq(INT), s # <<>>
    PROVE  Head(s) \in INT /\ Tail(s) \in Seq(INT) /\ <<Head(s)>> \o Tail(s) = s
           /\ Len(Tail(s)) = Len(s) - 1
<1>1. Len(s) \in Nat /\ Len(s) >= 1 /\ s[1] = Head(s)
  OBVIOUS
<1>2. SubSeq(s, 1, Len(s)) = <<s[1]>> \o SubSeq(s, 2, Len(s))
  BY <1>1, SubSeqRecursiveFirst
<1> QED
  BY <1>1, <1>2, SubSeqFull, TailIsSubSeq, HeadTailProperties

(* A block more of the file is in the buffer, and nothing else moved. *)
LEMMA BlockIsRead ==
    ASSUME NEW disk \in Seq(INT), B \in Nat
    PROVE  LET size == Smaller(B, Len(disk))
               block == SubSeq(disk, 1, size)
               left == SubSeq(disk, size + 1, Len(disk))
           IN  /\ block \in Seq(INT) /\ left \in Seq(INT)
               /\ block \o left = disk
               /\ Len(block) = size
<1> DEFINE size == Smaller(B, Len(disk))
<1>1. Len(disk) \in Nat /\ size \in 0 .. Len(disk) /\ \A i \in 1 .. Len(disk) : disk[i] \in INT
  BY DEF Smaller
<1> HIDE DEF size
<1>2. SubSeq(disk, 1, size) \in Seq(INT) /\ Len(SubSeq(disk, 1, size)) = size
  BY <1>1, SubSeqProperties
<1>3. SubSeq(disk, size + 1, Len(disk)) \in Seq(INT)
  <2>1. \A i \in size + 1 .. Len(disk) : disk[i] \in INT
    BY <1>1
  <2> QED
    BY <1>1, <2>1, SubSeqProperties
<1>4. SubSeq(disk, 1, size) \o SubSeq(disk, size + 1, Len(disk)) = disk
  <2>1. size \in 1 - 1 .. Len(disk) /\ Len(disk) \in size .. Len(disk) /\ 1 \in 1 .. Len(disk) + 1
    BY <1>1
  <2> QED
    BY <2>1, ConcatAdjacentSubSeq, SubSeqFull
<1> QED
  BY <1>2, <1>3, <1>4 DEF size

(* readNum takes the first number that is left, wherever it is. *)
LEMMA NumIsRead ==
    ASSUME NEW file \in InputFile, ~ file.is_ended, Len(file.buf) <= B
    PROVE  /\ Readable(ReadNum(file))
           /\ Unread(ReadNum(file)) = file.buf \o file.disk
<1> DEFINE size == Smaller(B, Len(file.disk))
           filled == IF file.buf # <<>> THEN file
                     ELSE [file EXCEPT !.buf = SubSeq(file.disk, 1, size),
                                       !.disk = SubSeq(@, size + 1, Len(@))]
<1>1. file.disk \in Seq(INT) /\ file.buf \in Seq(INT) /\ B \in Nat \ {0}
  BY ExternalSortAssumption DEF InputFile
<1>2. /\ filled \in InputFile /\ ~ filled.is_ended /\ Len(filled.buf) <= B
      /\ filled.buf \o filled.disk = file.buf \o file.disk
      /\ filled.buf = <<>> => filled.disk = <<>>
  <2>1. CASE file.buf # <<>>
    BY <2>1
  <2>2. CASE file.buf = <<>>
    <3> DEFINE block == SubSeq(file.disk, 1, size)
               left == SubSeq(file.disk, size + 1, Len(file.disk))
    <3>1. /\ block \in Seq(INT) /\ left \in Seq(INT) /\ block \o left = file.disk
          /\ Len(block) = size
      BY <1>1, BlockIsRead
    <3>2. size <= B /\ (size = 0 => Len(file.disk) = 0) /\ size \in Nat
      BY <1>1 DEF Smaller
    <3>3. filled.buf = block /\ filled.disk = left /\ filled.is_ended = file.is_ended
          /\ filled \in InputFile
      BY <2>2, <3>1 DEF InputFile
    <3>4. file.buf \o file.disk = file.disk
      BY <1>1, <2>2, ConcatEmptySeq
    <3>5. block = <<>> => left = <<>>
      <4>1. SUFFICES ASSUME block = <<>> PROVE left = <<>>
        OBVIOUS
      <4>2. size = 0 /\ Len(file.disk) = 0
        BY <3>1, <3>2, <4>1
      <4>3. block \o left = left
        BY <3>1, <4>1, ConcatEmptySeq
      <4>4. file.disk = <<>>
        BY <1>1, <4>2, EmptySeq
      <4> QED
        BY <3>1, <4>3, <4>4
    <3> HIDE DEF block, left, filled, size
    <3> QED
      BY <3>1, <3>2, <3>3, <3>4, <3>5
  <2> QED
    BY <2>1, <2>2
<1>3. ReadNum(file) = IF filled.buf = <<>> THEN [filled EXCEPT !.is_ended = TRUE]
                      ELSE [filled EXCEPT !.candidate = <<Head(filled.buf)>>, !.buf = Tail(@)]
  BY DEF ReadNum
<1> HIDE DEF filled, size
<1>4. filled.buf \in Seq(INT) /\ filled.disk \in Seq(INT)
  BY <1>2 DEF InputFile
<1>5. CASE filled.buf = <<>>
  <2>1. /\ ReadNum(file) \in InputFile /\ ReadNum(file).is_ended
        /\ ReadNum(file).buf = <<>> /\ ReadNum(file).disk = <<>>
    BY <1>2, <1>3, <1>5 DEF InputFile
  <2>2. Unread(ReadNum(file)) = <<>> /\ file.buf \o file.disk = <<>>
    <3>1. (<<>> \o <<>>) \o <<>> = <<>> /\ <<>> \o <<>> = <<>>
      OBVIOUS
    <3>2. file.buf \o file.disk = <<>>
      BY <1>2, <1>5, <3>1
    <3>3. Unread(ReadNum(file)) = (<<>> \o <<>>) \o <<>>
      BY <2>1 DEF Unread
    <3> QED
      BY <3>1, <3>2, <3>3
  <2> QED
    BY <1>1, <2>1, <2>2 DEF Readable
<1>6. CASE filled.buf # <<>>
  <2>1. /\ Head(filled.buf) \in INT /\ Tail(filled.buf) \in Seq(INT)
        /\ <<Head(filled.buf)>> \o Tail(filled.buf) = filled.buf
        /\ Len(Tail(filled.buf)) = Len(filled.buf) - 1
    BY <1>4, <1>6, HeadAndTail
  <2>2. /\ ReadNum(file) \in InputFile /\ ~ ReadNum(file).is_ended
        /\ ReadNum(file).buf = Tail(filled.buf) /\ ReadNum(file).disk = filled.disk
        /\ ReadNum(file).candidate = <<Head(filled.buf)>>
    BY <1>2, <1>3, <1>6, <2>1 DEF InputFile
  <2>3. Len(Tail(filled.buf)) <= B
    BY <1>1, <1>2, <1>4, <2>1
  <2>4. Unread(ReadNum(file)) = filled.buf \o filled.disk
    BY <2>1, <2>2 DEF Unread
  <2> QED
    BY <1>2, <2>2, <2>3, <2>4 DEF Readable
<1> QED
  BY <1>5, <1>6

(* writeNum puts a number behind what has been written, flushed or not. *)
LEMMA NumIsWritten ==
    ASSUME NEW file \in [disk : Seq(INT), buf : Seq(INT)], Len(file.buf) <= B, NEW c \in INT
    PROVE  /\ WriteNum(file, c) \in [disk : Seq(INT), buf : Seq(INT)]
           /\ Len(WriteNum(file, c).buf) <= B
           /\ WriteNum(file, c).disk \o WriteNum(file, c).buf = (file.disk \o file.buf) \o <<c>>
<1> DEFINE room == IF Len(file.buf) = B THEN Flushed(file) ELSE file
<1>1. file.disk \in Seq(INT) /\ file.buf \in Seq(INT) /\ B \in Nat \ {0} /\ <<c>> \in Seq(INT)
  BY ExternalSortAssumption
<1>2. /\ room \in [disk : Seq(INT), buf : Seq(INT)] /\ Len(room.buf) < B
      /\ room.disk \o room.buf = file.disk \o file.buf
  <2>1. CASE Len(file.buf) = B
    <3>1. file.disk \o file.buf \in Seq(INT)
      BY <1>1, ConcatProperties
    <3>2. room.disk = file.disk \o file.buf /\ room.buf = <<>>
          /\ room \in [disk : Seq(INT), buf : Seq(INT)]
      BY <2>1, <3>1 DEF Flushed
    <3>3. (file.disk \o file.buf) \o <<>> = file.disk \o file.buf
      BY <3>1, ConcatEmptySeq
    <3> HIDE DEF room
    <3> QED
      BY <1>1, <3>2, <3>3
  <2>2. CASE Len(file.buf) # B
    <3>1. room = file /\ Len(file.buf) \in Nat
      BY <1>1, <2>2
    <3> HIDE DEF room
    <3> QED
      BY <1>1, <2>2, <3>1
  <2> QED
    BY <2>1, <2>2
<1>3. WriteNum(file, c) = [room EXCEPT !.buf = Append(@, c)]
  BY DEF WriteNum
<1> HIDE DEF room
<1>4. room.buf \in Seq(INT) /\ room.disk \in Seq(INT)
  BY <1>2
<1>5. Append(room.buf, c) \in Seq(INT) /\ Len(Append(room.buf, c)) = Len(room.buf) + 1
  BY <1>4, AppendProperties
<1>6. Append(room.buf, c) = room.buf \o <<c>>
  BY <1>4, AppendIsConcat
<1>7. room.disk \o (room.buf \o <<c>>) = (room.disk \o room.buf) \o <<c>>
  BY <1>4, AppendedBehind, Zenon
<1>8. WriteNum(file, c).disk = room.disk /\ WriteNum(file, c).buf = Append(room.buf, c)
      /\ WriteNum(file, c) \in [disk : Seq(INT), buf : Seq(INT)]
  BY <1>2, <1>3, <1>5
<1>9. Len(room.buf) + 1 <= B
  BY <1>1, <1>2, <1>4
<1> QED
  BY <1>2, <1>5, <1>6, <1>7, <1>8, <1>9

(* What is left of a file is its candidate, its buffer and the disk. *)
LEMMA WhatIsUnread ==
    ASSUME NEW file \in InputFile, Readable(file)
    PROVE  /\ Unread(file) \in Seq(INT)
           /\ file.is_ended => Unread(file) = <<>>
           /\ ~ file.is_ended =>
                  /\ file.candidate[1] \in INT /\ file.candidate = <<file.candidate[1]>>
                  /\ file.buf \o file.disk \in Seq(INT)
                  /\ Unread(file) = <<file.candidate[1]>> \o (file.buf \o file.disk)
                  /\ Unread(file)[1] = file.candidate[1]
<1>1. file.buf \in Seq(INT) /\ file.disk \in Seq(INT)
  BY DEF InputFile
<1>2. CASE file.is_ended
  <2>1. Unread(file) = (<<>> \o <<>>) \o <<>>
    BY <1>2 DEF Unread, Readable
  <2>2. (<<>> \o <<>>) \o <<>> = <<>> /\ <<>> \in Seq(INT)
    OBVIOUS
  <2> QED
    BY <1>2, <2>1, <2>2
<1>3. CASE ~ file.is_ended
  <2> DEFINE c == file.candidate[1]
             rest == file.buf \o file.disk
  <2>1. c \in INT /\ file.candidate = <<c>> /\ <<c>> \in Seq(INT)
    BY <1>3 DEF Readable, InputFile
  <2>2. rest \in Seq(INT)
    BY <1>1, ConcatProperties
  <2>3. Unread(file) = (<<c>> \o file.buf) \o file.disk
    BY <1>3, <2>1 DEF Unread
  <2>4. Unread(file) = <<c>> \o rest
    BY <1>1, <2>1, <2>3, Regrouped, Zenon
  <2> HIDE DEF c, rest
  <2>5. /\ <<c>> \o rest \in Seq(INT)
        /\ Len(<<c>>) = 1 /\ <<c>>[1] = c /\ Len(rest) \in Nat
        /\ \A i \in 1 .. Len(<<c>>) + Len(rest) :
               (<<c>> \o rest)[i] = IF i <= Len(<<c>>) THEN <<c>>[i] ELSE rest[i - Len(<<c>>)]
    BY <2>1, <2>2, ConcatProperties
  <2>6. (<<c>> \o rest)[1] = c
    <3>1. 1 \in 1 .. Len(<<c>>) + Len(rest) /\ 1 <= Len(<<c>>)
      BY <2>5
    <3> QED
      BY <2>5, <3>1
  <2> QED
    BY <1>3, <2>1, <2>2, <2>4, <2>5, <2>6 DEF c, rest
<1> QED
  BY <1>2, <1>3

-----------------------------------------------------------------------------
(* The invariant *)

LEMMA FileLimitIsNat == file_limit \in Nat
<1>1. S \div B \in Int /\ S \div B >= 3
  BY ExternalSortAssumption
<1> QED
  BY <1>1, ExternalSortAssumption DEF file_limit, Smaller

LEMMA InitInv == Init => Inv
<1> SUFFICES ASSUME Init PROVE Inv
  OBVIOUS
<1> USE DEF Init, Written
<1>1. TypeOK
  <2>1. Len(sort_files) = 0 /\ <<>> \in Seq(INT) /\ 0 \in 0 .. 0
    OBVIOUS
  <2>2. sort_files \in Seq(Seq(INT)) /\ out_files \in Seq(Seq(INT)) /\ inputs \in Seq(InputFile)
    OBVIOUS
  <2>3. out_file \in [disk : Seq(INT), buf : Seq(INT)] /\ input \in [INT -> Nat]
    BY <2>1
  <2> QED
    BY <2>1, <2>2, <2>3 DEF TypeOK
<1>2. 0 <= file_limit /\ 0 <= B
  BY FileLimitIsNat, ExternalSortAssumption
<1>3. InputsAreReadable /\ FilesAreSorted
  BY DEF InputsAreReadable, FilesAreSorted
<1>4. MergeIsAt
  BY <1>2 DEF MergeIsAt
<1> QED
  BY <1>1, <1>3, <1>4 DEF Inv

LEMMA OneFileMore ==
    ASSUME NEW s \in Seq(Seq(INT)), NEW e \in Seq(INT), NEW t, t = Append(s, e)
    PROVE  /\ t \in Seq(Seq(INT)) /\ Len(t) = Len(s) + 1 /\ Len(s) \in Nat
           /\ \A i \in 1 .. Len(s) : t[i] = s[i]
           /\ t[Len(s) + 1] = e
<1> DEFINE T == Seq(INT)
<1>1. s \in Seq(T) /\ e \in T
  OBVIOUS
<1> HIDE DEF T
<1>2. /\ t \in Seq(T) /\ Len(t) = Len(s) + 1 /\ Len(s) \in Nat
      /\ \A i \in 1 .. Len(s) : t[i] = s[i]
      /\ t[Len(s) + 1] = e
  BY <1>1, AppendProperties
<1> QED
  BY <1>2 DEF T

LEMMA CountIsNat ==
    ASSUME NEW size \in Nat, NEW s \in [1 .. size -> INT], NEW n
    PROVE  Count(s, n) \in Nat
<1> DEFINE at == {i \in DOMAIN s : s[i] = n}
<1>1. IsFiniteSet(1 .. size) /\ at \subseteq 1 .. size
  BY FS_Interval
<1>2. IsFiniteSet(at)
  BY <1>1, FS_Subset
<1> QED
  BY <1>2, FS_CardinalityType DEF Count

(* split sorts what it writes, and the merge has not begun. *)
LEMMA SplitInv == Inv /\ Split => Inv'
<1> SUFFICES ASSUME Inv, Split PROVE Inv'
  OBVIOUS
<1>1. PICK size \in 1 .. S : \E buffer, sorted \in [1 .. size -> INT] :
          /\ Sorts(sorted, buffer)
          /\ sort_files' = Append(sort_files, sorted)
          /\ input' = [n \in INT |-> input[n] + Count(buffer, n)]
          /\ at_end' = (size < S)
  BY DEF Split
<1>2. PICK buffer \in [1 .. size -> INT], sorted \in [1 .. size -> INT] :
          /\ Sorts(sorted, buffer)
          /\ sort_files' = Append(sort_files, sorted)
          /\ input' = [n \in INT |-> input[n] + Count(buffer, n)]
          /\ at_end' = (size < S)
  BY <1>1
<1>3. /\ phase = "split" /\ inputs = <<>>
      /\ UNCHANGED <<phase, out_files, cur_files_pos, inputs, out_file>>
  BY DEF Split, Inv, MergeIsAt
<1>4. size \in Nat /\ sorted \in Seq(INT) /\ Ascending(sorted)
  BY <1>1, <1>2, ExternalSortAssumption DEF Sorts
<1>5. /\ sort_files' \in Seq(Seq(INT)) /\ Len(sort_files') = Len(sort_files) + 1
      /\ \A i \in 1 .. Len(sort_files) : sort_files'[i] = sort_files[i]
      /\ sort_files'[Len(sort_files) + 1] = sorted
      /\ Len(sort_files) \in Nat
  <2>1. sort_files \in Seq(Seq(INT)) /\ sort_files' = Append(sort_files, sorted)
    BY <1>2 DEF Inv, TypeOK
  <2> QED
    BY <1>4, <2>1, OneFileMore
<1>6. TypeOK'
  <2>1. input' \in [INT -> Nat]
    <3>1. \A n \in INT : Count(buffer, n) \in Nat
      BY <1>4, CountIsNat, Zenon
    <3>2. \A n \in INT : input[n] \in Nat
      BY DEF Inv, TypeOK
    <3>3. \A n \in INT : input[n] + Count(buffer, n) \in Nat
      BY <3>1, <3>2
    <3> QED
      BY <1>2, <3>3
  <2>2. cur_files_pos' \in 0 .. Len(sort_files')
    BY <1>3, <1>5 DEF Inv, TypeOK
  <2>3. at_end' \in BOOLEAN
    BY <1>2
  <2> QED
    BY <1>3, <1>5, <2>1, <2>2, <2>3 DEF Inv, TypeOK
<1>7. InputsAreReadable'
  BY <1>3 DEF InputsAreReadable
<1>8. MergeIsAt'
  BY <1>3, <1>5 DEF Inv, TypeOK, MergeIsAt, file_limit
<1>9. FilesAreSorted'
  <2>1. \A i \in DOMAIN sort_files' : Ascending(sort_files'[i])
    <3>1. ASSUME NEW i \in DOMAIN sort_files' PROVE Ascending(sort_files'[i])
      <4>1. i \in 1 .. Len(sort_files) \/ i = Len(sort_files) + 1
        BY <1>5
      <4>2. \A j \in 1 .. Len(sort_files) : Ascending(sort_files[j])
        BY SMTT(30) DEF Inv, FilesAreSorted, TypeOK
      <4> QED
        BY <1>4, <1>5, <4>1, <4>2
    <3> QED
      BY <3>1
  <2> QED
    BY <1>3, <2>1 DEF Inv, FilesAreSorted
<1> QED
  BY <1>6, <1>7, <1>8, <1>9 DEF Inv

LEMMA SplitEndsInv == Inv /\ SplitEnds => Inv'
  BY DEF Inv, SplitEnds, TypeOK, InputsAreReadable, MergeIsAt, FilesAreSorted, file_limit

LEMMA StartRoundInv == Inv /\ StartRound => Inv'
<1> SUFFICES ASSUME Inv, StartRound PROVE Inv'
  OBVIOUS
<1>1. /\ phase = "rounds" /\ phase' = "merge" /\ out_files' = <<>> /\ cur_files_pos' = 0
      /\ UNCHANGED <<at_end, sort_files, inputs, out_file, input>> /\ inputs = <<>>
  BY DEF StartRound, Inv, MergeIsAt
<1>2. TypeOK' /\ MergeIsAt'
  BY <1>1 DEF Inv, TypeOK, MergeIsAt, file_limit
<1>3. InputsAreReadable' /\ FilesAreSorted'
  BY <1>1 DEF Inv, InputsAreReadable, FilesAreSorted
<1> QED
  BY <1>2, <1>3 DEF Inv

LEMMA EndRoundInv == Inv /\ EndRound => Inv'
<1> SUFFICES ASSUME Inv, EndRound PROVE Inv'
  OBVIOUS
<1>1. /\ phase' = "rounds" /\ sort_files' = out_files /\ out_files' = <<>>
      /\ cur_files_pos' = 0 /\ inputs = <<>>
      /\ UNCHANGED <<at_end, inputs, out_file, input>>
  BY DEF EndRound
<1>2. TypeOK' /\ MergeIsAt'
  BY <1>1 DEF Inv, TypeOK, MergeIsAt, file_limit
<1>3. InputsAreReadable' /\ FilesAreSorted'
  BY <1>1 DEF Inv, InputsAreReadable, FilesAreSorted
<1> QED
  BY <1>2, <1>3 DEF Inv

LEMMA FinishInv == Inv /\ Finish => Inv'
<1> SUFFICES ASSUME Inv, Finish PROVE Inv'
  OBVIOUS
<1>1. /\ phase = "rounds" /\ phase' = "done"
      /\ UNCHANGED <<at_end, sort_files, out_files, cur_files_pos, inputs, out_file, input>>
  BY DEF Finish
<1>2. TypeOK' /\ MergeIsAt'
  BY <1>1 DEF Inv, TypeOK, MergeIsAt, file_limit
<1>3. InputsAreReadable' /\ FilesAreSorted'
  BY <1>1 DEF Inv, InputsAreReadable, FilesAreSorted
<1> QED
  BY <1>2, <1>3 DEF Inv

(* The blocks of the inputs and of the output fit into the buffer. *)
LEMMA RoomForBlocks ==
    ASSUME NEW n \in Nat, n <= file_limit
    PROVE  (n + 1) * B <= S /\ n + 1 <= OPEN_FILES_LIMIT
<1> DEFINE q == S \div B
<1>1. S \in Nat /\ B \in Nat \ {0} /\ OPEN_FILES_LIMIT \in Nat /\ q >= 3
  BY ExternalSortAssumption
<1>2. q \in Nat /\ q * B <= S
  BY <1>1
<1>3. file_limit = (IF q <= OPEN_FILES_LIMIT THEN q ELSE OPEN_FILES_LIMIT) - 1
  BY DEF file_limit, Smaller
<1> HIDE DEF q
<1>4. n + 1 <= q /\ n + 1 <= OPEN_FILES_LIMIT
  BY <1>1, <1>2, <1>3
<1>5. (n + 1) * B <= q * B /\ (n + 1) * B \in Nat /\ q * B \in Nat
  BY <1>1, <1>2, <1>4
<1> QED
  BY <1>1, <1>2, <1>4, <1>5

(* Each file taken into a merge is one of the round's, with its first      *)
(* number read.                                                            *)
LEMMA OpenedIsReadable ==
    ASSUME NEW data \in Seq(INT)
    PROVE  Opened(data) \in InputFile /\ Readable(Opened(data)) /\ Unread(Opened(data)) = data
<1> DEFINE file == [disk |-> data, buf |-> <<>>, candidate |-> <<>>, is_ended |-> FALSE]
<1>1. file \in InputFile /\ ~ file.is_ended /\ Len(file.buf) <= B
  BY ExternalSortAssumption DEF InputFile
<1>2. file.buf \o file.disk = data
  BY ConcatEmptySeq
<1>3. Opened(data) = ReadNum(file)
  BY DEF Opened
<1> HIDE DEF file
<1> QED
  BY <1>1, <1>2, <1>3, NumIsRead DEF Readable

LEMMA OpenFilesInv == Inv /\ OpenFiles => Inv'
<1> SUFFICES ASSUME Inv, OpenFiles PROVE Inv'
  OBVIOUS
<1> DEFINE opened == [i \in 1 .. MergeFilesNum |-> Opened(sort_files[cur_files_pos + i])]
<1>1. /\ phase = "merge" /\ inputs = <<>> /\ inputs' = opened /\ out_file' = Written
      /\ UNCHANGED <<phase, at_end, sort_files, out_files, cur_files_pos, input>>
      /\ cur_files_pos # Len(sort_files)
  BY DEF OpenFiles
<1>2. /\ cur_files_pos \in 0 .. Len(sort_files) /\ sort_files \in Seq(Seq(INT))
      /\ Len(sort_files) \in Nat
  BY DEF Inv, TypeOK
<1>3. file_limit \in Nat
  BY FileLimitIsNat
<1>4. /\ MergeFilesNum \in Nat /\ MergeFilesNum <= file_limit
      /\ cur_files_pos + MergeFilesNum <= Len(sort_files)
  BY <1>2, <1>3 DEF MergeFilesNum, Smaller
<1>5. ASSUME NEW i \in 1 .. MergeFilesNum
      PROVE  /\ sort_files[cur_files_pos + i] \in Seq(INT)
             /\ Ascending(sort_files[cur_files_pos + i])
  <2>1. cur_files_pos + i \in 1 .. Len(sort_files)
    BY <1>2, <1>4
  <2> QED
    BY <1>2, <2>1 DEF Inv, FilesAreSorted
<1>6. ASSUME NEW i \in 1 .. MergeFilesNum
      PROVE  /\ opened[i] \in InputFile /\ Readable(opened[i])
             /\ Unread(opened[i]) = sort_files[cur_files_pos + i]
  BY <1>5, OpenedIsReadable
<1>7. opened \in Seq(InputFile) /\ Len(opened) = MergeFilesNum
      /\ DOMAIN opened = 1 .. MergeFilesNum
  <2>1. opened \in [1 .. MergeFilesNum -> InputFile]
    BY <1>6
  <2> HIDE DEF opened
  <2> QED
    BY <1>4, <2>1
<1> HIDE DEF opened
<1>8. TypeOK'
  BY <1>1, <1>7 DEF Inv, TypeOK, Written
<1>9. InputsAreReadable'
  BY <1>1, <1>6, <1>7 DEF InputsAreReadable
<1>10. MergeIsAt'
  <2>1. Len(out_file'.buf) <= B
    BY <1>1, ExternalSortAssumption DEF Written
  <2> QED
    BY <1>1, <1>4, <1>7, <2>1 DEF MergeIsAt, file_limit
<1>11. FilesAreSorted'
  <2>1. ASSUME NEW i \in DOMAIN inputs'
        PROVE  Ascending(out_file'.disk \o out_file'.buf \o Unread(inputs'[i]))
    <3>1. i \in 1 .. MergeFilesNum /\ inputs'[i] = opened[i]
      BY <1>1, <1>7
    <3>2. Unread(opened[i]) = sort_files[cur_files_pos + i]
      BY <1>6, <3>1
    <3>3. out_file'.disk \o out_file'.buf = <<>>
      BY <1>1 DEF Written
    <3>4. <<>> \o sort_files[cur_files_pos + i] = sort_files[cur_files_pos + i]
      BY <1>5, <3>1, ConcatEmptySeq
    <3> QED
      BY <1>5, <3>1, <3>2, <3>3, <3>4
  <2> QED
    BY <1>1, <2>1 DEF Inv, FilesAreSorted
<1> QED
  BY <1>8, <1>9, <1>10, <1>11 DEF Inv

(* A file is done when all of the merge's inputs are: what it holds is     *)
(* ascending with nothing behind it.                                       *)
LEMMA CloseFilesInv == Inv /\ CloseFiles => Inv'
<1> SUFFICES ASSUME Inv, CloseFiles PROVE Inv'
  OBVIOUS
<1> DEFINE made == out_file.disk \o out_file.buf
<1>1. /\ phase = "merge" /\ inputs # <<>> /\ out_files' = Append(out_files, Flushed(out_file).disk)
      /\ out_file' = Written /\ inputs' = <<>> /\ cur_files_pos' = cur_files_pos + Len(inputs)
      /\ UNCHANGED <<phase, at_end, sort_files, input>>
  BY DEF CloseFiles, PosAfter
<1>2. out_file.disk \in Seq(INT) /\ out_file.buf \in Seq(INT)
  BY DEF Inv, TypeOK
<1>3. made \in Seq(INT) /\ Flushed(out_file).disk = made
  BY <1>2, ConcatProperties DEF Flushed
<1>4. Ascending(made)
  <2>1. 1 \in DOMAIN inputs /\ inputs[1] \in InputFile
    BY <1>1 DEF Inv, TypeOK
  <2>2. Readable(inputs[1]) /\ Ascending(made \o Unread(inputs[1]))
    BY <2>1 DEF Inv, InputsAreReadable, FilesAreSorted
  <2>3. Unread(inputs[1]) \in Seq(INT)
    BY <2>1, <2>2, WhatIsUnread
  <2> HIDE DEF made
  <2> QED
    BY <1>3, <2>2, <2>3, AscendingParts
<1> HIDE DEF made
<1>5. /\ out_files' \in Seq(Seq(INT)) /\ Len(out_files') = Len(out_files) + 1
      /\ \A i \in 1 .. Len(out_files) : out_files'[i] = out_files[i]
      /\ out_files'[Len(out_files) + 1] = made
      /\ Len(out_files) \in Nat
  <2>1. out_files \in Seq(Seq(INT)) /\ out_files' = Append(out_files, made)
    BY <1>1, <1>3 DEF Inv, TypeOK
  <2> QED
    BY <1>3, <2>1, OneFileMore
<1>6. Len(inputs) \in Nat /\ cur_files_pos \in Nat /\ cur_files_pos + Len(inputs) <= Len(sort_files)
  BY DEF Inv, TypeOK, MergeIsAt
<1>7. TypeOK'
  BY <1>1, <1>5, <1>6 DEF Inv, TypeOK, Written
<1>8. InputsAreReadable'
  BY <1>1 DEF InputsAreReadable
<1>9. MergeIsAt'
  <2>1. 0 <= file_limit
    BY FileLimitIsNat
  <2>2. Len(out_file'.buf) <= B /\ Len(inputs') = 0
    BY <1>1, ExternalSortAssumption DEF Written
  <2> QED
    BY <1>1, <1>6, <2>1, <2>2 DEF MergeIsAt, file_limit
<1>10. FilesAreSorted'
  <2>1. ASSUME NEW i \in DOMAIN out_files' PROVE Ascending(out_files'[i])
    <3>1. i \in 1 .. Len(out_files) \/ i = Len(out_files) + 1
      BY <1>5
    <3>2. \A j \in 1 .. Len(out_files) : Ascending(out_files[j])
      BY DEF Inv, FilesAreSorted, TypeOK
    <3> QED
      BY <1>4, <1>5, <3>1, <3>2
  <2> QED
    BY <1>1, <2>1 DEF Inv, FilesAreSorted
<1> QED
  BY <1>7, <1>8, <1>9, <1>10 DEF Inv

(* The smallest candidate is written: what has been written stays          *)
(* ascending, the input it came from goes on behind it, and no other input *)
(* holds a smaller number.                                                 *)
LEMMA MergeNumInv == Inv /\ MergeNum => Inv'
<1> SUFFICES ASSUME Inv, MergeNum PROVE Inv'
  OBVIOUS
<1>1. PICK m \in DOMAIN inputs :
          /\ IsMin(m)
          /\ out_file' = WriteNum(out_file, inputs[m].candidate[1])
          /\ inputs' = [inputs EXCEPT ![m] = ReadNum(@)]
  BY DEF MergeNum
<1> DEFINE c == inputs[m].candidate[1]
           made == out_file.disk \o out_file.buf
           made1 == out_file'.disk \o out_file'.buf
           rest == inputs[m].buf \o inputs[m].disk
<1>2. phase = "merge" /\ UNCHANGED <<phase, at_end, sort_files, out_files, cur_files_pos, input>>
  BY DEF MergeNum
<1>3. /\ inputs \in Seq(InputFile) /\ Len(inputs) \in Nat
      /\ \A i \in DOMAIN inputs : inputs[i] \in InputFile /\ Readable(inputs[i])
      /\ \A i \in DOMAIN inputs : Ascending(made \o Unread(inputs[i]))
      /\ out_file \in [disk : Seq(INT), buf : Seq(INT)] /\ Len(out_file.buf) <= B
  BY DEF Inv, TypeOK, InputsAreReadable, FilesAreSorted, MergeIsAt
<1>4. ~ inputs[m].is_ended /\ Len(inputs[m].buf) <= B
      /\ \A i \in DOMAIN inputs : ~ inputs[i].is_ended => c <= inputs[i].candidate[1]
  BY <1>1, <1>3 DEF IsMin, Readable
<1>5. /\ c \in INT /\ rest \in Seq(INT)
      /\ Unread(inputs[m]) = <<c>> \o rest
  BY <1>3, <1>4, WhatIsUnread
<1>6. made \in Seq(INT) /\ <<c>> \in Seq(INT)
  BY <1>3, <1>5, ConcatProperties
<1>7. /\ out_file' \in [disk : Seq(INT), buf : Seq(INT)] /\ Len(out_file'.buf) <= B
      /\ made1 = made \o <<c>>
  BY <1>1, <1>3, <1>5, NumIsWritten
<1>8. Readable(ReadNum(inputs[m])) /\ Unread(ReadNum(inputs[m])) = rest
  BY <1>3, <1>4, NumIsRead
<1>9. /\ inputs' \in Seq(InputFile) /\ Len(inputs') = Len(inputs)
      /\ DOMAIN inputs' = DOMAIN inputs
      /\ \A i \in DOMAIN inputs : inputs'[i] = IF i = m THEN ReadNum(inputs[m]) ELSE inputs[i]
  <2>1. ReadNum(inputs[m]) \in InputFile
    BY <1>8 DEF Readable
  <2> QED
    BY <1>1, <1>3, <2>1
<1> HIDE DEF c, made, made1, rest
<1>10. Ascending(made \o <<c>>) /\ Ascending((made \o <<c>>) \o rest)
  <2>1. made \o (<<c>> \o rest) = (made \o <<c>>) \o rest
    BY <1>5, <1>6, Regrouped, Zenon
  <2>2. Ascending((made \o <<c>>) \o rest)
    BY <1>3, <1>5, <2>1
  <2>3. made \o <<c>> \in Seq(INT)
    BY <1>6, Joined
  <2> QED
    BY <1>5, <2>2, <2>3, AscendingParts
<1>11. ASSUME NEW i \in DOMAIN inputs, i # m PROVE Ascending((made \o <<c>>) \o Unread(inputs[i]))
  <2>1. Unread(inputs[i]) \in Seq(INT)
    BY <1>3, WhatIsUnread
  <2>2. Ascending(Unread(inputs[i]))
    BY <1>3, <1>6, <2>1, AscendingParts
  <2>3. Unread(inputs[i]) # <<>> => c <= Unread(inputs[i])[1]
    BY <1>3, <1>4, WhatIsUnread
  <2> QED
    BY <1>5, <1>6, <1>10, <2>1, <2>2, <2>3, AscendingAt
<1>12. TypeOK'
  BY <1>2, <1>7, <1>9 DEF Inv, TypeOK
<1>13. InputsAreReadable'
  BY <1>3, <1>8, <1>9 DEF InputsAreReadable
<1>14. MergeIsAt'
  BY <1>2, <1>7, <1>9 DEF Inv, MergeIsAt, file_limit
<1>15. FilesAreSorted'
  <2>1. ASSUME NEW i \in DOMAIN inputs' PROVE Ascending(made1 \o Unread(inputs'[i]))
    <3>1. CASE i = m
      BY <1>7, <1>8, <1>9, <1>10, <3>1
    <3>2. CASE i # m
      BY <1>7, <1>9, <1>11, <3>2
    <3> QED
      BY <3>1, <3>2
  <2> QED
    BY <1>2, <2>1 DEF Inv, FilesAreSorted, made1
<1> QED
  BY <1>12, <1>13, <1>14, <1>15 DEF Inv

LEMMA StutterInv == Inv /\ UNCHANGED vars => Inv'
<1> SUFFICES ASSUME Inv, UNCHANGED vars PROVE Inv'
  OBVIOUS
<1>1. UNCHANGED <<phase, at_end, sort_files, out_files, cur_files_pos, inputs, out_file, input>>
  BY DEF vars
<1>2. TypeOK' /\ MergeIsAt'
  BY <1>1 DEF Inv, TypeOK, MergeIsAt, file_limit
<1>3. InputsAreReadable' /\ FilesAreSorted'
  BY <1>1 DEF Inv, InputsAreReadable, FilesAreSorted
<1> QED
  BY <1>2, <1>3 DEF Inv

LEMMA NextInv == Inv /\ [Next]_vars => Inv'
  BY SplitInv, SplitEndsInv, StartRoundInv, OpenFilesInv, MergeNumInv, CloseFilesInv,
     EndRoundInv, FinishInv, StutterInv DEF Next

LEMMA InvAlways == Spec => []Inv
<1>1. Init => Inv
  BY InitInv
<1>2. Inv /\ [Next]_vars => Inv'
  BY NextInv
<1> QED
  BY <1>1, <1>2, PTL DEF Spec

-----------------------------------------------------------------------------

(* The files, the buffers and the counts have their types. *)
THEOREM TypeTheorem == Spec => []TypeOK
<1>1. Inv => TypeOK
  BY DEF Inv
<1> QED
  BY <1>1, InvAlways, PTL

(* For any buffer and block that leave room for three, the blocks of a     *)
(* merge and of its output lie beside each other in the buffer, and no     *)
(* more files are open than may be.                                        *)
THEOREM BlocksTheorem == Spec => []BlocksFit
<1>1. Inv => BlocksFit
  <2> SUFFICES ASSUME Inv PROVE BlocksFit
    OBVIOUS
  <2>1. Len(inputs) \in Nat /\ Len(inputs) <= file_limit /\ Len(out_file.buf) <= B
    BY DEF Inv, TypeOK, MergeIsAt
  <2>2. \A i \in DOMAIN inputs : Len(inputs[i].buf) <= B
    BY DEF Inv, InputsAreReadable, Readable
  <2> QED
    BY <2>1, <2>2, RoomForBlocks DEF BlocksFit
<1> QED
  BY <1>1, InvAlways, PTL

(* Every file is sorted at every moment of any number of rounds, whatever  *)
(* the input.                                                              *)
THEOREM SortedTheorem == Spec => []FilesAreSorted
<1>1. Inv => FilesAreSorted
  BY DEF Inv
<1> QED
  BY <1>1, InvAlways, PTL

-----------------------------------------------------------------------------
(***************************************************************************)
(* How often a number is in a sequence, and in a sequence of sequences.    *)
(***************************************************************************)
At(s, n) == {i \in DOMAIN s : s[i] = n}

In(ss, n) == Count(FlattenSeq(ss), n)

LEMMA AtIsFinite ==
    ASSUME NEW s \in Seq(INT), NEW n
    PROVE  IsFiniteSet(At(s, n)) /\ Count(s, n) = Cardinality(At(s, n)) /\ Count(s, n) \in Nat
<1>1. IsFiniteSet(1 .. Len(s)) /\ At(s, n) \in SUBSET (1 .. Len(s))
  <2>1. Len(s) \in Int /\ DOMAIN s = 1 .. Len(s)
    BY LenProperties
  <2> QED
    BY <2>1, FS_Interval DEF At
<1>2. IsFiniteSet(At(s, n))
  BY <1>1, FS_Subset
<1>3. Count(s, n) = Cardinality(At(s, n))
  BY DEF Count, At
<1> QED
  BY <1>2, <1>3, FS_CardinalityType

LEMMA CountEmpty == ASSUME NEW n PROVE Count(<<>>, n) = 0
<1>1. At(<<>>, n) = {}
  BY DEF At
<1>2. Count(<<>>, n) = Cardinality(At(<<>>, n))
  BY DEF Count, At
<1> QED
  BY <1>1, <1>2, FS_EmptySet

(* Of sequences that are joined, the second keeps its numbers at places    *)
(* further on.                                                             *)
LEMMA CountJoined ==
    ASSUME NEW s \in Seq(INT), NEW t \in Seq(INT), NEW n
    PROVE  Count(s \o t, n) = Count(s, n) + Count(t, n)
<1> DEFINE u == s \o t
           b == {i + Len(s) : i \in At(t, n)}
           f == [i \in At(t, n) |-> i + Len(s)]
<1>1. /\ u \in Seq(INT) /\ Len(u) = Len(s) + Len(t)
      /\ \A i \in 1 .. Len(s) + Len(t) : u[i] = IF i <= Len(s) THEN s[i] ELSE t[i - Len(s)]
  BY ConcatProperties
<1>2. /\ DOMAIN s = 1 .. Len(s) /\ Len(s) \in Nat
      /\ DOMAIN t = 1 .. Len(t) /\ Len(t) \in Nat
      /\ DOMAIN u = 1 .. Len(s) + Len(t)
  <2>1. DOMAIN u = 1 .. Len(u)
    <3> HIDE DEF u
    <3> QED
      BY <1>1, LenProperties
  <2> QED
    BY <1>1, <2>1, LenProperties
<1> HIDE DEF u
<1>3. At(u, n) = At(s, n) \cup b
  <2>1. ASSUME NEW i \in At(u, n) PROVE i \in At(s, n) \cup b
    <3>1. i \in 1 .. Len(s) + Len(t) /\ u[i] = n
      BY <1>2 DEF At
    <3>2. CASE i <= Len(s)
      BY <1>1, <1>2, <3>1, <3>2 DEF At
    <3>3. CASE ~ (i <= Len(s))
      <4>1. i - Len(s) \in 1 .. Len(t) /\ t[i - Len(s)] = n /\ (i - Len(s)) + Len(s) = i
        BY <1>1, <1>2, <3>1, <3>3
      <4>2. i - Len(s) \in At(t, n)
        BY <1>2, <4>1 DEF At
      <4> QED
        BY <4>1, <4>2
    <3> QED
      BY <3>2, <3>3
  <2>2. ASSUME NEW i \in At(s, n) PROVE i \in At(u, n)
    <3>1. i \in 1 .. Len(s) /\ s[i] = n
      BY <1>2 DEF At
    <3>2. i \in 1 .. Len(s) + Len(t) /\ u[i] = n
      BY <1>1, <1>2, <3>1
    <3> QED
      BY <1>2, <3>2 DEF At
  <2>3. ASSUME NEW j \in At(t, n) PROVE j + Len(s) \in At(u, n)
    <3>1. j \in 1 .. Len(t) /\ t[j] = n
      BY <1>2 DEF At
    <3>2. j + Len(s) \in 1 .. Len(s) + Len(t) /\ ~ (j + Len(s) <= Len(s))
          /\ (j + Len(s)) - Len(s) = j
      BY <1>2, <3>1
    <3>3. u[j + Len(s)] = n
      BY <1>1, <3>1, <3>2
    <3> QED
      BY <1>2, <3>2, <3>3 DEF At
  <2> QED
    BY <2>1, <2>2, <2>3
<1>4. At(s, n) \cap b = {}
  <2>1. \A i \in At(s, n) : i \in Nat /\ i <= Len(s)
    BY <1>2 DEF At
  <2>2. \A i \in b : ~ (i <= Len(s))
    <3>1. \A j \in At(t, n) : ~ (j + Len(s) <= Len(s))
      BY <1>2 DEF At
    <3> QED
      BY <3>1
  <2> QED
    BY <2>1, <2>2
<1>5. IsFiniteSet(b) /\ Cardinality(b) = Cardinality(At(t, n))
  <2>1. \A i \in At(t, n) : i \in Nat
    BY <1>2 DEF At
  <2>2. f \in Bijection(At(t, n), b)
    <3>1. f \in [At(t, n) -> b]
      OBVIOUS
    <3>2. \A i, j \in At(t, n) : f[i] = f[j] => i = j
      BY <1>2, <2>1
    <3>3. \A k \in b : \E i \in At(t, n) : f[i] = k
      OBVIOUS
    <3> HIDE DEF f, b
    <3> QED
      BY <3>1, <3>2, <3>3 DEF Bijection, Injection, Surjection, IsInjective
  <2>3. ExistsBijection(At(t, n), b)
    BY <2>2 DEF ExistsBijection
  <2> HIDE DEF f, b
  <2> QED
    BY <2>3, AtIsFinite, FS_Bijection
<1> HIDE DEF f, b
<1>6. Cardinality(At(u, n)) = Cardinality(At(s, n)) + Cardinality(b)
  <2>1. IsFiniteSet(At(s, n)) /\ Cardinality(At(s, n)) \in Nat
    BY AtIsFinite
  <2>2. Cardinality(b) \in Nat
    BY <1>5, FS_CardinalityType
  <2>3. Cardinality(At(s, n) \cap b) = 0
    BY <1>4, FS_EmptySet
  <2>4. Cardinality(At(s, n) \cup b)
            = Cardinality(At(s, n)) + Cardinality(b) - Cardinality(At(s, n) \cap b)
    BY <1>5, <2>1, FS_Union
  <2> QED
    BY <1>3, <2>1, <2>2, <2>3, <2>4
<1>7. /\ Count(u, n) = Cardinality(At(u, n))
      /\ Count(s, n) = Cardinality(At(s, n))
      /\ Count(t, n) = Cardinality(At(t, n))
  BY <1>1, AtIsFinite
<1> QED
  BY <1>5, <1>6, <1>7 DEF u

LEMMA InIsNat == ASSUME NEW ss \in Seq(Seq(INT)), NEW n PROVE In(ss, n) \in Nat
  BY FlattenType, AtIsFinite DEF In

LEMMA InEmpty == ASSUME NEW n PROVE In(<<>>, n) = 0
  BY FlattenEmpty, CountEmpty DEF In

LEMMA InOne == ASSUME NEW s \in Seq(INT), NEW n PROVE In(<<s>>, n) = Count(s, n)
  BY FlattenOne DEF In

LEMMA InAppend ==
    ASSUME NEW ss \in Seq(Seq(INT)), NEW s \in Seq(INT), NEW n
    PROVE  In(Append(ss, s), n) = In(ss, n) + Count(s, n)
<1>1. FlattenSeq(Append(ss, s)) = FlattenSeq(ss) \o s /\ FlattenSeq(ss) \in Seq(INT)
  BY FlattenAppend, FlattenType
<1> QED
  BY <1>1, CountJoined DEF In

LEMMA InJoined ==
    ASSUME NEW ss \in Seq(Seq(INT)), NEW tt \in Seq(Seq(INT)), NEW n
    PROVE  In(ss \o tt, n) = In(ss, n) + In(tt, n)
<1>1. FlattenSeq(ss \o tt) = FlattenSeq(ss) \o FlattenSeq(tt)
      /\ FlattenSeq(ss) \in Seq(INT) /\ FlattenSeq(tt) \in Seq(INT)
  BY FlattenConcat, FlattenType
<1> QED
  BY <1>1, CountJoined DEF In

LEMMA InAllEmpty ==
    ASSUME NEW ss \in Seq(Seq(INT)), \A i \in 1 .. Len(ss) : ss[i] = <<>>, NEW n
    PROVE  In(ss, n) = 0
<1> DEFINE bad == {k \in Nat : \E tt \in Seq(Seq(INT)) : /\ Len(tt) = k
                                                         /\ \A i \in 1 .. Len(tt) : tt[i] = <<>>
                                                         /\ In(tt, n) # 0}
<1> SUFFICES ASSUME bad # {} PROVE FALSE
  <2>1. Len(ss) \in Nat
    OBVIOUS
  <2> QED
    BY <2>1
<1>1. PICK k \in bad : \A m \in bad : k <= m
  <2>1. bad \subseteq Nat
    OBVIOUS
  <2> HIDE DEF bad
  <2> QED
    BY <2>1, LeastNumber
<1>2. k \in Nat
  BY <1>1
<1>3. PICK tt \in Seq(Seq(INT)) : /\ Len(tt) = k
                                  /\ \A i \in 1 .. Len(tt) : tt[i] = <<>>
                                  /\ In(tt, n) # 0
  BY <1>1
<1>4. tt # <<>>
  BY <1>3, InEmpty
<1>5. PICK r \in Seq(Seq(INT)), e \in Seq(INT) : tt = Append(r, e)
  BY <1>4, SequenceEmptyOrAppend
<1>6. /\ Len(r) \in Nat /\ Len(tt) = Len(r) + 1 /\ tt[Len(r) + 1] = e
      /\ \A i \in 1 .. Len(r) : tt[i] = r[i]
  BY <1>5, AppendProperties
<1> HIDE DEF bad
<1>7. e = <<>> /\ \A i \in 1 .. Len(r) : r[i] = <<>>
  <2>1. Len(r) + 1 \in 1 .. Len(tt) /\ \A i \in 1 .. Len(r) : i \in 1 .. Len(tt)
    BY <1>6
  <2> QED
    BY <1>3, <1>6, <2>1
<1>8. In(tt, n) = In(r, n) + 0 /\ In(r, n) \in Nat
  <2>1. In(tt, n) = In(r, n) + Count(e, n)
    BY <1>5, InAppend
  <2>2. Count(e, n) = 0
    BY <1>7, CountEmpty
  <2> QED
    BY <2>1, <2>2, InIsNat
<1>9. Len(r) \in bad
  BY <1>3, <1>6, <1>7, <1>8 DEF bad
<1>10. k <= Len(r)
  BY <1>1, <1>9
<1> QED
  BY <1>2, <1>3, <1>6, <1>10

LEMMA SplitAt ==
    ASSUME NEW ss \in Seq(Seq(INT)), NEW m \in 1 .. Len(ss)
    PROVE  LET pre == SubSeq(ss, 1, m - 1)
               post == SubSeq(ss, m + 1, Len(ss))
           IN  /\ pre \in Seq(Seq(INT)) /\ post \in Seq(Seq(INT))
               /\ ss[m] \in Seq(INT)
               /\ \A n : In(ss, n) = In(pre, n) + Count(ss[m], n) + In(post, n)
<1> DEFINE pre == SubSeq(ss, 1, m - 1)
           post == SubSeq(ss, m + 1, Len(ss))
           upto == SubSeq(ss, 1, m)
<1>1. Len(ss) \in Nat /\ m \in Nat /\ m >= 1 /\ m <= Len(ss) /\ ss[m] \in Seq(INT)
      /\ \A i \in 1 .. Len(ss) : ss[i] \in Seq(INT)
  OBVIOUS
<1>2. pre \in Seq(Seq(INT))
  <2>1. \A i \in 1 .. m - 1 : ss[i] \in Seq(INT)
    BY <1>1
  <2>2. m - 1 \in Int /\ 1 \in Int
    BY <1>1
  <2> QED
    BY <2>1, <2>2, SubSeqProperties
<1>3. post \in Seq(Seq(INT))
  <2>1. \A i \in m + 1 .. Len(ss) : ss[i] \in Seq(INT)
    BY <1>1
  <2>2. m + 1 \in Int /\ Len(ss) \in Int
    BY <1>1
  <2> QED
    BY <2>1, <2>2, SubSeqProperties
<1>4. upto = pre \o <<ss[m]>>
  <2>1. 1 \in 1 .. Len(ss) /\ m \in 1 .. Len(ss)
    BY <1>1
  <2> QED
    BY <2>1, SubSeqRecursiveSecond
<1>5. upto \o post = ss
  <2>1. 1 \in 1 .. Len(ss) + 1 /\ m \in 1 - 1 .. Len(ss) /\ Len(ss) \in m .. Len(ss)
    BY <1>1
  <2> QED
    BY <2>1, ConcatAdjacentSubSeq, SubSeqFull
<1>6. <<ss[m]>> \in Seq(Seq(INT))
  BY <1>1
<1> HIDE DEF pre, post, upto
<1>7. upto \in Seq(Seq(INT))
  BY <1>2, <1>4, <1>6, ConcatProperties
<1>8. ASSUME NEW n PROVE In(ss, n) = In(pre, n) + Count(ss[m], n) + In(post, n)
  <2>1. In(ss, n) = In(upto, n) + In(post, n)
    BY <1>3, <1>5, <1>7, InJoined
  <2>2. In(upto, n) = In(pre, n) + In(<<ss[m]>>, n)
    BY <1>2, <1>4, <1>6, InJoined
  <2>3. In(<<ss[m]>>, n) = Count(ss[m], n)
    BY <1>1, InOne
  <2> QED
    BY <2>1, <2>2, <2>3
<1> QED
  BY <1>1, <1>2, <1>3, <1>8 DEF pre, post

LEMMA NextFiles ==
    ASSUME NEW files \in Seq(Seq(INT)), NEW pos \in Nat, NEW k \in Nat, pos + k <= Len(files)
    PROVE  LET taken == SubSeq(files, pos + 1, pos + k)
           IN  /\ taken \in Seq(Seq(INT)) /\ Len(taken) = k
               /\ \A i \in 1 .. k : taken[i] = files[pos + i]
<1> DEFINE lo == pos + 1
           hi == pos + k
           taken == SubSeq(files, lo, hi)
<1>1. lo \in Int /\ hi \in Int /\ \A i \in lo .. hi : files[i] \in Seq(INT)
  <2>1. \A i \in lo .. hi : i \in 1 .. Len(files)
    OBVIOUS
  <2> QED
    BY <2>1
<1>2. hi - lo + 1 = k /\ (lo <= hi <=> k # 0)
  OBVIOUS
<1>3. \A i \in 1 .. k : lo + i - 1 = pos + i
  OBVIOUS
<1> HIDE DEF lo, hi
<1>4. /\ taken \in Seq(Seq(INT))
      /\ Len(taken) = IF lo <= hi THEN hi - lo + 1 ELSE 0
      /\ \A i \in 1 .. hi - lo + 1 : taken[i] = files[lo + i - 1]
  BY <1>1, SubSeqProperties, SMTT(30)
<1> HIDE DEF taken
<1>5. Len(taken) = k /\ \A i \in 1 .. k : taken[i] = files[pos + i]
  BY <1>2, <1>3, <1>4
<1> QED
  BY <1>4, <1>5 DEF taken, lo, hi

(* One of the sequences is replaced by another. *)
LEMMA InReplaced ==
    ASSUME NEW ss \in Seq(Seq(INT)), NEW tt \in Seq(Seq(INT)), Len(tt) = Len(ss),
           NEW m \in 1 .. Len(ss), \A i \in 1 .. Len(ss) : i # m => tt[i] = ss[i], NEW n
    PROVE  In(ss, n) + Count(tt[m], n) = In(tt, n) + Count(ss[m], n)
<1> DEFINE pre(s) == SubSeq(s, 1, m - 1)
           post(s) == SubSeq(s, m + 1, Len(s))
<1>1. Len(ss) \in Nat /\ m \in Nat /\ m >= 1 /\ m <= Len(ss)
  OBVIOUS
<1>2. /\ pre(ss) \in Seq(Seq(INT)) /\ post(ss) \in Seq(Seq(INT)) /\ ss[m] \in Seq(INT)
      /\ In(ss, n) = In(pre(ss), n) + Count(ss[m], n) + In(post(ss), n)
  BY SplitAt
<1>3. /\ pre(tt) \in Seq(Seq(INT)) /\ post(tt) \in Seq(Seq(INT)) /\ tt[m] \in Seq(INT)
      /\ In(tt, n) = In(pre(tt), n) + Count(tt[m], n) + In(post(tt), n)
  BY SplitAt
<1>4. pre(ss) = pre(tt)
  <2>1. \A i \in 1 .. m - 1 : ss[i] \in Seq(INT) /\ tt[i] \in Seq(INT) /\ ss[i] = tt[i]
    BY <1>1
  <2>2. 1 \in Int /\ m - 1 \in Int
    BY <1>1
  <2>3. Len(pre(ss)) = m - 1 /\ \A i \in 1 .. m - 1 : pre(ss)[i] = ss[i]
    BY <1>1, <2>1, <2>2, SubSeqProperties, SMTT(30)
  <2>4. Len(pre(tt)) = m - 1 /\ \A i \in 1 .. m - 1 : pre(tt)[i] = tt[i]
    BY <1>1, <2>1, <2>2, SubSeqProperties, SMTT(30)
  <2> HIDE DEF pre
  <2> QED
    BY <1>2, <1>3, <2>1, <2>3, <2>4, SeqEqual
<1>5. post(ss) = post(tt)
  <2>1. \A i \in m + 1 .. Len(ss) : ss[i] \in Seq(INT) /\ tt[i] \in Seq(INT) /\ ss[i] = tt[i]
    BY <1>1
  <2> DEFINE k == Len(ss) - m
  <2>2. m \in Nat /\ k \in Nat /\ m + k = Len(ss) /\ m + k = Len(tt)
    BY <1>1
  <2>3. Len(post(ss)) = k /\ \A i \in 1 .. k : post(ss)[i] = ss[m + i]
    <3>1. post(ss) = SubSeq(ss, m + 1, m + k)
      BY <2>2
    <3>2. m + k <= Len(ss)
      BY <2>2
    <3> HIDE DEF post, k
    <3>3. Len(SubSeq(ss, m + 1, m + k)) = k
          /\ \A i \in 1 .. k : SubSeq(ss, m + 1, m + k)[i] = ss[m + i]
      BY <2>2, <3>2, NextFiles, SMTT(30)
    <3> QED
      BY <3>1, <3>3
  <2>4. Len(post(tt)) = k /\ \A i \in 1 .. k : post(tt)[i] = tt[m + i]
    <3>1. post(tt) = SubSeq(tt, m + 1, m + k)
      BY <2>2
    <3>2. m + k <= Len(tt)
      BY <2>2
    <3> HIDE DEF post, k
    <3>3. Len(SubSeq(tt, m + 1, m + k)) = k
          /\ \A i \in 1 .. k : SubSeq(tt, m + 1, m + k)[i] = tt[m + i]
      BY <2>2, <3>2, NextFiles, SMTT(30)
    <3> QED
      BY <3>1, <3>3
  <2> HIDE DEF post
  <2>5. ASSUME NEW i \in 1 .. k PROVE post(ss)[i] = post(tt)[i]
    <3>1. m + i \in m + 1 .. Len(ss)
      BY <1>1, SMTT(30)
    <3>2. ss[m + i] = tt[m + i]
      BY <2>1, <3>1
    <3> HIDE DEF k
    <3> QED
      BY <2>3, <2>4, <3>2
  <2>6. \A i \in 1 .. Len(post(ss)) : post(ss)[i] = post(tt)[i]
    BY <2>3, <2>5
  <2>7. Len(post(ss)) = Len(post(tt))
    BY <2>3, <2>4
  <2> QED
    BY <1>2, <1>3, <2>6, <2>7, SeqEqual
<1> HIDE DEF pre, post
<1>6. /\ In(pre(ss), n) \in Nat /\ In(post(ss), n) \in Nat
      /\ Count(ss[m], n) \in Nat /\ Count(tt[m], n) \in Nat
  BY <1>2, <1>3, InIsNat, AtIsFinite
<1> QED
  BY <1>2, <1>3, <1>4, <1>5, <1>6

-----------------------------------------------------------------------------
(***************************************************************************)
(* Nothing is lost.  The invariant adds what a round starts and ends with. *)
(***************************************************************************)
Behind(files, pos) == SubSeq(files, pos + 1, Len(files))

UnreadOf(files) == [i \in DOMAIN files |-> Unread(files[i])]

CountsAgree == \A n \in INT :
    In(Behind(sort_files, cur_files_pos + Len(inputs)), n) + In(UnreadOf(inputs), n)
        + Count(out_file.disk \o out_file.buf, n) + In(out_files, n) = input[n]

RoundIsAt ==
    /\ phase # "merge" => out_files = <<>> /\ cur_files_pos = 0
    /\ inputs = <<>> => out_file = Written

LossInv == CountsAgree /\ RoundIsAt

LEMMA BehindIsFiles ==
    ASSUME NEW files \in Seq(Seq(INT)), NEW pos \in Nat
    PROVE  Behind(files, pos) \in Seq(Seq(INT))
<1>1. pos + 1 \in Int /\ Len(files) \in Int
  BY LenProperties
<1>2. \A i \in pos + 1 .. Len(files) : files[i] \in Seq(INT)
  <2>1. \A i \in pos + 1 .. Len(files) : i \in 1 .. Len(files)
    BY <1>1
  <2> QED
    BY <2>1
<1> QED
  BY <1>1, <1>2, SubSeqProperties DEF Behind

LEMMA UnreadOfIsFiles ==
    ASSUME NEW files \in Seq(InputFile), \A i \in DOMAIN files : Readable(files[i])
    PROVE  /\ UnreadOf(files) \in Seq(Seq(INT)) /\ Len(UnreadOf(files)) = Len(files)
           /\ \A i \in 1 .. Len(files) : UnreadOf(files)[i] = Unread(files[i])
<1>1. DOMAIN files = 1 .. Len(files) /\ Len(files) \in Nat
      /\ \A i \in 1 .. Len(files) : files[i] \in InputFile
  BY LenProperties
<1>2. \A i \in 1 .. Len(files) : Unread(files[i]) \in Seq(INT)
  BY <1>1, WhatIsUnread
<1>3. UnreadOf(files) = [i \in 1 .. Len(files) |-> Unread(files[i])]
  BY <1>1 DEF UnreadOf
<1>4. UnreadOf(files) \in [1 .. Len(files) -> Seq(INT)]
  BY <1>2, <1>3
<1>5. UnreadOf(files) \in Seq(Seq(INT))
  BY <1>1, <1>4, SeqDef
<1> QED
  BY <1>1, <1>3, <1>4, <1>5

(* The counts of the parts add up to those of Held. *)
LEMMA CountHeld ==
    ASSUME NEW behind \in Seq(Seq(INT)), NEW unread \in Seq(Seq(INT)),
           NEW disk \in Seq(INT), NEW buf \in Seq(INT), NEW made \in Seq(Seq(INT)), NEW n
    PROVE  Count(FlattenSeq(behind) \o FlattenSeq(unread) \o disk \o buf \o FlattenSeq(made), n)
               = In(behind, n) + In(unread, n) + Count(disk \o buf, n) + In(made, n)
<1> DEFINE a == FlattenSeq(behind)
           b == FlattenSeq(unread)
           c == FlattenSeq(made)
<1>1. a \in Seq(INT) /\ b \in Seq(INT) /\ c \in Seq(INT)
  BY FlattenType
<1>2. Count(a, n) = In(behind, n) /\ Count(b, n) = In(unread, n) /\ Count(c, n) = In(made, n)
  BY DEF In
<1> HIDE DEF a, b, c
<1>3. Count(a \o b, n) = Count(a, n) + Count(b, n) /\ a \o b \in Seq(INT)
  BY <1>1, CountJoined, Joined
<1>4. Count(a \o b \o disk, n) = Count(a \o b, n) + Count(disk, n) /\ a \o b \o disk \in Seq(INT)
  BY <1>3, CountJoined, Joined
<1>5. /\ Count(a \o b \o disk \o buf, n) = Count(a \o b \o disk, n) + Count(buf, n)
      /\ a \o b \o disk \o buf \in Seq(INT)
  BY <1>4, CountJoined, Joined
<1>6. Count(a \o b \o disk \o buf \o c, n) = Count(a \o b \o disk \o buf, n) + Count(c, n)
  BY <1>1, <1>5, CountJoined
<1>7. Count(disk \o buf, n) = Count(disk, n) + Count(buf, n)
  BY CountJoined
<1>8. /\ Count(a, n) \in Nat /\ Count(b, n) \in Nat /\ Count(c, n) \in Nat
      /\ Count(disk, n) \in Nat /\ Count(buf, n) \in Nat
  BY <1>1, AtIsFinite
<1> DEFINE all == Count(a \o b \o disk \o buf \o c, n)
<1>9. all = Count(a, n) + Count(b, n) + Count(disk \o buf, n) + Count(c, n)
  BY <1>3, <1>4, <1>5, <1>6, <1>7, <1>8
<1> QED
  BY <1>2, <1>9 DEF a, b, c

LEMMA AgreeIsEnough == ASSUME Inv, CountsAgree PROVE NothingIsLost
<1>1. /\ sort_files \in Seq(Seq(INT)) /\ out_files \in Seq(Seq(INT))
      /\ inputs \in Seq(InputFile) /\ \A i \in DOMAIN inputs : Readable(inputs[i])
      /\ out_file.disk \in Seq(INT) /\ out_file.buf \in Seq(INT)
      /\ cur_files_pos + Len(inputs) \in Nat
  BY DEF Inv, TypeOK, InputsAreReadable
<1> DEFINE behind == Behind(sort_files, cur_files_pos + Len(inputs))
           unread == UnreadOf(inputs)
<1>2. behind \in Seq(Seq(INT)) /\ unread \in Seq(Seq(INT))
  BY <1>1, BehindIsFiles, UnreadOfIsFiles
<1>3. Held = FlattenSeq(behind) \o FlattenSeq(unread)
                 \o out_file.disk \o out_file.buf \o FlattenSeq(out_files)
  BY DEF Held, Behind, UnreadOf
<1> HIDE DEF behind, unread
<1>4. \A n \in INT : Count(Held, n)
          = In(behind, n) + In(unread, n) + Count(out_file.disk \o out_file.buf, n) + In(out_files, n)
  BY <1>1, <1>2, <1>3, CountHeld
<1> QED
  BY <1>4 DEF CountsAgree, NothingIsLost, behind, unread

LEMMA BehindAppend ==
    ASSUME NEW files \in Seq(Seq(INT)), NEW e \in Seq(INT), NEW pos \in 0 .. Len(files)
    PROVE  Behind(Append(files, e), pos) = Append(Behind(files, pos), e)
<1> DEFINE T == Seq(INT)
           more == Append(files, e)
<1>1. Len(files) \in Nat /\ pos \in Nat /\ pos <= Len(files)
  BY LenProperties
<1>2. more \in Seq(T) /\ Len(more) = Len(files) + 1 /\ more[Len(files) + 1] = e
      /\ \A i \in 1 .. Len(files) : more[i] = files[i] /\ files[i] \in T
  BY AppendProperties
<1> HIDE DEF more
<1>3. Behind(files, pos) \in Seq(T)
  BY <1>1, BehindIsFiles
<1>4. Behind(more, pos) = SubSeq(more, pos + 1, Len(files)) \o <<e>>
  <2>1. pos + 1 \in 1 .. Len(more) /\ Len(more) \in pos + 1 .. Len(more)
    BY <1>1, <1>2
  <2>2. SubSeq(more, pos + 1, Len(more)) = SubSeq(more, pos + 1, Len(more) - 1) \o <<more[Len(more)]>>
    BY <1>2, <2>1, SubSeqRecursiveSecond
  <2>3. Len(more) - 1 = Len(files) /\ more[Len(more)] = e
    BY <1>1, <1>2
  <2> QED
    BY <2>2, <2>3 DEF Behind
<1>5. SubSeq(more, pos + 1, Len(files)) = SubSeq(files, pos + 1, Len(files))
  <2> DEFINE s == SubSeq(more, pos + 1, Len(files))
             t == SubSeq(files, pos + 1, Len(files))
  <2>1. \A i \in pos + 1 .. Len(files) : more[i] \in T /\ files[i] \in T /\ more[i] = files[i]
    BY <1>1, <1>2
  <2>2. pos + 1 \in Int /\ Len(files) \in Int
    BY <1>1
  <2>3. /\ s \in Seq(T) /\ Len(s) = IF pos + 1 <= Len(files) THEN Len(files) - (pos + 1) + 1 ELSE 0
        /\ \A i \in 1 .. Len(files) - (pos + 1) + 1 : s[i] = more[(pos + 1) + i - 1]
    BY <2>1, <2>2, SubSeqProperties, SMTT(30)
  <2>4. /\ t \in Seq(T) /\ Len(t) = IF pos + 1 <= Len(files) THEN Len(files) - (pos + 1) + 1 ELSE 0
        /\ \A i \in 1 .. Len(files) - (pos + 1) + 1 : t[i] = files[(pos + 1) + i - 1]
    BY <2>1, <2>2, SubSeqProperties, SMTT(30)
  <2> HIDE DEF s, t
  <2>5. ASSUME NEW i \in 1 .. Len(s) PROVE s[i] = t[i]
    <3>1. i \in 1 .. Len(files) - (pos + 1) + 1 /\ (pos + 1) + i - 1 \in pos + 1 .. Len(files)
      BY <1>1, <2>3
    <3> QED
      BY <2>1, <2>3, <2>4, <3>1
  <2>6. s = t
    BY <2>3, <2>4, <2>5, SeqEqual
  <2> QED
    BY <2>6 DEF s, t
<1>6. Append(Behind(files, pos), e) = Behind(files, pos) \o <<e>>
  BY <1>3, AppendIsConcat
<1> QED
  BY <1>4, <1>5, <1>6 DEF Behind, more

LEMMA InitLoss == Init => LossInv
<1> SUFFICES ASSUME Init PROVE LossInv
  OBVIOUS
<1>1. RoundIsAt
  BY DEF Init, RoundIsAt
<1>2. Behind(sort_files, cur_files_pos + Len(inputs)) = <<>> /\ UnreadOf(inputs) = <<>>
  <2>1. Len(sort_files) = 0 /\ Len(inputs) = 0 /\ cur_files_pos = 0
    BY DEF Init
  <2>2. SubSeq(sort_files, (0 + 0) + 1, 0) = <<>>
    BY SubSeqEmpty
  <2> QED
    BY <2>1, <2>2 DEF Init, Behind, UnreadOf
<1>3. out_file.disk \o out_file.buf = <<>> /\ out_files = <<>>
  BY DEF Init, Written
<1>4. ASSUME NEW n \in INT
      PROVE  In(<<>>, n) + In(<<>>, n) + Count(<<>>, n) + In(<<>>, n) = input[n]
  <2>1. input[n] = 0
    BY DEF Init
  <2> QED
    BY <2>1, InEmpty, CountEmpty
<1>5. CountsAgree
  BY <1>2, <1>3, <1>4 DEF CountsAgree
<1> QED
  BY <1>1, <1>5 DEF LossInv

(* The four counts are numbers. *)
LEMMA CountsAreNat ==
    ASSUME Inv, NEW n
    PROVE  /\ In(Behind(sort_files, cur_files_pos + Len(inputs)), n) \in Nat
           /\ In(UnreadOf(inputs), n) \in Nat
           /\ Count(out_file.disk \o out_file.buf, n) \in Nat
           /\ In(out_files, n) \in Nat
<1>1. /\ sort_files \in Seq(Seq(INT)) /\ out_files \in Seq(Seq(INT))
      /\ inputs \in Seq(InputFile) /\ \A i \in DOMAIN inputs : Readable(inputs[i])
      /\ out_file.disk \in Seq(INT) /\ out_file.buf \in Seq(INT)
      /\ cur_files_pos + Len(inputs) \in Nat
  BY DEF Inv, TypeOK, InputsAreReadable
<1>2. Behind(sort_files, cur_files_pos + Len(inputs)) \in Seq(Seq(INT))
  BY <1>1, BehindIsFiles
<1>3. UnreadOf(inputs) \in Seq(Seq(INT))
  BY <1>1, UnreadOfIsFiles
<1>4. out_file.disk \o out_file.buf \in Seq(INT)
  BY <1>1, Joined
<1> QED
  BY <1>1, <1>2, <1>3, <1>4, InIsNat, AtIsFinite

LEMMA SplitLoss == ASSUME Inv, LossInv, Split PROVE LossInv'
<1>1. PICK size \in 1 .. S : \E buffer, sorted \in [1 .. size -> INT] :
          /\ Sorts(sorted, buffer)
          /\ sort_files' = Append(sort_files, sorted)
          /\ input' = [n \in INT |-> input[n] + Count(buffer, n)]
  BY DEF Split
<1>2. PICK buffer \in [1 .. size -> INT], sorted \in [1 .. size -> INT] :
          /\ Sorts(sorted, buffer)
          /\ sort_files' = Append(sort_files, sorted)
          /\ input' = [n \in INT |-> input[n] + Count(buffer, n)]
  BY <1>1
<1>3. UNCHANGED <<phase, out_files, cur_files_pos, inputs, out_file>> /\ phase = "split"
  BY DEF Split
<1>4. size \in Nat /\ sorted \in Seq(INT)
  BY ExternalSortAssumption
<1>5. sort_files \in Seq(Seq(INT)) /\ cur_files_pos + Len(inputs) \in 0 .. Len(sort_files)
  <2>1. Len(inputs) \in Nat /\ cur_files_pos \in Nat /\ Len(sort_files) \in Nat
        /\ cur_files_pos + Len(inputs) <= Len(sort_files)
    <3>1. sort_files \in Seq(Seq(INT)) /\ inputs \in Seq(InputFile)
          /\ cur_files_pos \in 0 .. Len(sort_files)
      BY DEF Inv, TypeOK
    <3>2. cur_files_pos + Len(inputs) <= Len(sort_files)
      BY DEF Inv, MergeIsAt
    <3> QED
      BY <3>1, <3>2
  <2>2. sort_files \in Seq(Seq(INT))
    BY DEF Inv, TypeOK
  <2> QED
    BY <2>1, <2>2
<1> DEFINE at == cur_files_pos + Len(inputs)
<1>6. Behind(sort_files', at) = Append(Behind(sort_files, at), sorted)
  BY <1>2, <1>4, <1>5, BehindAppend
<1>7. Behind(sort_files, at) \in Seq(Seq(INT))
  BY <1>5, BehindIsFiles
<1>8. ASSUME NEW n \in INT
      PROVE  In(Behind(sort_files', at), n) + In(UnreadOf(inputs), n)
                 + Count(out_file.disk \o out_file.buf, n) + In(out_files, n) = input'[n]
  <2>1. In(Behind(sort_files', at), n) = In(Behind(sort_files, at), n) + Count(sorted, n)
    BY <1>4, <1>6, <1>7, InAppend
  <2>2. Count(sorted, n) = Count(buffer, n) /\ Count(sorted, n) \in Nat
    BY <1>2, <1>4, AtIsFinite DEF Sorts
  <2>3. input'[n] = input[n] + Count(buffer, n)
    BY <1>2
  <2>4. In(Behind(sort_files, at), n) + In(UnreadOf(inputs), n)
            + Count(out_file.disk \o out_file.buf, n) + In(out_files, n) = input[n]
    BY DEF LossInv, CountsAgree
  <2> HIDE DEF at
  <2> QED
    BY <2>1, <2>2, <2>3, <2>4, CountsAreNat DEF at
<1>9. CountsAgree'
  BY <1>3, <1>8 DEF CountsAgree
<1> QED
  BY <1>3, <1>9 DEF LossInv, RoundIsAt

(* A round starts with nothing made, and has nothing left when it ends.    *)
LEMMA StartRoundLoss == ASSUME Inv, LossInv, StartRound PROVE LossInv'
<1>1. /\ out_files' = out_files /\ cur_files_pos' = cur_files_pos /\ phase' = "merge"
      /\ UNCHANGED <<sort_files, inputs, out_file, input>>
  BY DEF StartRound, LossInv, RoundIsAt
<1> QED
  BY <1>1 DEF LossInv, CountsAgree, RoundIsAt

LEMMA EndRoundLoss == ASSUME Inv, LossInv, EndRound PROVE LossInv'
<1>1. /\ inputs = <<>> /\ cur_files_pos = Len(sort_files)
      /\ sort_files' = out_files /\ out_files' = <<>> /\ cur_files_pos' = 0
      /\ UNCHANGED <<inputs, out_file, input>>
  BY DEF EndRound
<1>2. out_files \in Seq(Seq(INT)) /\ Len(sort_files) \in Nat /\ Len(inputs) = 0
  BY <1>1 DEF Inv, TypeOK
<1>3. Behind(sort_files, cur_files_pos + Len(inputs)) = <<>>
  <2>1. SubSeq(sort_files, Len(sort_files) + 1, Len(sort_files)) = <<>>
    BY <1>2, SubSeqEmpty
  <2>2. cur_files_pos + Len(inputs) = Len(sort_files)
    BY <1>1, <1>2
  <2> QED
    BY <2>1, <2>2 DEF Behind
<1>4. Behind(out_files, 0 + Len(inputs)) = out_files
  <2>1. SubSeq(out_files, 1, Len(out_files)) = out_files
    BY <1>2, SubSeqFull
  <2>2. (0 + Len(inputs)) + 1 = 1
    BY <1>2
  <2> QED
    BY <2>1, <2>2 DEF Behind
<1>5. ASSUME NEW n \in INT
      PROVE  In(out_files, n) + In(UnreadOf(inputs), n)
                 + Count(out_file.disk \o out_file.buf, n) + In(<<>>, n) = input[n]
  <2>1. In(<<>>, n) + In(UnreadOf(inputs), n)
            + Count(out_file.disk \o out_file.buf, n) + In(out_files, n) = input[n]
    BY <1>3 DEF LossInv, CountsAgree
  <2>2. In(<<>>, n) = 0
    BY InEmpty
  <2> QED
    BY <2>1, <2>2, CountsAreNat
<1>6. CountsAgree'
  BY <1>1, <1>4, <1>5 DEF CountsAgree
<1>7. RoundIsAt'
  BY <1>1 DEF LossInv, RoundIsAt
<1> QED
  BY <1>6, <1>7 DEF LossInv

(* The files opened are the next of the round, unread as a whole.          *)
LEMMA OpenFilesLoss == ASSUME Inv, LossInv, OpenFiles PROVE LossInv'
<1> DEFINE k == MergeFilesNum
           pos == cur_files_pos
           taken == SubSeq(sort_files, pos + 1, pos + k)
<1>1. /\ phase = "merge" /\ inputs = <<>> /\ out_file' = Written
      /\ inputs' = [i \in 1 .. k |-> Opened(sort_files[pos + i])]
      /\ UNCHANGED <<phase, sort_files, out_files, cur_files_pos, input>>
      /\ pos # Len(sort_files)
  BY DEF OpenFiles
<1>2. /\ pos \in Nat /\ pos <= Len(sort_files) /\ sort_files \in Seq(Seq(INT))
      /\ Len(sort_files) \in Nat
      /\ \A i \in 1 .. Len(sort_files) : sort_files[i] \in Seq(INT)
  BY DEF Inv, TypeOK
<1>3. k \in Nat /\ pos + k <= Len(sort_files)
  BY <1>2, FileLimitIsNat DEF MergeFilesNum, Smaller
<1> HIDE DEF k, pos
<1>4. out_file = Written /\ out_file' = out_file
  BY <1>1 DEF LossInv, RoundIsAt
<1>5. \A i \in pos + 1 .. pos + k : sort_files[i] \in Seq(INT)
  BY <1>2, <1>3
<1>6. /\ taken \in Seq(Seq(INT)) /\ Len(taken) = k
      /\ \A i \in 1 .. k : taken[i] = sort_files[pos + i]
  BY <1>2, <1>3, NextFiles
<1>7. UnreadOf(inputs') = taken /\ Len(inputs') = k
  <2>1. DOMAIN inputs' = 1 .. k /\ Len(inputs') = k
    BY <1>1, <1>3
  <2>2. \A i \in 1 .. k : Unread(inputs'[i]) = sort_files[pos + i]
    <3> SUFFICES ASSUME NEW i \in 1 .. k PROVE Unread(inputs'[i]) = sort_files[pos + i]
      OBVIOUS
    <3>1. pos + i \in pos + 1 .. pos + k
      BY <1>2, <1>3
    <3>2. sort_files[pos + i] \in Seq(INT)
      BY <1>5, <3>1
    <3> QED
      BY <1>1, <3>2, OpenedIsReadable
  <2>3. UnreadOf(inputs') = [i \in 1 .. k |-> sort_files[pos + i]]
    BY <2>1, <2>2 DEF UnreadOf
  <2>4. taken = [i \in 1 .. k |-> sort_files[pos + i]]
    <3> HIDE DEF taken
    <3>1. taken = [i \in 1 .. k |-> taken[i]]
      BY <1>6, LenProperties
    <3> QED
      BY <1>6, <3>1
  <2> QED
    BY <2>1, <2>3, <2>4
<1>8. Behind(sort_files, pos) = taken \o Behind(sort_files, pos + k)
  <2>1. /\ pos + 1 \in 1 .. Len(sort_files) + 1
        /\ pos + k \in (pos + 1) - 1 .. Len(sort_files)
        /\ Len(sort_files) \in pos + k .. Len(sort_files)
    BY <1>2, <1>3
  <2>2. SubSeq(sort_files, pos + 1, pos + k) \o SubSeq(sort_files, (pos + k) + 1, Len(sort_files))
            = SubSeq(sort_files, pos + 1, Len(sort_files))
    BY <1>2, <2>1, ConcatAdjacentSubSeq
  <2> QED
    BY <2>2 DEF Behind
<1>9. Behind(sort_files, pos + k) \in Seq(Seq(INT))
  BY <1>2, <1>3, BehindIsFiles
<1> HIDE DEF taken
<1>10. ASSUME NEW n \in INT
       PROVE  In(Behind(sort_files, pos + k), n) + In(taken, n)
                  + Count(out_file.disk \o out_file.buf, n) + In(out_files, n) = input[n]
  <2>1. pos + Len(inputs) = pos
    BY <1>1, <1>2
  <2>2. In(Behind(sort_files, pos), n) + In(UnreadOf(inputs), n)
            + Count(out_file.disk \o out_file.buf, n) + In(out_files, n) = input[n]
    BY <2>1 DEF LossInv, CountsAgree, pos
  <2>3. In(UnreadOf(inputs), n) = 0
    <3>1. UnreadOf(inputs) = <<>>
      BY <1>1 DEF UnreadOf
    <3> QED
      BY <3>1, InEmpty
  <2>4. In(Behind(sort_files, pos), n) = In(taken, n) + In(Behind(sort_files, pos + k), n)
    BY <1>6, <1>8, <1>9, InJoined
  <2>5. In(taken, n) \in Nat /\ In(Behind(sort_files, pos + k), n) \in Nat
    BY <1>6, <1>9, InIsNat
  <2> QED
    BY <2>2, <2>3, <2>4, <2>5, CountsAreNat
<1>11. CountsAgree'
  BY <1>1, <1>4, <1>7, <1>10 DEF CountsAgree, pos
<1>12. RoundIsAt'
  BY <1>1, <1>4 DEF RoundIsAt
<1> QED
  BY <1>11, <1>12 DEF LossInv

(* The number written was the first of what its input had not read.        *)
LEMMA MergeNumLoss == ASSUME Inv, LossInv, MergeNum PROVE LossInv'
<1>1. PICK m \in DOMAIN inputs :
          /\ IsMin(m)
          /\ out_file' = WriteNum(out_file, inputs[m].candidate[1])
          /\ inputs' = [inputs EXCEPT ![m] = ReadNum(@)]
  BY DEF MergeNum
<1> DEFINE c == inputs[m].candidate[1]
           made == out_file.disk \o out_file.buf
           made1 == out_file'.disk \o out_file'.buf
           rest == inputs[m].buf \o inputs[m].disk
           ss == UnreadOf(inputs)
           tt == UnreadOf(inputs')
<1>2. phase = "merge" /\ UNCHANGED <<phase, sort_files, out_files, cur_files_pos, input>>
  BY DEF MergeNum
<1>3. /\ inputs \in Seq(InputFile) /\ Len(inputs) \in Nat /\ DOMAIN inputs = 1 .. Len(inputs)
      /\ \A i \in DOMAIN inputs : inputs[i] \in InputFile /\ Readable(inputs[i])
      /\ out_file \in [disk : Seq(INT), buf : Seq(INT)] /\ Len(out_file.buf) <= B
  BY DEF Inv, TypeOK, InputsAreReadable, MergeIsAt
<1>4. ~ inputs[m].is_ended /\ Len(inputs[m].buf) <= B
  BY <1>1, <1>3 DEF IsMin, Readable
<1>5. /\ c \in INT /\ rest \in Seq(INT) /\ Unread(inputs[m]) = <<c>> \o rest
  BY <1>3, <1>4, WhatIsUnread
<1>6. made \in Seq(INT) /\ <<c>> \in Seq(INT)
  BY <1>3, <1>5, ConcatProperties
<1>7. made1 = made \o <<c>>
  BY <1>1, <1>3, <1>5, NumIsWritten
<1>8. Readable(ReadNum(inputs[m])) /\ Unread(ReadNum(inputs[m])) = rest
  BY <1>3, <1>4, NumIsRead
<1>9. /\ inputs' \in Seq(InputFile) /\ Len(inputs') = Len(inputs)
      /\ DOMAIN inputs' = DOMAIN inputs
      /\ \A i \in DOMAIN inputs : inputs'[i] = IF i = m THEN ReadNum(inputs[m]) ELSE inputs[i]
  <2>1. ReadNum(inputs[m]) \in InputFile
    BY <1>8 DEF Readable
  <2> QED
    BY <1>1, <1>3, <2>1
<1>10. /\ ss \in Seq(Seq(INT)) /\ Len(ss) = Len(inputs)
       /\ \A i \in 1 .. Len(inputs) : ss[i] = Unread(inputs[i])
  BY <1>3, UnreadOfIsFiles
<1>11. /\ tt \in Seq(Seq(INT)) /\ Len(tt) = Len(inputs)
       /\ \A i \in 1 .. Len(inputs) : tt[i] = Unread(inputs'[i])
  <2>1. \A i \in DOMAIN inputs' : Readable(inputs'[i])
    BY <1>3, <1>8, <1>9
  <2> QED
    BY <1>9, <2>1, UnreadOfIsFiles
<1> HIDE DEF c, made, made1, rest, ss, tt
<1>12. ss[m] = <<c>> \o rest /\ tt[m] = rest /\ m \in 1 .. Len(ss)
       /\ \A i \in 1 .. Len(ss) : i # m => tt[i] = ss[i]
  BY <1>3, <1>5, <1>8, <1>9, <1>10, <1>11
<1>13. ASSUME NEW n \in INT
       PROVE  In(tt, n) + Count(made1, n) = In(ss, n) + Count(made, n)
  <2>1. In(ss, n) + Count(rest, n) = In(tt, n) + Count(<<c>> \o rest, n)
    <3>1. In(ss, n) + Count(tt[m], n) = In(tt, n) + Count(ss[m], n)
      BY <1>10, <1>11, <1>12, InReplaced
    <3> QED
      BY <1>12, <3>1
  <2>2. Count(<<c>> \o rest, n) = Count(<<c>>, n) + Count(rest, n)
    BY <1>5, <1>6, CountJoined
  <2>3. Count(made1, n) = Count(made, n) + Count(<<c>>, n)
    BY <1>6, <1>7, CountJoined
  <2>4. /\ In(ss, n) \in Nat /\ In(tt, n) \in Nat /\ Count(rest, n) \in Nat
        /\ Count(<<c>>, n) \in Nat /\ Count(made, n) \in Nat
    BY <1>5, <1>6, <1>10, <1>11, InIsNat, AtIsFinite
  <2> QED
    BY <2>1, <2>2, <2>3, <2>4
<1>14. ASSUME NEW n \in INT
       PROVE  In(Behind(sort_files, cur_files_pos + Len(inputs)), n) + In(tt, n)
                  + Count(made1, n) + In(out_files, n) = input[n]
  <2> DEFINE b == In(Behind(sort_files, cur_files_pos + Len(inputs)), n)
  <2>1. b + In(ss, n) + Count(made, n) + In(out_files, n) = input[n]
    BY DEF LossInv, CountsAgree, ss, made
  <2>2. /\ b \in Nat /\ In(ss, n) \in Nat /\ Count(made, n) \in Nat /\ In(out_files, n) \in Nat
    BY CountsAreNat DEF ss, made
  <2>3. In(tt, n) \in Nat /\ Count(made1, n) \in Nat
    <3>1. made1 \in Seq(INT)
      BY <1>6, <1>7, Joined
    <3> QED
      BY <1>11, <3>1, InIsNat, AtIsFinite
  <2> HIDE DEF b
  <2>4. b + In(tt, n) + Count(made1, n) + In(out_files, n) = input[n]
    BY <1>13, <2>1, <2>2, <2>3
  <2> QED
    BY <2>4 DEF b
<1>15. CountsAgree'
  BY <1>2, <1>9, <1>14 DEF CountsAgree, tt, made1
<1>16. RoundIsAt'
  <2>1. inputs' # <<>>
    BY <1>3, <1>9
  <2> QED
    BY <1>2, <2>1 DEF RoundIsAt
<1> QED
  BY <1>15, <1>16 DEF LossInv

(* Inputs that have ended hold nothing: all they had is in the output.     *)
LEMMA CloseFilesLoss == ASSUME Inv, LossInv, CloseFiles PROVE LossInv'
<1> DEFINE made == out_file.disk \o out_file.buf
           at == cur_files_pos + Len(inputs)
<1>1. /\ phase = "merge" /\ \A i \in DOMAIN inputs : inputs[i].is_ended
      /\ out_files' = Append(out_files, Flushed(out_file).disk)
      /\ out_file' = Written /\ inputs' = <<>> /\ cur_files_pos' = at
      /\ UNCHANGED <<phase, sort_files, input>>
  BY DEF CloseFiles, PosAfter
<1>2. /\ inputs \in Seq(InputFile) /\ DOMAIN inputs = 1 .. Len(inputs) /\ at \in Nat
      /\ \A i \in DOMAIN inputs : inputs[i] \in InputFile /\ Readable(inputs[i])
      /\ out_file.disk \in Seq(INT) /\ out_file.buf \in Seq(INT)
      /\ out_files \in Seq(Seq(INT))
  BY DEF Inv, TypeOK, InputsAreReadable
<1>3. made \in Seq(INT) /\ Flushed(out_file).disk = made
  BY <1>2, Joined DEF Flushed
<1> HIDE DEF made
<1>4. out_file'.disk \o out_file'.buf = <<>>
  BY <1>1 DEF Written
<1>5. at + Len(inputs') = at
  <2>1. Len(inputs') = 0
    BY <1>1
  <2> HIDE DEF at
  <2> QED
    BY <1>2, <2>1
<1>6. ASSUME NEW n \in INT PROVE In(UnreadOf(inputs), n) = 0
  <2>1. \A i \in 1 .. Len(inputs) : Unread(inputs[i]) = <<>>
    BY <1>1, <1>2, WhatIsUnread
  <2>2. /\ UnreadOf(inputs) \in Seq(Seq(INT)) /\ Len(UnreadOf(inputs)) = Len(inputs)
        /\ \A i \in 1 .. Len(inputs) : UnreadOf(inputs)[i] = Unread(inputs[i])
    BY <1>2, UnreadOfIsFiles
  <2> QED
    BY <2>1, <2>2, InAllEmpty
<1>7. UnreadOf(inputs') = <<>>
  BY <1>1 DEF UnreadOf
<1>8. ASSUME NEW n \in INT
      PROVE  In(Behind(sort_files, at), n) + In(<<>>, n) + Count(<<>>, n)
                 + In(Append(out_files, made), n) = input[n]
  <2>1. In(Behind(sort_files, at), n) + In(UnreadOf(inputs), n) + Count(made, n)
            + In(out_files, n) = input[n]
    BY DEF LossInv, CountsAgree, made
  <2>2. In(Append(out_files, made), n) = In(out_files, n) + Count(made, n)
    BY <1>2, <1>3, InAppend
  <2>3. In(<<>>, n) = 0 /\ Count(<<>>, n) = 0
    BY InEmpty, CountEmpty
  <2>4. In(Behind(sort_files, at), n) \in Nat /\ Count(made, n) \in Nat /\ In(out_files, n) \in Nat
    BY CountsAreNat DEF made
  <2> HIDE DEF at
  <2> QED
    BY <1>6, <2>1, <2>2, <2>3, <2>4
<1>9. CountsAgree'
  <2> HIDE DEF at
  <2> QED
    BY <1>1, <1>3, <1>4, <1>5, <1>7, <1>8 DEF CountsAgree
<1>10. RoundIsAt'
  BY <1>1 DEF RoundIsAt
<1> QED
  BY <1>9, <1>10 DEF LossInv

LEMMA NextLoss == Inv /\ LossInv /\ [Next]_vars => LossInv'
<1>1. ASSUME SplitEnds \/ Finish, LossInv PROVE LossInv'
  BY <1>1 DEF SplitEnds, Finish, LossInv, CountsAgree, RoundIsAt
<1>2. ASSUME UNCHANGED vars, LossInv PROVE LossInv'
  BY <1>2 DEF vars, LossInv, CountsAgree, RoundIsAt
<1> QED
  BY <1>1, <1>2, SplitLoss, StartRoundLoss, OpenFilesLoss, MergeNumLoss, CloseFilesLoss,
     EndRoundLoss DEF Next

(* However long the input and whatever the sizes of the buffer, the blocks *)
(* and the limit of files: no refill, flush, merge or round loses a number *)
(* or doubles one (external_sort.cpp:195-241, 343-399).                    *)
THEOREM LossTheorem == Spec => []NothingIsLost
<1>1. Inv /\ LossInv => NothingIsLost
  BY AgreeIsEnough DEF LossInv
<1> QED
  BY <1>1, InitLoss, NextLoss, InvAlways, PTL DEF Spec
=============================================================================
