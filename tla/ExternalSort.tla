---------------------------- MODULE ExternalSort ----------------------------
(***************************************************************************)
(* The external sort of 03-external-sort.  split makes a sorted file of    *)
(* every S bytes of the input; merge makes files of up to file_limit of    *)
(* them, block by block through one buffer; rounds of it go on until one   *)
(* file is left.  Sizes are counted in numbers.                            *)
(*                                                                         *)
(* The program is sequential: an action is one read of split, one number   *)
(* of a merge, or what goes on between them.  The input is chosen as it is *)
(* read.  Input and output that fail end the program and are left out.     *)
(***************************************************************************)
EXTENDS Naturals, Sequences, FiniteSets, SequencesExt

CONSTANTS INT,                \* the numbers sorted
          S,                  \* the size of the buffer
          B,                  \* the size of a block
          OPEN_FILES_LIMIT,
          MaxRuns             \* bound on the length of the input, in units of S

(* At least two inputs and an output take part in a merge. *)
ASSUME ExternalSortAssumption ==
    /\ INT \subseteq Nat
    /\ S \in Nat /\ B \in Nat \ {0} /\ OPEN_FILES_LIMIT \in Nat
    /\ S \div B >= 3 /\ OPEN_FILES_LIMIT >= 3
    /\ MaxRuns \in Nat

VARIABLES phase,           \* split, rounds, merge or done
          at_end,          \* split has read all of the input
          sort_files,      \* the contents of the files, in the order of the vector
          out_files,       \* those the round has made
          cur_files_pos,   \* how many files the round is done with
          inputs,          \* the files being merged
          out_file,        \* the file being written
          input            \* history: how often each number was in the input

vars == <<phase, at_end, sort_files, out_files, cur_files_pos, inputs, out_file, input>>

Written == [disk |-> <<>>, buf |-> <<>>]

Init ==
    /\ phase = "split" /\ at_end = FALSE
    /\ sort_files = <<>> /\ out_files = <<>> /\ cur_files_pos = 0
    /\ inputs = <<>> /\ out_file = Written
    /\ input = [n \in INT |-> 0]

Count(s, n) == Cardinality({i \in DOMAIN s : s[i] = n})

Ascending(s) == \A i \in 1 .. Len(s) - 1 : s[i] <= s[i + 1]

(* qsort is external: the same numbers in ascending order. *)
Sorts(sorted, buffer) ==
    /\ Len(sorted) = Len(buffer) /\ Ascending(sorted)
    /\ \A n \in INT : Count(sorted, n) = Count(buffer, n)

-----------------------------------------------------------------------------
(* split *)

(* One read, which falls short of S at the end of the input. *)
Split ==
    /\ phase = "split" /\ ~ at_end
    /\ Len(sort_files) < MaxRuns
    /\ \E size \in 1 .. S : \E buffer, sorted \in [1 .. size -> INT] :
           /\ Sorts(sorted, buffer)
           /\ sort_files' = Append(sort_files, sorted)
           /\ input' = [n \in INT |-> input[n] + Count(buffer, n)]
           /\ at_end' = (size < S)
    /\ UNCHANGED <<phase, out_files, cur_files_pos, inputs, out_file>>

(* A read that returns nothing. *)
SplitEnds ==
    /\ phase = "split"
    /\ phase' = "rounds"
    /\ at_end' = TRUE
    /\ UNCHANGED <<sort_files, out_files, cur_files_pos, inputs, out_file, input>>

-----------------------------------------------------------------------------
(* TempFile *)

Smaller(m, n) == IF m <= n THEN m ELSE n

(* readNum: the next number, after another block when the last is used up. *)
ReadNum(file) ==
    LET size == Smaller(B, Len(file.disk))
        filled == IF file.buf # <<>> THEN file
                  ELSE [file EXCEPT !.buf = SubSeq(file.disk, 1, size),
                                    !.disk = SubSeq(@, size + 1, Len(@))]
    IN  IF filled.buf = <<>> THEN [filled EXCEPT !.is_ended = TRUE]
        ELSE [filled EXCEPT !.candidate = <<Head(filled.buf)>>, !.buf = Tail(@)]

(* open and set_buffer, and the first readNum. *)
Opened(data) == ReadNum([disk |-> data, buf |-> <<>>, candidate |-> <<>>, is_ended |-> FALSE])

(* Mutants: the write is forgotten; it goes to the start of the file. *)
NotFlushed(file) == [file EXCEPT !.buf = <<>>]
FlushedToStart(file) == [disk |-> file.buf \o file.disk, buf |-> <<>>]

Flushed(file) == [disk |-> file.disk \o file.buf, buf |-> <<>>]

(* Mutant: the buffer is taken to have room for one more. *)
WriteNumLate(file, num) ==
    LET room == IF Len(file.buf) > B THEN Flushed(file) ELSE file
    IN  [room EXCEPT !.buf = Append(@, num)]

WriteNum(file, num) ==
    LET room == IF Len(file.buf) = B THEN Flushed(file) ELSE file
    IN  [room EXCEPT !.buf = Append(@, num)]

-----------------------------------------------------------------------------
(* merge *)

StartRound ==
    /\ phase = "rounds"
    /\ Len(sort_files) # 1
    /\ phase' = "merge"
    /\ out_files' = <<>> /\ cur_files_pos' = 0
    /\ UNCHANGED <<at_end, sort_files, inputs, out_file, input>>

(* Mutants: the block of the output is forgotten; one block too many kept. *)
FileLimitAll == Smaller(S \div B, OPEN_FILES_LIMIT)
FileLimitLess == Smaller(S \div B, OPEN_FILES_LIMIT) - 2

file_limit == Smaller(S \div B, OPEN_FILES_LIMIT) - 1

MergeFilesNum == Smaller(Len(sort_files) - cur_files_pos, file_limit)

OpenFiles ==
    /\ phase = "merge" /\ inputs = <<>>
    /\ cur_files_pos # Len(sort_files)
    /\ inputs' = [i \in 1 .. MergeFilesNum |-> Opened(sort_files[cur_files_pos + i])]
    /\ out_file' = Written
    /\ UNCHANGED <<phase, at_end, sort_files, out_files, cur_files_pos, input>>

(* The first of the smallest candidates. *)
IsMin(min_pos) ==
    /\ ~ inputs[min_pos].is_ended
    /\ \A i \in DOMAIN inputs :
           ~ inputs[i].is_ended =>
               /\ inputs[min_pos].candidate[1] <= inputs[i].candidate[1]
               /\ i < min_pos => inputs[min_pos].candidate # inputs[i].candidate

MergeNum ==
    /\ phase = "merge"
    /\ \E min_pos \in DOMAIN inputs :
           /\ IsMin(min_pos)
           /\ out_file' = WriteNum(out_file, inputs[min_pos].candidate[1])
           /\ inputs' = [inputs EXCEPT ![min_pos] = ReadNum(@)]
    /\ UNCHANGED <<phase, at_end, sort_files, out_files, cur_files_pos, input>>

(* Mutant: as if every merge took the most files it may. *)
PosAfterLimit == cur_files_pos + file_limit

PosAfter == cur_files_pos + Len(inputs)

CloseFiles ==
    /\ phase = "merge" /\ inputs # <<>>
    /\ \A i \in DOMAIN inputs : inputs[i].is_ended
    /\ out_files' = Append(out_files, Flushed(out_file).disk)
    /\ out_file' = Written
    /\ cur_files_pos' = PosAfter
    /\ inputs' = <<>>
    /\ UNCHANGED <<phase, at_end, sort_files, input>>

EndRound ==
    /\ phase = "merge" /\ inputs = <<>>
    /\ cur_files_pos = Len(sort_files)
    /\ sort_files' = out_files
    /\ phase' = "rounds"
    /\ out_files' = <<>> /\ cur_files_pos' = 0
    /\ UNCHANGED <<at_end, inputs, out_file, input>>

(* link to out_file_name. *)
Finish ==
    /\ phase = "rounds"
    /\ Len(sort_files) = 1
    /\ phase' = "done"
    /\ UNCHANGED <<at_end, sort_files, out_files, cur_files_pos, inputs, out_file, input>>

-----------------------------------------------------------------------------

Next ==
    \/ Split \/ SplitEnds
    \/ StartRound \/ OpenFiles \/ MergeNum \/ CloseFiles \/ EndRound
    \/ Finish

(* One thread, which nothing blocks. *)
Spec == Init /\ [][Next]_vars /\ WF_vars(Next)

-----------------------------------------------------------------------------

InputFile ==
    [disk : Seq(INT), buf : Seq(INT), candidate : {<<>>} \cup {<<n>> : n \in INT}, is_ended : BOOLEAN]

TypeOK ==
    /\ phase \in {"split", "rounds", "merge", "done"}
    /\ at_end \in BOOLEAN
    /\ sort_files \in Seq(Seq(INT)) /\ out_files \in Seq(Seq(INT))
    /\ cur_files_pos \in 0 .. Len(sort_files)
    /\ inputs \in Seq(InputFile)
    /\ out_file \in [disk : Seq(INT), buf : Seq(INT)]
    /\ input \in [INT -> Nat]

(* The blocks of a merge fit into the one buffer, each into its place, and *)
(* no more files are open than may be: a block more and two of them would  *)
(* share memory (external_sort.cpp:312-337, 236-241).                      *)
BlocksFit ==
    inputs # <<>> =>
        /\ (Len(inputs) + 1) * B <= S
        /\ Len(inputs) + 1 <= OPEN_FILES_LIMIT
        /\ Len(out_file.buf) <= B
        /\ \A i \in DOMAIN inputs : Len(inputs[i].buf) <= B

Unread(file) == (IF file.is_ended THEN <<>> ELSE file.candidate) \o file.buf \o file.disk

(* Where the numbers are: in the files the round has yet to do, in those   *)
(* it is at, and in those it has made.                                     *)
Held ==
    FlattenSeq(SubSeq(sort_files, cur_files_pos + Len(inputs) + 1, Len(sort_files)))
    \o FlattenSeq([i \in DOMAIN inputs |-> Unread(inputs[i])])
    \o out_file.disk \o out_file.buf \o FlattenSeq(out_files)

(* At every moment each number of the input is in the files and buffers    *)
(* exactly as often as it was read: none is lost or doubled when a block   *)
(* is refilled or flushed, nor between rounds (external_sort.cpp:195-241,  *)
(* 343-399).                                                               *)
NothingIsLost == \A n \in INT : Count(Held, n) = input[n]

(* Every file is sorted at every moment, the one being written included,   *)
(* and nothing that has still to be read in the merge is smaller than what *)
(* it has written (external_sort.cpp:289, 354-386).                        *)
FilesAreSorted ==
    /\ \A i \in DOMAIN sort_files : Ascending(sort_files[i])
    /\ \A i \in DOMAIN out_files : Ascending(out_files[i])
    /\ \A i \in DOMAIN inputs : Ascending(out_file.disk \o out_file.buf \o Unread(inputs[i]))

(* The rounds come to an end with one file, unless the input was empty:    *)
(* then they go on for ever (external_sort.cpp:438-446).                   *)
SortEnds == (phase = "rounds" /\ sort_files # <<>>) ~> phase = "done"
=============================================================================
