-------------------------- MODULE StackCopyProofs --------------------------
(***************************************************************************)
(* Proofs about the copied stacks of 05-coroutines and 06-chanels, for any *)
(* number of routines and any depth.                                       *)
(***************************************************************************)
EXTENDS StackCopy, SequenceTheorems, TLAPS

LEMMA StacksAreSequences ==
    /\ \A s \in Stacks : s \in Seq(Value) /\ Len(s) \in 1 .. MaxDepth
    /\ \A s \in Seq(Value) : Len(s) \in 1 .. MaxDepth => s \in Stacks
<1>1. ASSUME NEW s \in Stacks PROVE s \in Seq(Value) /\ Len(s) \in 1 .. MaxDepth
  <2>1. PICK n \in 1 .. MaxDepth : s \in [1 .. n -> Value]
    BY DEF Stacks
  <2>2. n \in Nat
    BY StackAssumption
  <2>3. s \in Seq(Value) /\ Len(s) = n
    BY <2>1, <2>2
  <2> QED
    BY <2>3
<1>2. ASSUME NEW s \in Seq(Value), Len(s) \in 1 .. MaxDepth PROVE s \in Stacks
  <2>1. s \in [1 .. Len(s) -> Value]
    BY LenProperties
  <2> QED
    BY <1>2, <2>1 DEF Stacks
<1> QED
  BY <1>1, <1>2

LEMMA Concatenation ==
    ASSUME NEW s \in Seq(Value), NEW t \in Seq(Value)
    PROVE  /\ s \o t \in Seq(Value)
           /\ Len(s \o t) = Len(s) + Len(t)
           /\ \A i \in 1 .. Len(s) + Len(t) :
                  (s \o t)[i] = IF i <= Len(s) THEN s[i] ELSE t[i - Len(s)]
  BY ConcatProperties

(* Store keeps the whole stack, in a buffer that is large enough for it    *)
(* and no smaller than before.                                             *)
LEMMA StoreKeepsStack ==
    ASSUME stack \in Stacks, NEW old, old = <<>> \/ old \in Stacks
    PROVE  /\ Stored(old) \in [size : 1 .. MaxDepth, buffer : Stacks]
           /\ Stored(old).size = Len(stack)
           /\ Stored(old).size <= Len(Stored(old).buffer)
           /\ stack = [i \in 1 .. Stored(old).size |->
                           Stored(old).buffer[Stored(old).size + 1 - i]]
<1> DEFINE n == Len(stack)
           front == Reverse(stack)
           back == SubSeq(old, n + 1, Len(old))
<1>1. stack \in Seq(Value) /\ n \in 1 .. MaxDepth /\ n \in Nat /\ MaxDepth \in Nat
  BY StacksAreSequences, StackAssumption
<1>2. old \in Seq(Value) /\ Len(old) \in 0 .. MaxDepth /\ Len(old) \in Nat
  <2>1. CASE old = <<>>
    BY <1>1, <2>1
  <2>2. CASE old \in Stacks
    BY <1>1, <2>2, StacksAreSequences
  <2> QED
    BY <2>1, <2>2
<1>3. front \in Seq(Value) /\ Len(front) = n /\ \A i \in 1 .. n : front[i] = stack[n - i + 1]
  <2>1. front = [i \in 1 .. n |-> stack[n - i + 1]]
    BY DEF Reverse
  <2>2. \A i \in 1 .. n : n - i + 1 \in 1 .. n
    BY <1>1
  <2>3. \A i \in 1 .. n : stack[n - i + 1] \in Value
    BY <1>1, <2>2
  <2>4. front \in [1 .. n -> Value]
    BY <2>1, <2>3
  <2> QED
    BY <1>1, <2>1, <2>4
<1>4. /\ back \in Seq(Value)
      /\ Len(back) = IF n + 1 <= Len(old) THEN Len(old) - (n + 1) + 1 ELSE 0
  BY <1>1, <1>2, SubSeqProperties
<1>5. Stored(old) = [size |-> n, buffer |-> front \o back]
  BY DEF Stored
<1> HIDE DEF front, back
<1>6. /\ front \o back \in Seq(Value) /\ Len(front \o back) = n + Len(back)
      /\ \A i \in 1 .. n + Len(back) :
             (front \o back)[i] = IF i <= n THEN front[i] ELSE back[i - n]
  <2>1. /\ front \o back \in Seq(Value)
        /\ Len(front \o back) = Len(front) + Len(back)
        /\ \A i \in 1 .. Len(front) + Len(back) :
               (front \o back)[i] = IF i <= Len(front) THEN front[i] ELSE back[i - Len(front)]
    BY <1>3, <1>4, Concatenation
  <2> QED
    BY <1>3, <2>1
<1>7. Len(front \o back) \in 1 .. MaxDepth /\ n <= Len(front \o back)
  BY <1>1, <1>2, <1>4, <1>6
<1>8. front \o back \in Stacks
  BY <1>6, <1>7, StacksAreSequences
<1>9. stack = [i \in 1 .. n |-> (front \o back)[n + 1 - i]]
  <2>1. ASSUME NEW i \in 1 .. n PROVE (front \o back)[n + 1 - i] = stack[i]
    <3>1. n + 1 - i \in 1 .. n /\ n - (n + 1 - i) + 1 = i /\ n + 1 - i \in 1 .. n + Len(back)
      BY <1>1, <1>4, <1>2
    <3> QED
      BY <1>3, <1>6, <3>1
  <2>2. stack = [i \in 1 .. n |-> stack[i]]
    BY <1>1
  <2> QED
    BY <2>1, <2>2
<1> QED
  BY <1>1, <1>5, <1>7, <1>8, <1>9

Inv == TypeOK /\ BufferHoldsStack

(* Restore brings back a stack, and leaves bytes above StackBottom. *)
LEMMA RestoreTypes ==
    ASSUME above \in [Above -> Value],
           NEW ctx \in [size : 1 .. MaxDepth, buffer : Stacks], ctx.size <= Len(ctx.buffer),
           Restore(ctx)
    PROVE  stack' \in Stacks /\ above' \in [Above -> Value]
<1>1. /\ ctx.buffer \in Seq(Value) /\ Len(ctx.buffer) \in 1 .. MaxDepth
      /\ ctx.size \in 1 .. MaxDepth /\ MaxDepth \in Nat
  BY StacksAreSequences, StackAssumption
<1>2. \A i \in 1 .. Len(ctx.buffer) : ctx.buffer[i] \in Value
  BY <1>1
<1>3. stack' \in [1 .. ctx.size -> Value]
  <2>1. \A i \in 1 .. ctx.size : ctx.size + 1 - i \in 1 .. Len(ctx.buffer)
    BY <1>1
  <2> QED
    BY <1>2, <2>1 DEF Restore
<1>4. above' \in [Above -> Value]
  <2>1. \A i \in Above : ctx.size + i <= Len(ctx.buffer) => ctx.size + i \in 1 .. Len(ctx.buffer)
    BY <1>1 DEF Above
  <2> QED
    BY <1>2, <2>1 DEF Restore
<1> QED
  BY <1>1, <1>3, <1>4 DEF Stacks

LEMMA InitInv == Init => Inv
<1> SUFFICES ASSUME Init PROVE Inv
  OBVIOUS
<1>1. 1 \in 1 .. MaxDepth
  BY StackAssumption
<1>2. stack \in Stacks /\ Len(stack) = 1
  BY <1>1 DEF Init, Stacks
<1>3. TypeOK
  BY <1>1, <1>2 DEF Init, TypeOK
<1>4. BufferHoldsStack
  <2>1. [size |-> 1, buffer |-> stack] # Null
    BY <1>1, <1>2, StacksAreSequences, StackAssumption
  <2>2. \A r \in Routine : saved[r] # Null => saved[r] = [size |-> 1, buffer |-> stack]
    BY DEF Init
  <2>3. saved[cur_routine] # Null
    BY <2>1 DEF Init
  <2>4. ASSUME NEW r \in Routine, saved[r] # Null
        PROVE  saved[r].size <= Len(saved[r].buffer)
    <3>1. saved[r].size = 1 /\ saved[r].buffer = stack
      BY <2>2, <2>4
    <3>2. Len(saved[r].buffer) = 1
      BY <1>2, <3>1
    <3> QED
      BY <3>1, <3>2
  <2> QED
    BY <2>3, <2>4 DEF BufferHoldsStack
<1> QED
  BY <1>3, <1>4 DEF Inv

(* The running routine works on its stack. *)
LEMMA WorkInv ==
    ASSUME Inv, stack' \in Stacks, above' \in [Above -> Value],
           UNCHANGED <<cur_routine, saved>>
    PROVE  Inv'
  BY DEF Inv, TypeOK, BufferHoldsStack, Running

LEMMA CallInv == ASSUME Inv, NEW v \in Value, Call(v) PROVE stack' \in Stacks
<1>1. stack \in Seq(Value) /\ Len(stack) \in 1 .. MaxDepth /\ MaxDepth \in Nat
  BY StacksAreSequences, StackAssumption DEF Inv, TypeOK
<1>2. stack' \in Seq(Value) /\ Len(stack') = Len(stack) + 1 /\ Len(stack) < MaxDepth
  BY <1>1, AppendProperties DEF Call
<1>3. Len(stack') \in 1 .. MaxDepth
  BY <1>1, <1>2
<1> QED
  BY <1>2, <1>3, StacksAreSequences

LEMMA ReturnInv == ASSUME Inv, Return PROVE stack' \in Stacks
<1>1. /\ stack \in Seq(Value) /\ Len(stack) \in 1 .. MaxDepth /\ MaxDepth \in Nat
      /\ Len(stack) > 1 /\ stack' = SubSeq(stack, 1, Len(stack) - 1)
  BY StacksAreSequences, StackAssumption DEF Inv, TypeOK, Return
<1>2. \A i \in 1 .. Len(stack) - 1 : stack[i] \in Value
  BY <1>1
<1>3. stack' \in Seq(Value) /\ Len(stack') = Len(stack) - 1
  BY <1>1, <1>2, SubSeqProperties
<1>4. Len(stack') \in 1 .. MaxDepth
  BY <1>1, <1>3
<1> QED
  BY <1>3, <1>4, StacksAreSequences

LEMMA AssignInv == ASSUME Inv, NEW i \in 1 .. MaxDepth, NEW v \in Value, Assign(i, v)
                   PROVE  stack' \in Stacks
<1>1. PICK n \in 1 .. MaxDepth : stack \in [1 .. n -> Value]
  BY DEF Inv, TypeOK, Stacks
<1>2. stack' \in [1 .. n -> Value]
  BY <1>1 DEF Assign
<1> QED
  BY <1>2 DEF Stacks

(* A context that has been stored into, or freed, or taken as it is.       *)
LEMMA SavedInv ==
    ASSUME Inv, NEW r \in Routine, NEW ctx,
           ctx = Null \/ (ctx \in [size : 1 .. MaxDepth, buffer : Stacks]
                             /\ ctx.size <= Len(ctx.buffer)),
           saved' = [saved EXCEPT ![r] = ctx]
    PROVE  /\ saved' \in [Routine -> [size : 1 .. MaxDepth, buffer : Stacks] \cup {Null}]
           /\ \A s \in Routine : saved'[s] # Null => saved'[s].size <= Len(saved'[s].buffer)
           /\ saved'[r] = ctx
           /\ \A s \in Routine : s # r => saved'[s] = saved[s]
  BY DEF Inv, TypeOK, BufferHoldsStack

LEMMA StoredIsContext ==
    ASSUME Inv, NEW old, old = <<>> \/ old \in Stacks
    PROVE  /\ Stored(old) \in [size : 1 .. MaxDepth, buffer : Stacks]
           /\ Stored(old).size <= Len(Stored(old).buffer) /\ Stored(old) # Null
<1>1. /\ Stored(old) \in [size : 1 .. MaxDepth, buffer : Stacks]
      /\ Stored(old).size <= Len(Stored(old).buffer)
  BY StoreKeepsStack DEF Inv, TypeOK
<1>2. Stored(old) \in [size : 1 .. MaxDepth, buffer : Seq(Value)]
  BY <1>1, StacksAreSequences
<1> QED
  BY <1>1, <1>2, StackAssumption

LEMMA RunInv == ASSUME Inv, NEW r \in Routine, Run(r) PROVE Inv'
<1>1. /\ saved' = [saved EXCEPT ![r] = Stored(<<>>)] /\ saved[r] = Null
      /\ UNCHANGED <<stack, above, cur_routine>>
  BY DEF Run
<1>2. cur_routine # r
  BY <1>1 DEF Run, Inv, BufferHoldsStack
<1> QED
  BY <1>1, <1>2, StoredIsContext, SavedInv DEF Inv, TypeOK, BufferHoldsStack, Running

LEMMA SchedInv == ASSUME Inv, NEW r \in Routine, Sched(r) PROVE Inv'
<1>1. /\ cur_routine \in Routine /\ saved[cur_routine] # Null
      /\ saved[cur_routine] \in [size : 1 .. MaxDepth, buffer : Stacks]
  BY DEF Sched, Running, Inv, TypeOK, BufferHoldsStack
<1> DEFINE ctx == Stored(saved[cur_routine].buffer)
<1>2. /\ ctx \in [size : 1 .. MaxDepth, buffer : Stacks]
      /\ ctx.size <= Len(ctx.buffer) /\ ctx # Null
  BY <1>1, StoredIsContext
<1>3. saved' = [saved EXCEPT ![cur_routine] = ctx]
  BY DEF Sched
<1> HIDE DEF ctx
<1>4. /\ saved' \in [Routine -> [size : 1 .. MaxDepth, buffer : Stacks] \cup {Null}]
      /\ \A s \in Routine : saved'[s] # Null => saved'[s].size <= Len(saved'[s].buffer)
      /\ saved'[cur_routine] = ctx
      /\ \A s \in Routine : s # cur_routine => saved'[s] = saved[s]
  BY <1>1, <1>2, <1>3, SavedInv
<1>5. /\ saved'[r] # Null /\ saved'[r] \in [size : 1 .. MaxDepth, buffer : Stacks]
      /\ saved'[r].size <= Len(saved'[r].buffer) /\ Restore(saved'[r]) /\ cur_routine' = r
  BY <1>2, <1>4 DEF Sched
<1>6. stack' \in Stacks /\ above' \in [Above -> Value]
  BY <1>5, RestoreTypes DEF Inv, TypeOK
<1> QED
  BY <1>4, <1>5, <1>6 DEF Inv, TypeOK, BufferHoldsStack

LEMMA CompleteInv == ASSUME Inv, NEW next \in Routine, Complete(next) PROVE Inv'
<1>1. /\ cur_routine \in Routine /\ next # cur_routine /\ saved[next] # Null
      /\ saved' = [saved EXCEPT ![cur_routine] = Null]
      /\ Restore(saved[next]) /\ cur_routine' = next
  BY DEF Complete, Running, Inv, TypeOK
<1>2. /\ saved[next] \in [size : 1 .. MaxDepth, buffer : Stacks]
      /\ saved[next].size <= Len(saved[next].buffer)
  BY <1>1 DEF Inv, TypeOK, BufferHoldsStack
<1>3. /\ saved' \in [Routine -> [size : 1 .. MaxDepth, buffer : Stacks] \cup {Null}]
      /\ \A s \in Routine : saved'[s] # Null => saved'[s].size <= Len(saved'[s].buffer)
      /\ saved'[next] = saved[next]
  BY <1>1, SavedInv
<1>4. stack' \in Stacks /\ above' \in [Above -> Value]
  BY <1>1, <1>2, RestoreTypes DEF Inv, TypeOK
<1> QED
  BY <1>1, <1>3, <1>4 DEF Inv, TypeOK, BufferHoldsStack

LEMMA CompleteLastInv == ASSUME Inv, CompleteLast PROVE Inv'
<1>1. /\ cur_routine \in Routine /\ saved' = [saved EXCEPT ![cur_routine] = Null]
      /\ cur_routine' = Null /\ UNCHANGED <<stack, above>>
  BY DEF CompleteLast, Running, Inv, TypeOK
<1> QED
  BY <1>1, SavedInv DEF Inv, TypeOK, BufferHoldsStack, Running

LEMMA NextInv == Inv /\ [Next]_vars => Inv'
<1> SUFFICES ASSUME Inv, [Next]_vars PROVE Inv'
  OBVIOUS
<1>0. stack \in Stacks /\ above \in [Above -> Value]
  BY DEF Inv, TypeOK
<1>1. ASSUME NEW v \in Value, Call(v) PROVE Inv'
  BY <1>0, <1>1, CallInv, WorkInv DEF Call
<1>2. CASE Return
  BY <1>0, <1>2, ReturnInv, WorkInv DEF Return
<1>3. ASSUME NEW i \in 1 .. MaxDepth, NEW v \in Value, Assign(i, v) PROVE Inv'
  BY <1>0, <1>3, AssignInv, WorkInv DEF Assign
<1>4. ASSUME NEW i \in Above, NEW v \in Value, AssignAbove(i, v) PROVE Inv'
  BY <1>0, <1>4, WorkInv DEF AssignAbove
<1>5. ASSUME NEW r \in Routine, Run(r) \/ Sched(r) \/ Complete(r) PROVE Inv'
  BY <1>5, RunInv, SchedInv, CompleteInv
<1>6. CASE CompleteLast
  BY <1>6, CompleteLastInv
<1>7. CASE UNCHANGED vars
  BY <1>0, <1>7, WorkInv DEF vars
<1> QED
  BY <1>1, <1>2, <1>3, <1>4, <1>5, <1>6, <1>7 DEF Next

LEMMA InvAlways == Spec => []Inv
  BY InitInv, NextInv, PTL DEF Spec

(* What is copied between a stack and a buffer is whole frames: the stack, *)
(* the memory above it and every saved context keep their types            *)
(* (engine.cpp:8-41).                                                      *)
THEOREM TypeTheorem == Spec => []TypeOK
<1>1. Inv => TypeOK
  BY DEF Inv
<1> QED
  BY <1>1, InvAlways, PTL

(* Whatever the depths at which routines are suspended, the buffer of a    *)
(* context is large enough for the stack it holds (engine.cpp:21-28).      *)
THEOREM BufferTheorem == Spec => [](TypeOK /\ BufferHoldsStack)
<1>1. Inv => TypeOK /\ BufferHoldsStack
  BY DEF Inv
<1> QED
  BY <1>1, InvAlways, PTL

-----------------------------------------------------------------------------

Frames == [r \in Routine |-> FramesOf(r)]

(* A routine that has a context has a stack.                               *)
LEMMA FramesAreStacks ==
    ASSUME Inv, NEW r \in Routine, saved[r] # Null
    PROVE  FramesOf(r) \in Stacks /\ FramesOf(r) # Null
<1>1. /\ saved[r].size \in 1 .. MaxDepth /\ saved[r].buffer \in Stacks
      /\ saved[r].size <= Len(saved[r].buffer)
  BY DEF Inv, TypeOK, BufferHoldsStack
<1>2. saved[r].buffer \in Seq(Value) /\ MaxDepth \in Nat
  BY <1>1, StacksAreSequences, StackAssumption
<1>3. \A i \in 1 .. saved[r].size :
          saved[r].buffer[saved[r].size + 1 - i] \in Value
  <2>1. \A i \in 1 .. saved[r].size : saved[r].size + 1 - i \in 1 .. Len(saved[r].buffer)
    BY <1>1, <1>2
  <2> QED
    BY <1>2, <2>1
<1> DEFINE frames == [i \in 1 .. saved[r].size |-> saved[r].buffer[saved[r].size + 1 - i]]
<1>4. frames \in Stacks
  <2>1. frames \in [1 .. saved[r].size -> Value]
    BY <1>3
  <2> QED
    BY <1>1, <2>1 DEF Stacks
<1>5. FramesOf(r) \in Stacks
  BY <1>4 DEF FramesOf, Inv, TypeOK
<1> QED
  BY <1>5, StacksAreSequences, StackAssumption

LEMMA InitPrivate == Init => Private!Init
<1> SUFFICES ASSUME Init PROVE Private!Init
  OBVIOUS
<1>1. saved[cur_routine] # Null /\ cur_routine \in Routine
  BY InitInv, StackAssumption DEF Inv, BufferHoldsStack, Init, Running
<1>2. \A r \in Routine : FramesOf(r) = IF r = cur_routine THEN stack ELSE Null
  BY <1>1 DEF FramesOf, Init
<1>3. stack[1] \in Value /\ stack = <<stack[1]>>
  BY DEF Init
<1>4. Frames = [r \in Routine |-> IF r = cur_routine THEN <<stack[1]>> ELSE Null]
  BY <1>2, <1>3 DEF Frames
<1> QED
  BY <1>1, <1>3, <1>4 DEF Private!Init, Frames

(* The running routine is the only one to work on a stack, its own.        *)
LEMMA WorkPrivate ==
    ASSUME Inv, Running, stack' \in Stacks, UNCHANGED <<cur_routine, saved>>
    PROVE  Private!Work
<1>1. cur_routine \in Routine /\ saved[cur_routine] # Null
  BY DEF Inv, TypeOK, BufferHoldsStack, Running
<1>2. Frames' = [Frames EXCEPT ![cur_routine] = stack']
  BY <1>1 DEF Frames, FramesOf
<1> QED
  BY <1>1, <1>2 DEF Private!Work, Frames, Stacks, Running

LEMMA RunPrivate == ASSUME Inv, NEW r \in Routine, Run(r) PROVE Private!Spawn(r)
<1>1. /\ saved' = [saved EXCEPT ![r] = Stored(<<>>)] /\ saved[r] = Null
      /\ UNCHANGED <<stack, above, cur_routine>>
      /\ cur_routine \in Routine /\ saved[cur_routine] # Null /\ cur_routine # r
  BY DEF Run, Running, Inv, TypeOK, BufferHoldsStack
<1>2. Stored(<<>>) # Null
  BY StoredIsContext
<1>3. /\ saved'[r] = Stored(<<>>)
      /\ \A s \in Routine : s # r => saved'[s] = saved[s]
  BY <1>1 DEF Inv, TypeOK
<1>4. FramesOf(r)' = stack
  BY <1>1, <1>2, <1>3, StoreKeepsStack DEF FramesOf, Inv, TypeOK
<1>5. \A s \in Routine : s # r => FramesOf(s)' = FramesOf(s)
  BY <1>1, <1>3 DEF FramesOf
<1>6. Frames' = [Frames EXCEPT ![r] = Frames[cur_routine]]
  <2>1. Frames[cur_routine] = stack
    BY <1>1 DEF Frames, FramesOf
  <2> QED
    BY <1>4, <1>5, <2>1 DEF Frames
<1>7. Frames[r] = Null
  BY <1>1 DEF Frames, FramesOf
<1> QED
  BY <1>1, <1>6, <1>7 DEF Private!Spawn, Frames, Run, Running

LEMMA SchedPrivate == ASSUME Inv, NEW r \in Routine, Sched(r) PROVE Private!Switch(r)
<1>1. /\ cur_routine \in Routine /\ saved[cur_routine] # Null /\ saved[r] # Null
      /\ saved[cur_routine] \in [size : 1 .. MaxDepth, buffer : Stacks]
      /\ cur_routine' = r
  BY DEF Sched, Running, Inv, TypeOK, BufferHoldsStack
<1> DEFINE ctx == Stored(saved[cur_routine].buffer)
<1>2. /\ ctx # Null
      /\ stack = [i \in 1 .. ctx.size |-> ctx.buffer[ctx.size + 1 - i]]
  BY <1>1, StoredIsContext, StoreKeepsStack DEF Inv, TypeOK
<1>3. saved' = [saved EXCEPT ![cur_routine] = ctx]
  BY DEF Sched
<1> HIDE DEF ctx
<1>4. /\ saved'[cur_routine] = ctx
      /\ \A s \in Routine : s # cur_routine => saved'[s] = saved[s]
  BY <1>1, <1>3 DEF Inv, TypeOK
<1>5. stack' = [i \in 1 .. saved'[r].size |-> saved'[r].buffer[saved'[r].size + 1 - i]]
  BY DEF Sched, Restore
<1>6. ASSUME NEW s \in Routine PROVE FramesOf(s)' = FramesOf(s)
  <2>1. CASE s = cur_routine
    BY <1>1, <1>2, <1>4, <1>5, <2>1 DEF FramesOf
  <2>2. CASE s # cur_routine
    BY <1>1, <1>4, <1>5, <2>2 DEF FramesOf
  <2> QED
    BY <2>1, <2>2
<1>7. Frames' = Frames
  BY <1>6 DEF Frames
<1>8. Frames[r] # Null
  BY <1>1, FramesAreStacks DEF Frames
<1> QED
  BY <1>1, <1>7, <1>8 DEF Private!Switch, Frames, Sched, Running

LEMMA CompletePrivate ==
    ASSUME Inv, NEW next \in Routine, Complete(next) PROVE Private!Finish(next)
<1>1. /\ cur_routine \in Routine /\ next # cur_routine /\ saved[next] # Null
      /\ saved' = [saved EXCEPT ![cur_routine] = Null]
      /\ stack' = [i \in 1 .. saved[next].size |-> saved[next].buffer[saved[next].size + 1 - i]]
      /\ cur_routine' = next
  BY DEF Complete, Restore, Running, Inv, TypeOK
<1>2. /\ saved'[cur_routine] = Null
      /\ \A s \in Routine : s # cur_routine => saved'[s] = saved[s]
  BY <1>1 DEF Inv, TypeOK
<1>3. ASSUME NEW s \in Routine, s = cur_routine PROVE FramesOf(s)' = Null
  BY <1>2, <1>3 DEF FramesOf
<1>4. ASSUME NEW s \in Routine, s # cur_routine PROVE FramesOf(s)' = FramesOf(s)
  <2>1. CASE s = next
    BY <1>1, <1>2, <1>4, <2>1 DEF FramesOf
  <2>2. CASE s # next
    BY <1>1, <1>2, <1>4, <2>2 DEF FramesOf
  <2> QED
    BY <2>1, <2>2
<1>5. Frames' = [Frames EXCEPT ![cur_routine] = Null]
  BY <1>1, <1>3, <1>4 DEF Frames
<1>6. Frames'[next] # Null
  BY <1>1, <1>5, FramesAreStacks DEF Frames
<1> QED
  BY <1>1, <1>5, <1>6 DEF Private!Finish, Frames, Complete, Running

LEMMA CompleteLastPrivate == ASSUME Inv, CompleteLast PROVE Private!Finish(Null)
<1>1. /\ cur_routine \in Routine /\ cur_routine' = Null
      /\ saved' = [saved EXCEPT ![cur_routine] = Null]
      /\ \A r \in Routine : r # cur_routine => saved[r] = Null
  BY DEF CompleteLast, Running, Inv, TypeOK
<1>2. \A s \in Routine : saved'[s] = Null
  BY <1>1 DEF Inv, TypeOK
<1>3. Frames' = [Frames EXCEPT ![cur_routine] = Null]
  BY <1>1, <1>2 DEF Frames, FramesOf
<1> QED
  BY <1>1, <1>3 DEF Private!Finish, Frames, CompleteLast, Running

LEMMA NextPrivate == Inv /\ [Next]_vars => [Private!Next]_(Private!vars)
<1> SUFFICES ASSUME Inv, [Next]_vars PROVE [Private!Next]_(Private!vars)
  OBVIOUS
<1>0. stack \in Stacks
  BY DEF Inv, TypeOK
<1>1. ASSUME NEW v \in Value, Call(v) PROVE Private!Work
  BY <1>1, CallInv, WorkPrivate DEF Call
<1>2. CASE Return
  <2>1. Private!Work
    BY <1>2, ReturnInv, WorkPrivate DEF Return
  <2> QED
    BY <2>1 DEF Private!Next
<1>3. ASSUME NEW i \in 1 .. MaxDepth, NEW v \in Value, Assign(i, v) PROVE Private!Work
  BY <1>3, AssignInv, WorkPrivate DEF Assign
<1>4. ASSUME NEW i \in Above, NEW v \in Value, AssignAbove(i, v) PROVE Private!Work
  BY <1>0, <1>4, WorkPrivate DEF AssignAbove
<1>5. ASSUME NEW r \in Routine, Run(r) \/ Sched(r) \/ Complete(r) PROVE Private!Next
  <2>1. CASE Run(r)
    BY <2>1, RunPrivate DEF Private!Next
  <2>2. CASE Sched(r)
    BY <2>2, SchedPrivate DEF Private!Next
  <2>3. CASE Complete(r)
    BY <2>3, CompletePrivate DEF Private!Next
  <2> QED
    BY <1>5, <2>1, <2>2, <2>3
<1>6. CASE CompleteLast
  <2>1. Private!Finish(Null)
    BY <1>6, CompleteLastPrivate
  <2> QED
    BY <2>1 DEF Private!Next
<1>7. CASE UNCHANGED vars
  BY <1>7 DEF vars, Private!vars, FramesOf
<1> QED
  BY <1>1, <1>2, <1>3, <1>4, <1>5, <1>6, <1>7 DEF Next, Private!Next

(* A routine goes on with the stack it was suspended with: copying stacks  *)
(* to and from buffers that only grow implements a stack for each routine. *)
THEOREM StacksArePrivateTheorem == Spec => StacksArePrivate
<1>1. Spec => Private!Init
  BY InitPrivate DEF Spec
<1>2. Inv /\ [Next]_vars => [Private!Next]_(Private!vars)
  BY NextPrivate
<1>3. Spec => [][Private!Next]_(Private!vars)
  BY <1>2, InvAlways, PTL DEF Spec
<1> QED
  BY <1>1, <1>3, PTL DEF StacksArePrivate, Private!Spec
=============================================================================
