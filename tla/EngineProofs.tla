---------------------------- MODULE EngineProofs ----------------------------
(***************************************************************************)
(* Proofs about the scheduler of 06-chanels, for any number of routines,   *)
(* channels, buffer sizes and request sizes.                               *)
(***************************************************************************)
EXTENDS EngineTermination, SequenceTheorems, TLAPS

(***************************************************************************)
(* The inductive invariant.  To the properties of Engine it adds that no   *)
(* context is twice in the run list, that the running routine is in it,    *)
(* and that only a live routine is in a call, on a channel that exists.    *)
(***************************************************************************)
AliveOnce == \A i, j \in DOMAIN alive : alive[i] = alive[j] => i = j

RunningIsAlive == phase = "inside" => cur_routine \in Routine /\ Contains(alive, cur_routine)

CallsAreLive ==
    \A r \in Routine : call[r] # Null => Contains(alive, r) /\ Open(call[r].cd)

NewDescriptorIsFree == \A cd \in Descriptor : Open(cd) => cd < chanel_id

Inv ==
    /\ TypeOK
    /\ NewDescriptorIsFree
    /\ AliveOnce
    /\ RunningIsAlive
    /\ CallsAreLive
    /\ NoLostWakeup
    /\ EntriesMatchCalls
    /\ DeadlockIsReal
    /\ CallerIsAlive
    /\ NothingIsLeft

-----------------------------------------------------------------------------
(* The run list *)

(* run and start put a new context at the head of the list. *)
LEMMA NewIsAlive ==
    ASSUME alive \in Seq(Routine), AliveOnce, NEW r \in Routine, ~ Contains(alive, r),
           alive' = <<r>> \o alive
    PROVE  /\ alive' \in Seq(Routine)
           /\ AliveOnce'
           /\ \A x : Contains(alive', x) <=> x = r \/ Contains(alive, x)
<1>1. /\ <<r>> \in Seq(Routine) /\ Len(<<r>>) = 1 /\ <<r>>[1] = r
      /\ Len(alive) \in Nat
  OBVIOUS
<1>2. /\ alive' \in Seq(Routine) /\ Len(alive') = 1 + Len(alive)
      /\ \A i \in 1 .. 1 + Len(alive) : alive'[i] = IF i <= 1 THEN <<r>>[i] ELSE alive[i - 1]
  BY <1>1, ConcatProperties
<1>3. alive'[1] = r /\ \A i \in 1 .. Len(alive) : alive'[i + 1] = alive[i]
  BY <1>1, <1>2
<1>4. \A i \in 1 .. Len(alive') : i = 1 \/ \E j \in 1 .. Len(alive) : i = j + 1
  <2>1. ASSUME NEW i \in 1 .. Len(alive'), i # 1
        PROVE  i - 1 \in 1 .. Len(alive) /\ i = (i - 1) + 1
    BY <1>1, <1>2, <2>1
  <2> QED
    BY <2>1
<1>5. AliveOnce'
  <2>1. DOMAIN alive' = 1 .. Len(alive') /\ DOMAIN alive = 1 .. Len(alive)
    BY <1>2
  <2>2. ASSUME NEW i \in 1 .. Len(alive'), NEW j \in 1 .. Len(alive'), alive'[i] = alive'[j]
        PROVE  i = j
    <3>1. CASE i = 1 /\ j = 1
      BY <3>1
    <3>2. ASSUME NEW m \in 1 .. Len(alive), m + 1 \in {i, j}, 1 \in {i, j} PROVE FALSE
      <4>1. alive[m] = r
        BY <1>1, <1>3, <2>2, <3>2
      <4> QED
        BY <4>1 DEF Contains
    <3>3. ASSUME NEW l \in 1 .. Len(alive), NEW m \in 1 .. Len(alive), i = l + 1, j = m + 1
          PROVE  i = j
      <4>1. alive[l] = alive[m]
        BY <1>3, <2>2, <3>3
      <4> QED
        BY <2>1, <3>3, <4>1 DEF AliveOnce
    <3> QED
      BY <1>4, <3>1, <3>2, <3>3
  <2> QED
    BY <2>1, <2>2 DEF AliveOnce
<1>6. ASSUME NEW x PROVE Contains(alive', x) <=> x = r \/ Contains(alive, x)
  <2>1. ASSUME Contains(alive', x) PROVE x = r \/ Contains(alive, x)
    BY <1>3, <1>4, <2>1 DEF Contains
  <2>2. ASSUME x = r PROVE Contains(alive', x)
    BY <1>1, <1>2, <1>3, <2>2 DEF Contains
  <2>3. ASSUME Contains(alive, x) PROVE Contains(alive', x)
    <3>1. PICK i \in 1 .. Len(alive) : alive[i] = x
      BY <2>3 DEF Contains
    <3>2. i + 1 \in 1 .. Len(alive') /\ alive'[i + 1] = x
      BY <1>1, <1>2, <1>3, <3>1
    <3> QED
      BY <3>2 DEF Contains
  <2> QED
    BY <2>1, <2>2, <2>3
<1> QED
  BY <1>2, <1>5, <1>6

(* A completed context leaves it, and no other does. *)
LEMMA OthersStayAlive ==
    ASSUME alive \in Seq(Routine), AliveOnce, Completes
    PROVE  /\ alive' \in Seq(Routine)
           /\ AliveOnce'
           /\ \A x : Contains(alive', x) <=> Contains(alive, x) /\ x # cur_routine
<1>1. PICK k \in 1 .. Len(alive) : alive[k] = cur_routine /\ alive' = RemoveAt(alive, k)
  BY DEF Completes
<1> DEFINE n == Len(alive)
           front == SubSeq(alive, 1, k - 1)
           back == SubSeq(alive, k + 1, n)
<1>2. n \in Nat /\ k \in Nat /\ k >= 1 /\ k <= n /\ \A i \in 1 .. n : alive[i] \in Routine
  OBVIOUS
<1>3. /\ front \in Seq(Routine) /\ Len(front) = k - 1
      /\ \A i \in 1 .. k - 1 : front[i] = alive[i]
  BY <1>2, SubSeqProperties
<1>4. /\ back \in Seq(Routine) /\ Len(back) = n - k
      /\ \A i \in 1 .. n - k : back[i] = alive[k + i]
  BY <1>2, SubSeqProperties
<1> HIDE DEF front, back
<1>5. /\ alive' \in Seq(Routine) /\ Len(alive') = n - 1
      /\ \A i \in 1 .. n - 1 : alive'[i] = IF i <= k - 1 THEN front[i] ELSE back[i - (k - 1)]
  <2>1. alive' = front \o back
    BY <1>1 DEF RemoveAt, front, back
  <2>2. /\ front \o back \in Seq(Routine)
        /\ Len(front \o back) = Len(front) + Len(back)
        /\ \A i \in 1 .. Len(front) + Len(back) :
               (front \o back)[i] = IF i <= Len(front) THEN front[i] ELSE back[i - Len(front)]
    BY <1>3, <1>4, ConcatProperties
  <2>3. Len(front) + Len(back) = n - 1
    BY <1>2, <1>3, <1>4
  <2> QED
    BY <1>3, <2>1, <2>2, <2>3
<1>6. \A i \in 1 .. n - 1 : alive'[i] = IF i < k THEN alive[i] ELSE alive[i + 1]
  <2> SUFFICES ASSUME NEW i \in 1 .. n - 1
               PROVE  alive'[i] = IF i < k THEN alive[i] ELSE alive[i + 1]
    OBVIOUS
  <2>1. CASE i < k
    <3>1. i <= k - 1 /\ i \in 1 .. k - 1
      BY <1>2, <2>1
    <3>2. alive'[i] = front[i]
      BY <1>5, <3>1
    <3>3. front[i] = alive[i]
      BY <1>3, <3>1
    <3> QED
      BY <2>1, <3>2, <3>3
  <2>2. CASE i >= k
    <3>1. i - (k - 1) \in 1 .. n - k /\ k + (i - (k - 1)) = i + 1
      BY <1>2, <2>2
    <3>2. back[i - (k - 1)] = alive[i + 1]
      BY <1>4, <3>1
    <3> QED
      BY <1>2, <1>5, <2>2, <3>2
  <2> QED
    BY <1>2, <2>1, <2>2
<1>7. AliveOnce'
  <2>1. DOMAIN alive' = 1 .. n - 1 /\ DOMAIN alive = 1 .. n
    BY <1>2, <1>5
  <2>2. ASSUME NEW i \in 1 .. n - 1, NEW j \in 1 .. n - 1, alive'[i] = alive'[j]
        PROVE  i = j
    <3> DEFINE old(m) == IF m < k THEN m ELSE m + 1
    <3>1. old(i) \in 1 .. n /\ old(j) \in 1 .. n
      BY <1>2
    <3>2. alive'[i] = alive[old(i)] /\ alive'[j] = alive[old(j)]
      BY <1>6
    <3>3. old(i) = old(j)
      BY <2>1, <2>2, <3>1, <3>2 DEF AliveOnce
    <3> QED
      BY <1>2, <3>3
  <2> QED
    BY <2>1, <2>2 DEF AliveOnce
<1>8. ASSUME NEW x PROVE Contains(alive', x) <=> Contains(alive, x) /\ x # cur_routine
  <2>1. ASSUME Contains(alive', x) PROVE Contains(alive, x) /\ x # cur_routine
    <3>1. PICK i \in 1 .. n - 1 : alive'[i] = x
      BY <1>5, <2>1 DEF Contains
    <3>2. PICK j \in 1 .. n : alive[j] = x /\ j # k
      BY <1>2, <1>6, <3>1
    <3> QED
      BY <1>1, <3>2 DEF Contains, AliveOnce
  <2>2. ASSUME Contains(alive, x), x # cur_routine PROVE Contains(alive', x)
    <3>1. PICK j \in 1 .. n : alive[j] = x /\ j # k
      BY <1>1, <2>2 DEF Contains
    <3>2. CASE j < k
      <4>1. j \in 1 .. n - 1 /\ alive'[j] = x
        BY <1>2, <1>6, <3>1, <3>2
      <4> QED
        BY <1>5, <4>1 DEF Contains
    <3>3. CASE j > k
      <4>1. j - 1 \in 1 .. n - 1 /\ alive'[j - 1] = x
        BY <1>2, <1>6, <3>1, <3>3
      <4> QED
        BY <1>5, <4>1 DEF Contains
    <3> QED
      BY <1>2, <3>1, <3>2, <3>3
  <2> QED
    BY <2>1, <2>2
<1> QED
  BY <1>5, <1>7, <1>8

-----------------------------------------------------------------------------
(* The inductive invariant *)

LEMMA InitInv == Init => Inv
<1> SUFFICES ASSUME Init PROVE Inv
  OBVIOUS
<1>1. TypeOK
  <2>1. alive \in Seq(Routine) /\ chanel_id \in 0 .. MaxChanels
    BY EngineAssumption DEF Init
  <2>2. \A cd \in Descriptor : ~ Open(cd)
    BY DEF Init, Open
  <2> QED
    BY <2>1, <2>2 DEF Init, TypeOK
<1>4. NewDescriptorIsFree /\ NothingIsLeft
  BY DEF Init, NewDescriptorIsFree, NothingIsLeft, Open
<1>2. AliveOnce
  BY DEF Init, AliveOnce
<1>3. /\ RunningIsAlive /\ CallsAreLive /\ NoLostWakeup /\ EntriesMatchCalls
      /\ DeadlockIsReal /\ CallerIsAlive
  BY DEF Init, RunningIsAlive, CallsAreLive, NoLostWakeup, EntriesMatchCalls,
         DeadlockIsReal, CallerIsAlive
<1> QED
  BY <1>1, <1>2, <1>3, <1>4 DEF Inv

(* A step that leaves calls, block table and channels alone: routines come *)
(* and go, control passes.                                                 *)
LEMMA ControlInv ==
    ASSUME Inv,
           UNCHANGED <<call, block_table, chanels>>,
           alive' \in Seq(Routine), AliveOnce',
           cur_routine' \in Routine \cup {Null},
           caller' \in [Routine -> Routine \cup {Null}],
           StackBottom' \in BOOLEAN,
           phase' \in {"outside", "inside"} \cup Halted,
           \A r \in Routine : call[r] # Null => Contains(alive', r),
           phase' = "inside" =>
               /\ cur_routine' \in Routine /\ Contains(alive', cur_routine')
               /\ caller'[cur_routine'] = Null \/ Contains(alive', caller'[cur_routine']),
           NothingIsLeft', DeadlockIsReal'
    PROVE  Inv'
<1>1. TypeOK' /\ NewDescriptorIsFree'
  BY DEF Inv, TypeOK, NewDescriptorIsFree, Open, chanels
<1>2. RunningIsAlive' /\ CallerIsAlive'
  BY DEF RunningIsAlive, CallerIsAlive
<1>3. CallsAreLive' /\ NoLostWakeup'
  BY DEF Inv, CallsAreLive, NoLostWakeup, Stuck, Open, Possible, chanels
<1>4. EntriesMatchCalls'
  BY DEF Inv, EntriesMatchCalls
<1> QED
  BY <1>1, <1>2, <1>3, <1>4 DEF Inv

(* ... control passes from the running routine to another live one. *)
LEMMA PassToInv ==
    ASSUME Inv, phase = "inside", NEW r \in Routine, Contains(alive, r), PassTo(r),
           UNCHANGED <<alive, call, block_table, chanels, StackBottom, phase>>
    PROVE  Inv'
<1>1. /\ cur_routine \in Routine /\ Contains(alive, cur_routine)
      /\ alive \in Seq(Routine) /\ caller \in [Routine -> Routine \cup {Null}]
      /\ StackBottom \in BOOLEAN
  BY DEF Inv, RunningIsAlive, TypeOK
<1>2. /\ cur_routine' = r /\ caller'[r] = cur_routine
      /\ caller' \in [Routine -> Routine \cup {Null}]
  BY <1>1 DEF PassTo
<1>3. AliveOnce'
  BY DEF Inv, AliveOnce
<1>4. \A s \in Routine : call[s] # Null => Contains(alive', s)
  BY DEF Inv, CallsAreLive
<1>5. NothingIsLeft' /\ DeadlockIsReal'
  BY DEF NothingIsLeft, DeadlockIsReal
<1> QED
  BY <1>1, <1>2, <1>3, <1>4, <1>5, ControlInv

(* Whoever sched(nullptr) picks is alive. *)
LEMMA PickedIsAlive ==
    ASSUME Inv, phase = "inside", NEW table, NEW r \in Routine, Picked(table, r)
    PROVE  Contains(alive, r)
<1>1. CASE r = caller[cur_routine] /\ CallerReady(table)
  BY <1>1 DEF Inv, CallerIsAlive, CallerReady
<1>2. CASE FirstReady(alive, table, cur_routine, r)
  BY <1>2 DEF FirstReady, Contains, Inv, TypeOK
<1>3. CASE r = cur_routine
  BY <1>3 DEF Inv, RunningIsAlive
<1> QED
  BY <1>1, <1>2, <1>3 DEF Picked

LEMMA YieldInv == ASSUME Inv, Yield PROVE Inv'
  BY PickedIsAlive, PassToInv DEF Yield, Idle

LEMMA SchedInv == ASSUME Inv, NEW r \in Routine, Sched(r) PROVE Inv'
  BY PassToInv DEF Sched, Idle

LEMMA RunInv == ASSUME Inv, NEW r \in Routine, Run(r) PROVE Inv'
<1>1. /\ alive' \in Seq(Routine) /\ AliveOnce'
      /\ \A x : Contains(alive', x) <=> x = r \/ Contains(alive, x)
  BY NewIsAlive DEF Run, Inv, TypeOK
<1>2. /\ cur_routine \in Routine /\ Contains(alive, cur_routine) /\ cur_routine # r
      /\ phase = "inside" /\ phase' = "inside"
  BY DEF Run, Idle, Inv, RunningIsAlive
<1>3. /\ caller' \in [Routine -> Routine \cup {Null}]
      /\ caller'[cur_routine] = caller[cur_routine]
      /\ cur_routine' = cur_routine /\ StackBottom' \in BOOLEAN
  BY <1>2 DEF Run, Inv, TypeOK
<1>4. caller[cur_routine] = Null \/ Contains(alive, caller[cur_routine])
  BY <1>2 DEF Inv, CallerIsAlive
<1>5. \A s \in Routine : call[s] # Null => Contains(alive', s)
  BY <1>1 DEF Inv, CallsAreLive
<1>6. NothingIsLeft' /\ DeadlockIsReal'
  BY <1>2 DEF NothingIsLeft, DeadlockIsReal
<1>7. UNCHANGED <<call, block_table, chanels>>
  BY DEF Run
<1> QED
  BY <1>1, <1>2, <1>3, <1>4, <1>5, <1>6, <1>7, ControlInv

LEMMA StartInv == ASSUME Inv, NEW r \in Routine, Start(r) PROVE Inv'
<1>1. /\ alive' \in Seq(Routine) /\ AliveOnce'
      /\ \A x : Contains(alive', x) <=> x = r \/ Contains(alive, x)
  BY NewIsAlive DEF Start, Inv, TypeOK
<1>2. /\ caller' \in [Routine -> Routine \cup {Null}] /\ caller'[r] = Null
      /\ cur_routine' = r /\ phase' = "inside" /\ StackBottom' \in BOOLEAN
  BY DEF Start, Inv, TypeOK
<1>3. \A s \in Routine : call[s] # Null => Contains(alive', s)
  BY <1>1 DEF Inv, CallsAreLive
<1>4. NothingIsLeft' /\ DeadlockIsReal'
  BY <1>2 DEF NothingIsLeft, DeadlockIsReal
<1>5. UNCHANGED <<call, block_table, chanels>>
  BY DEF Start
<1> QED
  BY <1>1, <1>2, <1>3, <1>4, <1>5, ControlInv

(* What the ways of completing have in common. *)
LEMMA CompletesInv ==
    ASSUME Inv, Completes
    PROVE  /\ cur_routine \in Routine /\ phase = "inside"
           /\ alive' \in Seq(Routine) /\ AliveOnce' /\ StackBottom' \in BOOLEAN
           /\ \A x : Contains(alive', x) <=> Contains(alive, x) /\ x # cur_routine
           /\ \A r \in Routine : call[r] # Null => Contains(alive', r)
           /\ UNCHANGED <<call, block_table, chanels>>
<1>1. cur_routine \in Routine /\ phase = "inside" /\ call[cur_routine] = Null
  BY DEF Completes, Idle, Inv, RunningIsAlive
<1>2. /\ alive' \in Seq(Routine) /\ AliveOnce'
      /\ \A x : Contains(alive', x) <=> Contains(alive, x) /\ x # cur_routine
  BY OthersStayAlive DEF Inv, TypeOK
<1>3. \A r \in Routine : call[r] # Null => Contains(alive', r)
  BY <1>1, <1>2 DEF Inv, CallsAreLive
<1>4. StackBottom' \in BOOLEAN /\ UNCHANGED <<call, block_table, chanels>>
  BY DEF Completes, Inv, TypeOK
<1> QED
  BY <1>1, <1>2, <1>3, <1>4

LEMMA CompletionInv == ASSUME Inv, Completion PROVE Inv'
<1> USE EngineAssumption
<1>0. Completes
  BY DEF Completion, CompleteToCaller, CompleteToFreed, CompleteToReady,
         CompleteToNobody, CompleteLast
<1>1. /\ cur_routine \in Routine /\ phase = "inside"
      /\ alive' \in Seq(Routine) /\ AliveOnce' /\ StackBottom' \in BOOLEAN
      /\ \A x : Contains(alive', x) <=> Contains(alive, x) /\ x # cur_routine
      /\ \A r \in Routine : call[r] # Null => Contains(alive', r)
      /\ UNCHANGED <<call, block_table, chanels>>
  BY <1>0, CompletesInv
<1>2. caller \in [Routine -> Routine \cup {Null}]
  BY DEF Inv, TypeOK
<1>3. CASE CompleteToCaller
  <2> DEFINE next == caller[cur_routine]
  <2>1. next \in Routine /\ Contains(alive', next)
    BY <1>1, <1>2, <1>3 DEF CompleteToCaller
  <2>2. /\ cur_routine' = next /\ phase' = "inside"
        /\ caller' \in [Routine -> Routine \cup {Null}] /\ caller'[next] = Null
    BY <1>1, <1>2, <1>3, <2>1 DEF CompleteToCaller
  <2>3. NothingIsLeft' /\ DeadlockIsReal'
    BY <2>2 DEF NothingIsLeft, DeadlockIsReal
  <2> QED
    BY <1>1, <2>1, <2>2, <2>3, ControlInv
<1>4. CASE CompleteToFreed
  <2>1. /\ cur_routine' = Null /\ phase' = "use_after_free"
        /\ caller' \in [Routine -> Routine \cup {Null}]
    BY <1>1, <1>2, <1>4 DEF CompleteToFreed
  <2>2. NothingIsLeft' /\ DeadlockIsReal'
    BY <2>1 DEF NothingIsLeft, DeadlockIsReal
  <2> QED
    BY <1>1, <2>1, <2>2, ControlInv DEF Halted
<1>5. CASE CompleteToReady
  <2>1. PICK r \in Routine :
            /\ FirstReady(alive', block_table, Null, r)
            /\ cur_routine' = r
            /\ caller' = [caller EXCEPT ![cur_routine] = Null, ![r] = Null]
    BY <1>5 DEF CompleteToReady
  <2>2. Contains(alive', r)
    BY <1>1, <2>1 DEF FirstReady, Contains
  <2>3. /\ phase' = "inside" /\ caller'[r] = Null
        /\ caller' \in [Routine -> Routine \cup {Null}]
    BY <1>1, <1>2, <1>5, <2>1 DEF CompleteToReady
  <2>4. NothingIsLeft' /\ DeadlockIsReal'
    BY <2>3 DEF NothingIsLeft, DeadlockIsReal
  <2> QED
    BY <1>1, <2>1, <2>2, <2>3, <2>4, ControlInv
<1>6. CASE CompleteToNobody
  <2>1. /\ cur_routine' = Null /\ phase' = "null_deref"
        /\ caller' \in [Routine -> Routine \cup {Null}]
        /\ NoneReady(alive', block_table, Null)
    BY <1>1, <1>2, <1>6 DEF CompleteToNobody
  <2>2. NothingIsLeft'
    BY <2>1 DEF NothingIsLeft
  <2>3. DeadlockIsReal'
    <3>1. ASSUME NEW i \in DOMAIN alive' PROVE Stuck(alive'[i])
      <4>1. alive'[i] \in Routine
        BY <1>1
      <4>2. block_table[alive'[i]] # Null
        BY <2>1, <4>1 DEF NoneReady
      <4> QED
        BY <4>1, <4>2 DEF Inv, NoLostWakeup
    <3>2. ASSUME NEW r \in Routine, Stuck(r) PROVE Stuck(r)'
      BY <1>1, <3>2 DEF Stuck, Open, Possible, chanels
    <3>3. \A i \in DOMAIN alive' : alive'[i] \in Routine
      BY <1>1
    <3>4. \A i \in DOMAIN alive' : Stuck(alive[i])'
      BY <1>1, <3>1, <3>3 DEF Stuck, Open, Possible, chanels
    <3> QED
      BY <3>4 DEF DeadlockIsReal
  <2> QED
    BY <1>1, <2>1, <2>2, <2>3, ControlInv DEF Halted
<1>7. CASE CompleteLast
  <2>1. /\ cur_routine' = Null /\ phase' = "outside" /\ alive' = <<>>
        /\ caller' \in [Routine -> Routine \cup {Null}]
    BY <1>1, <1>2, <1>7 DEF CompleteLast
  <2>2. \A x : ~ Contains(alive', x)
    BY <2>1 DEF Contains
  <2>3. \A r \in Routine : call[r] = Null /\ block_table[r] = Null
    BY <1>1, <2>2 DEF Inv, EntriesMatchCalls
  <2>4. NothingIsLeft' /\ DeadlockIsReal'
    BY <1>1, <2>1, <2>3 DEF NothingIsLeft, DeadlockIsReal
  <2> QED
    BY <1>1, <2>1, <2>4, ControlInv
<1> QED
  BY <1>3, <1>4, <1>5, <1>6, <1>7 DEF Completion

(* A successful call leaves a channel within its capacity, and can only    *)
(* help the calls of the opposite kind.                                    *)
LEMMA AfterIsChanel ==
    ASSUME NEW chanel \in Chanels, chanel.cur_size <= chanel.capacity,
           NEW req \in Request, Grants(chanel, req)
    PROVE  /\ After(chanel, req) \in Chanels
           /\ After(chanel, req).cur_size <= After(chanel, req).capacity
           /\ \A other \in Request :
                  other.op = req.op /\ ~ Grants(chanel, other)
                      => ~ Grants(After(chanel, req), other)
<1>1. /\ chanel.cur_size \in Nat /\ chanel.capacity \in Nat /\ req.size \in Nat
      /\ chanel.capacity \in Capacities
      /\ chanel = [capacity |-> chanel.capacity, cur_size |-> chanel.cur_size]
  BY EngineAssumption DEF Chanels, Request
<1> DEFINE size == IF req.op = "write" THEN chanel.cur_size + req.size
                   ELSE chanel.cur_size - Smaller(req.size, chanel.cur_size)
<1>2. After(chanel, req) = [capacity |-> chanel.capacity, cur_size |-> size]
  BY <1>1 DEF After
<1>3. /\ size \in Nat /\ size <= chanel.capacity
      /\ req.op = "write" => size >= chanel.cur_size
  BY <1>1 DEF Smaller, Grants
<1>4. ASSUME NEW other \in Request, other.op = req.op, ~ Grants(chanel, other)
      PROVE  ~ Grants(After(chanel, req), other)
  <2>1. other.size \in Nat
    BY EngineAssumption DEF Request
  <2>2. req.op = "write"
    BY <1>4 DEF Grants, Request
  <2> QED
    BY <1>1, <1>2, <1>3, <1>4, <2>1, <2>2 DEF Grants
<1> HIDE DEF size
<1> QED
  BY <1>1, <1>2, <1>3, <1>4 DEF Chanels

LEMMA TransferInv ==
    ASSUME Inv, NEW req \in Request, Open(req.cd), Transfer(req)
    PROVE  /\ chanel_table' \in [Descriptor -> Chanels \cup {Null}]
           /\ \A cd \in Descriptor : Open(cd)' =>
                  chanel_table'[cd].cur_size <= chanel_table'[cd].capacity
           /\ block_table' \in [Routine -> [cd : Descriptor, mode : {"read", "write"}]
                                               \cup {Null}]
           /\ \A cd \in Descriptor : Open(cd)' <=> Open(cd)
           /\ \A r \in Routine : block_table'[r] # Null =>
                  /\ block_table'[r] = block_table[r]
                  /\ ~ Grants(chanel_table'[call[r].cd], call[r])
<1> USE EngineAssumption
<1> DEFINE chanel == chanel_table[req.cd]
<1>1. /\ req.cd \in Descriptor /\ chanel \in Chanels
      /\ chanel.cur_size <= chanel.capacity /\ Grants(chanel, req)
  BY DEF Inv, TypeOK, Open, Request, Transfer, Possible
<1>2. /\ After(chanel, req) \in Chanels /\ After(chanel, req) # Null
      /\ After(chanel, req).cur_size <= After(chanel, req).capacity
  <2>1. Null \notin Chanels
    BY DEF Chanels
  <2> QED
    BY <1>1, <2>1, AfterIsChanel
<1>3. /\ chanel_table \in [Descriptor -> Chanels \cup {Null}]
      /\ chanel_table' = [chanel_table EXCEPT ![req.cd] = After(chanel, req)]
  BY DEF Inv, TypeOK, Transfer
<1>4. /\ chanel_table' \in [Descriptor -> Chanels \cup {Null}]
      /\ chanel_table'[req.cd] = After(chanel, req)
      /\ \A cd \in Descriptor : cd # req.cd => chanel_table'[cd] = chanel_table[cd]
  BY <1>1, <1>2, <1>3
<1>5. \A cd \in Descriptor : Open(cd)' <=> Open(cd)
  BY <1>1, <1>2, <1>4 DEF Open
<1>6. \A cd \in Descriptor : Open(cd)' =>
          chanel_table'[cd].cur_size <= chanel_table'[cd].capacity
  BY <1>2, <1>4, <1>5 DEF Inv, TypeOK
<1>7. /\ block_table' \in [Routine -> [cd : Descriptor, mode : {"read", "write"}] \cup {Null}]
      /\ \A r \in Routine : block_table'[r] # Null =>
             /\ block_table'[r] = block_table[r]
             /\ block_table[r] # [cd |-> req.cd, mode |-> Opposite(req.op)]
  BY DEF Inv, TypeOK, Transfer
<1>8. ASSUME NEW r \in Routine, block_table'[r] # Null
      PROVE  ~ Grants(chanel_table'[call[r].cd], call[r])
  <2>1. /\ call[r] # Null /\ call[r] \in Request /\ call[r].cd \in Descriptor
        /\ block_table[r] = Waits(call[r])
        /\ ~ Grants(chanel_table[call[r].cd], call[r])
    BY <1>7, <1>8 DEF Inv, TypeOK, NoLostWakeup, EntriesMatchCalls, Stuck, Possible, Request
  <2>2. CASE call[r].cd # req.cd
    BY <1>4, <2>1, <2>2
  <2>3. CASE call[r].cd = req.cd
    <3>1. call[r].op # Opposite(req.op)
      BY <1>7, <1>8, <2>1, <2>3 DEF Waits
    <3>2. call[r].op = req.op
      BY <2>1, <3>1 DEF Opposite, Request
    <3> QED
      BY <1>1, <1>4, <2>1, <2>3, <3>2, AfterIsChanel
  <2> QED
    BY <2>2, <2>3
<1> QED
  BY <1>4, <1>5, <1>6, <1>7, <1>8

LEMMA PerformInv == ASSUME Inv, NEW req \in Request, Perform(req) PROVE Inv'
<1>1. Open(req.cd) /\ Transfer(req) /\ req.cd \in Descriptor
  BY DEF Perform, Request
<1>2. UNCHANGED <<alive, cur_routine, caller, call, chanel_id, StackBottom, phase>>
  BY DEF Perform
<1>3. TypeOK' /\ NewDescriptorIsFree'
  BY <1>1, <1>2, TransferInv DEF Inv, TypeOK, NewDescriptorIsFree
<1>4. AliveOnce' /\ RunningIsAlive' /\ CallerIsAlive'
  BY <1>2 DEF Inv, AliveOnce, RunningIsAlive, CallerIsAlive
<1>5. CallsAreLive'
  <2>1. \A r \in Routine : call[r] # Null => call[r].cd \in Descriptor
    BY DEF Inv, TypeOK, Request
  <2>2. \A r \in Routine : call[r] # Null => Contains(alive, r) /\ Open(call[r].cd)
    BY DEF Inv, CallsAreLive
  <2>3. \A cd \in Descriptor : Open(cd)' <=> Open(cd)
    BY <1>1, TransferInv
  <2> QED
    BY <1>2, <2>1, <2>2, <2>3 DEF CallsAreLive, Open
<1>6. EntriesMatchCalls' /\ NoLostWakeup'
  <2>1. \A r \in Routine : block_table'[r] # Null =>
            /\ block_table'[r] = block_table[r]
            /\ ~ Grants(chanel_table'[call[r].cd], call[r])
    BY <1>1, TransferInv
  <2>2. EntriesMatchCalls'
    BY <1>2, <2>1 DEF Inv, EntriesMatchCalls
  <2>3. NoLostWakeup'
    BY <1>2, <1>5, <2>1, <2>2 DEF NoLostWakeup, EntriesMatchCalls, CallsAreLive, Stuck, Possible, Open
  <2> QED
    BY <2>2, <2>3
<1>7. DeadlockIsReal'
  <2>1. phase \in {"inside", "outside"}
    BY DEF Perform, Idle
  <2> QED
    BY <1>2, <2>1 DEF DeadlockIsReal
<1>8. NothingIsLeft'
  BY <1>1, <1>2, TransferInv DEF Inv, NothingIsLeft
<1> QED
  BY <1>3, <1>4, <1>5, <1>6, <1>7, <1>8 DEF Inv

LEMMA RetryInv == ASSUME Inv, Retry PROVE Inv'
<1> DEFINE req == call[cur_routine]
<1>1. /\ phase = "inside" /\ cur_routine \in Routine /\ req # Null /\ req \in Request
      /\ req.cd \in Descriptor /\ Open(req.cd) /\ Transfer(req) /\ Possible(req)
  BY DEF Retry, Resumed, Inv, RunningIsAlive, CallsAreLive, TypeOK, Request, Transfer
<1>2. /\ UNCHANGED <<alive, cur_routine, caller, chanel_id, StackBottom, phase>>
      /\ call' = [call EXCEPT ![cur_routine] = Null]
  BY DEF Retry
<1>3. TypeOK' /\ NewDescriptorIsFree'
  BY <1>1, <1>2, TransferInv DEF Inv, TypeOK, NewDescriptorIsFree
<1>4. AliveOnce' /\ RunningIsAlive' /\ CallerIsAlive'
  BY <1>2 DEF Inv, AliveOnce, RunningIsAlive, CallerIsAlive
<1>5. /\ call'[cur_routine] = Null
      /\ \A r \in Routine : r # cur_routine => call'[r] = call[r]
  BY <1>1, <1>2 DEF Inv, TypeOK
<1>6. CallsAreLive'
  <2>1. \A r \in Routine : call[r] # Null => call[r].cd \in Descriptor
    BY DEF Inv, TypeOK, Request
  <2>2. \A r \in Routine : call[r] # Null => Contains(alive, r) /\ Open(call[r].cd)
    BY DEF Inv, CallsAreLive
  <2>3. \A cd \in Descriptor : Open(cd)' <=> Open(cd)
    BY <1>1, TransferInv
  <2> QED
    BY <1>2, <1>5, <2>1, <2>2, <2>3 DEF CallsAreLive, Open
<1>7. EntriesMatchCalls' /\ NoLostWakeup'
  <2>1. \A r \in Routine : block_table'[r] # Null =>
            /\ block_table'[r] = block_table[r]
            /\ ~ Grants(chanel_table'[call[r].cd], call[r])
    BY <1>1, TransferInv
  <2>2. block_table[cur_routine] = Null
    BY <1>1 DEF Inv, NoLostWakeup, Stuck
  <2>3. EntriesMatchCalls'
    BY <1>2, <1>5, <2>1, <2>2 DEF Inv, EntriesMatchCalls
  <2>4. NoLostWakeup'
    BY <1>2, <1>5, <1>6, <2>1, <2>2, <2>3
       DEF NoLostWakeup, EntriesMatchCalls, CallsAreLive, Stuck, Possible, Open
  <2> QED
    BY <2>3, <2>4
<1>8. DeadlockIsReal' /\ NothingIsLeft'
  BY <1>1, <1>2 DEF DeadlockIsReal, NothingIsLeft
<1> QED
  BY <1>3, <1>4, <1>6, <1>7, <1>8 DEF Inv

(* A routine goes to sleep in a call that cannot be met.                   *)
LEMMA BlockInv ==
    ASSUME Inv, phase = "inside", NEW req \in Request, Open(req.cd),
           call[cur_routine] \in {Null, req}, Block(req),
           UNCHANGED <<alive, chanels, StackBottom>>
    PROVE  Inv'
<1> USE EngineAssumption
<1> DEFINE table == [block_table EXCEPT ![cur_routine] = Waits(req)]
<1>1. /\ cur_routine \in Routine /\ Contains(alive, cur_routine)
      /\ alive \in Seq(Routine) /\ Waits(req) # Null
      /\ Waits(req) \in [cd : Descriptor, mode : {"read", "write"}]
  BY DEF Inv, RunningIsAlive, TypeOK, Waits, Request
<1>2. /\ ~ Possible(req) /\ block_table' = table
      /\ call' = [call EXCEPT ![cur_routine] = req]
  BY DEF Block, Entered
<1>3. /\ call' \in [Routine -> Request \cup {Null}]
      /\ block_table' \in [Routine -> [cd : Descriptor, mode : {"read", "write"}] \cup {Null}]
      /\ call'[cur_routine] = req /\ block_table'[cur_routine] = Waits(req)
      /\ \A r \in Routine : r # cur_routine =>
             call'[r] = call[r] /\ block_table'[r] = block_table[r]
  BY <1>1, <1>2 DEF Inv, TypeOK
<1>4. req # Null
  OBVIOUS
<1>5. UNCHANGED <<alive, chanel_table, chanel_id, StackBottom>>
  BY DEF chanels
<1>6. CallsAreLive' /\ EntriesMatchCalls' /\ NoLostWakeup'
  <2>1. CallsAreLive'
    BY <1>1, <1>3, <1>5 DEF Inv, CallsAreLive, Open
  <2>2. EntriesMatchCalls'
    BY <1>1, <1>3, <1>4, <1>5 DEF Inv, EntriesMatchCalls
  <2>3. NoLostWakeup'
    BY <1>2, <1>3, <1>4, <1>5 DEF Inv, NoLostWakeup, Stuck, Possible, Open
  <2> QED
    BY <2>1, <2>2, <2>3
<1>7. AliveOnce' /\ NewDescriptorIsFree'
  BY <1>5 DEF Inv, AliveOnce, NewDescriptorIsFree, Open
<1>8. CASE \E r \in Routine : Picked(table, r) /\ PassTo(r) /\ UNCHANGED phase
  <2>1. PICK r \in Routine : Picked(table, r) /\ PassTo(r) /\ UNCHANGED phase
    BY <1>8
  <2>2. Contains(alive, r)
    BY <2>1, PickedIsAlive
  <2>3. /\ cur_routine' = r /\ caller' \in [Routine -> Routine \cup {Null}]
        /\ caller'[r] = cur_routine
    BY <1>1, <2>1 DEF PassTo, Inv, TypeOK
  <2>4. TypeOK'
    BY <1>3, <1>5, <2>1, <2>3 DEF Inv, TypeOK, Open
  <2>5. RunningIsAlive' /\ CallerIsAlive'
    BY <1>1, <1>5, <2>1, <2>2, <2>3 DEF RunningIsAlive, CallerIsAlive
  <2>6. DeadlockIsReal' /\ NothingIsLeft'
    BY <2>1 DEF DeadlockIsReal, NothingIsLeft
  <2> QED
    BY <1>6, <1>7, <2>4, <2>5, <2>6 DEF Inv
<1>9. CASE /\ NobodyPicked(table)
           /\ phase' = "dead_lock" /\ UNCHANGED <<cur_routine, caller>>
  <2>1. TypeOK'
    BY <1>3, <1>5, <1>9 DEF Inv, TypeOK, Open, Halted
  <2>2. RunningIsAlive' /\ CallerIsAlive' /\ NothingIsLeft'
    BY <1>9 DEF RunningIsAlive, CallerIsAlive, NothingIsLeft
  <2>3. \A i \in DOMAIN alive : block_table'[alive[i]] # Null
    BY <1>1, <1>2, <1>3, <1>9 DEF NobodyPicked, NoneReady
  <2>4. \A i \in DOMAIN alive : alive[i] \in Routine
    BY <1>1
  <2>5. DeadlockIsReal'
    BY <1>5, <1>6, <2>3, <2>4 DEF DeadlockIsReal, NoLostWakeup, Stuck, Open, Possible
  <2> QED
    BY <1>6, <1>7, <2>1, <2>2, <2>5 DEF Inv
<1> QED
  BY <1>2, <1>8, <1>9 DEF Block, Entered

LEMMA WaitInv == ASSUME Inv, NEW req \in Request, Wait(req) PROVE Inv'
  BY BlockInv DEF Wait, Idle

LEMMA WaitAgainInv == ASSUME Inv, WaitAgain PROVE Inv'
<1> DEFINE req == call[cur_routine]
<1>1. phase = "inside" /\ req \in Request /\ Open(req.cd) /\ req \in {Null, req}
  BY DEF WaitAgain, Resumed, Inv, RunningIsAlive, CallsAreLive, TypeOK
<1>2. Block(req) /\ UNCHANGED <<alive, chanels, StackBottom>>
  BY DEF WaitAgain
<1> QED
  BY <1>1, <1>2, BlockInv

LEMMA GetChanelInv == ASSUME Inv, NEW buf_size \in Capacities, GetChanel(buf_size) PROVE Inv'
<1> USE EngineAssumption
<1> DEFINE new == [capacity |-> buf_size, cur_size |-> 0]
<1>1. /\ chanel_id \in Nat /\ chanel_id < MaxChanels /\ chanel_id \in Descriptor
      /\ ~ Open(chanel_id) /\ new \in Chanels /\ new # Null
      /\ new.cur_size <= new.capacity
  BY DEF GetChanel, Inv, TypeOK, NewDescriptorIsFree, Descriptor, Chanels
<1>2. /\ UNCHANGED <<alive, cur_routine, caller, call, block_table, StackBottom, phase>>
      /\ chanel_table' = [chanel_table EXCEPT ![chanel_id] = new]
      /\ chanel_id' = chanel_id + 1
  BY DEF GetChanel
<1>3. /\ chanel_table' \in [Descriptor -> Chanels \cup {Null}]
      /\ chanel_table'[chanel_id] = new
      /\ \A cd \in Descriptor : cd # chanel_id => chanel_table'[cd] = chanel_table[cd]
  BY <1>1, <1>2 DEF Inv, TypeOK
<1> HIDE DEF new
<1>4. \A cd \in Descriptor : Open(cd)' => 
          chanel_table'[cd].cur_size <= chanel_table'[cd].capacity
  BY <1>1, <1>3 DEF Inv, TypeOK, Open
<1>5. TypeOK'
  BY <1>1, <1>2, <1>3, <1>4 DEF Inv, TypeOK
<1>6. NewDescriptorIsFree'
  BY <1>1, <1>2, <1>3 DEF Inv, NewDescriptorIsFree, Open, Descriptor
<1>7. \A r \in Routine : call[r] # Null =>
          /\ Contains(alive, r) /\ Open(call[r].cd) /\ call[r].cd # chanel_id
          /\ call[r].cd \in Descriptor
  BY <1>1 DEF Inv, CallsAreLive, TypeOK, Request
<1>8. CallsAreLive' /\ NoLostWakeup' /\ EntriesMatchCalls'
  BY <1>2, <1>3, <1>7
     DEF Inv, CallsAreLive, NoLostWakeup, EntriesMatchCalls, Stuck, Open, Possible
<1>9. AliveOnce' /\ RunningIsAlive' /\ CallerIsAlive' /\ NothingIsLeft'
  BY <1>2 DEF Inv, AliveOnce, RunningIsAlive, CallerIsAlive, NothingIsLeft
<1>10. DeadlockIsReal'
  BY <1>2 DEF DeadlockIsReal, GetChanel, Idle
<1> QED
  BY <1>5, <1>6, <1>8, <1>9, <1>10 DEF Inv

LEMMA DeleteChanelInv == ASSUME Inv, NEW cd \in Descriptor, DeleteChanel(cd) PROVE Inv'
<1> USE EngineAssumption
<1>1. /\ UNCHANGED <<alive, cur_routine, caller, call, block_table, chanel_id,
                     StackBottom, phase>>
      /\ chanel_table' = [chanel_table EXCEPT ![cd] = Null]
      /\ \A r \in Routine : call[r] # Null => call[r].cd # cd
  BY DEF DeleteChanel
<1>2. /\ chanel_table' \in [Descriptor -> Chanels \cup {Null}]
      /\ chanel_table'[cd] = Null
      /\ \A other \in Descriptor : other # cd => chanel_table'[other] = chanel_table[other]
  BY <1>1 DEF Inv, TypeOK
<1>3. TypeOK' /\ NewDescriptorIsFree'
  BY <1>1, <1>2 DEF Inv, TypeOK, NewDescriptorIsFree, Open
<1>4. \A r \in Routine : call[r] # Null =>
          /\ Contains(alive, r) /\ Open(call[r].cd) /\ call[r].cd # cd
          /\ call[r].cd \in Descriptor
  BY <1>1 DEF Inv, CallsAreLive, TypeOK, Request
<1>5. CallsAreLive' /\ NoLostWakeup' /\ EntriesMatchCalls'
  BY <1>1, <1>2, <1>4
     DEF Inv, CallsAreLive, NoLostWakeup, EntriesMatchCalls, Stuck, Open, Possible
<1>6. AliveOnce' /\ RunningIsAlive' /\ CallerIsAlive' /\ NothingIsLeft'
  BY <1>1 DEF Inv, AliveOnce, RunningIsAlive, CallerIsAlive, NothingIsLeft
<1>7. DeadlockIsReal'
  BY <1>1 DEF DeadlockIsReal, DeleteChanel, Idle
<1> QED
  BY <1>3, <1>5, <1>6, <1>7 DEF Inv

LEMMA StutterInv == ASSUME Inv, UNCHANGED vars PROVE Inv'
<1>1. /\ TypeOK' /\ NewDescriptorIsFree' /\ AliveOnce' /\ RunningIsAlive'
      /\ CallsAreLive' /\ EntriesMatchCalls' /\ CallerIsAlive' /\ NothingIsLeft'
  BY DEF vars, chanels, Inv, TypeOK, NewDescriptorIsFree, AliveOnce, RunningIsAlive, CallsAreLive,
         EntriesMatchCalls, CallerIsAlive, NothingIsLeft, Open
<1>2. NoLostWakeup' /\ DeadlockIsReal'
  BY DEF vars, chanels, Inv, NoLostWakeup, DeadlockIsReal, Stuck, Open, Possible
<1> QED
  BY <1>1, <1>2 DEF Inv

LEMMA NextInv == Inv /\ [Next]_vars => Inv'
<1> SUFFICES ASSUME Inv, [Next]_vars PROVE Inv'
  OBVIOUS
<1>1. CASE \E r \in Routine : Start(r)
  BY <1>1, StartInv
<1>2. CASE RunTooEarly \/ Stopped \/ UNCHANGED vars
  BY <1>2, StutterInv DEF RunTooEarly, Stopped
<1>3. CASE LibraryCall
  <2>1. CASE Yield
    BY <2>1, YieldInv
  <2>2. CASE \E r \in Routine : Sched(r) \/ Run(r)
    BY <2>2, SchedInv, RunInv
  <2>3. CASE \E req \in Request : Perform(req) \/ Refuse(req) \/ Wait(req)
    BY <2>3, PerformInv, WaitInv, StutterInv DEF Refuse
  <2>4. CASE \E buf_size \in Capacities : GetChanel(buf_size)
    BY <2>4, GetChanelInv
  <2>5. CASE \E cd \in Descriptor : DeleteChanel(cd)
    BY <2>5, DeleteChanelInv
  <2> QED
    BY <1>3, <2>1, <2>2, <2>3, <2>4, <2>5 DEF LibraryCall
<1>4. CASE Retry \/ WaitAgain
  BY <1>4, RetryInv, WaitAgainInv
<1>5. CASE Completion
  BY <1>5, CompletionInv
<1> QED
  BY <1>1, <1>2, <1>3, <1>4, <1>5 DEF Next

LEMMA InvAlways == Spec => []Inv
  BY InitInv, NextInv, PTL DEF Spec

(* Every variable stays in its type, and no channel ever holds more than   *)
(* its buffer (engine.cpp:138, 165).                                       *)
THEOREM TypeTheorem == Spec => []TypeOK
<1>1. Inv => TypeOK
  BY DEF Inv
<1> QED
  BY <1>1, InvAlways, PTL

(* However many routines wait, on however many channels: a routine in the  *)
(* block table is alive, in the call its entry names, and that call cannot *)
(* go on (engine.cpp:197-256).                                             *)
THEOREM BlockTableTheorem == Spec => [](NoLostWakeup /\ EntriesMatchCalls)
<1>1. Inv => NoLostWakeup /\ EntriesMatchCalls
  BY DEF Inv
<1> QED
  BY <1>1, InvAlways, PTL

(* An entry of the block table is never left behind by a routine that went *)
(* on, completed or was resumed by a sched (engine.cpp:205-215, 237-246).  *)
THEOREM EntriesTheorem == Spec => []EntriesMatchCalls
<1>1. Inv => EntriesMatchCalls
  BY DEF Inv
<1> QED
  BY <1>1, InvAlways, PTL

(* A dead lock is reported, or a completing routine finds nobody, only     *)
(* when every live routine is in a call that cannot go on                  *)
(* (engine.cpp:108-111).                                                   *)
THEOREM DeadlockTheorem == Spec => []DeadlockIsReal
<1>1. Inv => DeadlockIsReal
  BY DEF Inv
<1> QED
  BY <1>1, InvAlways, PTL

(* The caller a completing routine hands over to is alive, or is the       *)
(* routine itself (engine.h:216-222).                                      *)
THEOREM CallerTheorem == Spec => []CallerIsAlive
<1>1. Inv => CallerIsAlive
  BY DEF Inv
<1> QED
  BY <1>1, InvAlways, PTL

(* Control never returns to a freed context other than the one that        *)
(* completes, and after start nothing of the section is left               *)
(* (engine.h:216-247).                                                     *)
THEOREM SectionTheorem == Spec => [](CallerIsAlive /\ NothingIsLeft)
<1>1. Inv => CallerIsAlive /\ NothingIsLeft
  BY DEF Inv
<1> QED
  BY <1>1, InvAlways, PTL

-----------------------------------------------------------------------------
(* The scheduler implements CoopSection: every step of Engine is a step of *)
(* CoopSection, or changes nothing that it sees.                           *)


LEMMA LiveIsAlive ==
    ASSUME NEW s \in Seq(Routine)
    PROVE  \A x : x \in ToSet(s) <=> Contains(s, x)
<1>1. DOMAIN s = 1 .. Len(s)
  OBVIOUS
<1> QED
  BY <1>1 DEF ToSet, Contains

LEMMA InitSection == Init => Section!Init
  BY DEF Init, Section!Init, ToSet

(* What a state that satisfies the invariant looks like to CoopSection. *)
LEMMA SeenInside ==
    ASSUME Inv, phase = "inside"
    PROVE  /\ cur_routine \in Routine /\ cur_routine \in ToSet(alive)
           /\ \A x : x \in ToSet(alive) <=> Contains(alive, x)
           /\ call \in [Routine -> Request \cup {Null}]
           /\ Idle => Section!Free
<1>1. cur_routine \in Routine /\ Contains(alive, cur_routine)
  BY DEF Inv, RunningIsAlive
<1>2. \A x : x \in ToSet(alive) <=> Contains(alive, x)
  BY LiveIsAlive DEF Inv, TypeOK
<1>3. Idle => Section!Free
  BY DEF Idle, Section!Free
<1> QED
  BY <1>1, <1>2, <1>3 DEF Inv, TypeOK

LEMMA StartSection ==
    ASSUME Inv, Inv', NEW r \in Routine, Start(r) PROVE Section!Enter(r)
<1>1. alive = <<>> /\ alive' = <<r>>
  BY DEF Start, Inv, NothingIsLeft
<1>2. ToSet(alive) = {} /\ ToSet(alive') = {r}
  BY <1>1 DEF ToSet
<1> QED
  BY <1>2 DEF Start, Section!Enter, chanels

LEMMA PassToSection ==
    ASSUME Inv, NEW r, Contains(alive, r), phase = "inside", cur_routine' = r,
           call[cur_routine] = Null \/ Section!Stuck(cur_routine),
           UNCHANGED <<alive, call, chanel_table, phase>>
    PROVE  Section!Switch(r)
<1>1. r \in ToSet(alive)
  BY SeenInside
<1> QED
  BY <1>1 DEF Section!Switch

LEMMA YieldSection ==
    ASSUME Inv, NEW r \in Routine, Picked(block_table, r), Yield, cur_routine' = r
    PROVE  Section!Switch(r)
  BY PickedIsAlive, PassToSection DEF Yield, Idle, chanels

LEMMA SchedSection == ASSUME Inv, NEW r \in Routine, Sched(r) PROVE Section!Switch(r)
  BY PassToSection DEF Sched, PassTo, Idle, chanels

LEMMA RunSection == ASSUME Inv, Inv', NEW r \in Routine, Run(r) PROVE Section!Spawn(r)
<1>1. phase = "inside" /\ phase' = "inside"
  BY DEF Run, Idle
<1>2. \A x : Contains(alive', x) <=> x = r \/ Contains(alive, x)
  BY NewIsAlive DEF Run, Inv, TypeOK
<1>3. /\ \A x : x \in ToSet(alive) <=> Contains(alive, x)
      /\ \A x : x \in ToSet(alive') <=> Contains(alive', x)
  BY LiveIsAlive DEF Inv, TypeOK
<1>4. ToSet(alive') = ToSet(alive) \cup {r} /\ r \notin ToSet(alive)
  BY <1>2, <1>3 DEF Run
<1> QED
  BY <1>1, <1>4, SeenInside DEF Run, Section!Spawn, chanels

LEMMA CompletionSection == ASSUME Inv, Inv', Completion PROVE Section!Finish
<1>0. Completes
  BY DEF Completion, CompleteToCaller, CompleteToFreed, CompleteToReady,
         CompleteToNobody, CompleteLast
<1>1. /\ cur_routine \in Routine /\ phase = "inside"
      /\ \A x : Contains(alive', x) <=> Contains(alive, x) /\ x # cur_routine
      /\ UNCHANGED <<call, block_table, chanels>>
  BY <1>0, CompletesInv
<1>2. /\ \A x : x \in ToSet(alive) <=> Contains(alive, x)
      /\ \A x : x \in ToSet(alive') <=> Contains(alive', x)
  BY LiveIsAlive DEF Inv, TypeOK
<1>3. ToSet(alive') = ToSet(alive) \ {cur_routine}
  BY <1>1, <1>2
<1>4. Section!Free
  BY <1>0, <1>1, SeenInside DEF Completes
<1>5. UNCHANGED <<call, chanel_table>>
  BY <1>1 DEF chanels
<1>6. CASE CompleteToCaller
  <2>1. cur_routine' \in ToSet(alive') /\ phase' = phase
    BY <1>2, <1>6 DEF CompleteToCaller
  <2> QED
    BY <1>3, <1>4, <1>5, <2>1 DEF Section!Finish
<1>7. CASE CompleteToFreed
  <2>1. cur_routine' = Null /\ phase' = "use_after_free"
    BY <1>7 DEF CompleteToFreed
  <2> QED
    BY <1>3, <1>4, <1>5, <2>1 DEF Section!Finish
<1>8. CASE CompleteToReady
  <2>1. phase' = "inside"
    BY <1>1, <1>8 DEF CompleteToReady
  <2>2. Contains(alive', cur_routine')
    BY <2>1 DEF Inv, RunningIsAlive
  <2> QED
    BY <1>1, <1>2, <1>3, <1>4, <1>5, <2>1, <2>2 DEF Section!Finish
<1>9. CASE CompleteToNobody
  <2>1. cur_routine' = Null /\ phase' = "null_deref"
    BY <1>9 DEF CompleteToNobody
  <2> QED
    BY <1>3, <1>4, <1>5, <2>1 DEF Section!Finish
<1>10. CASE CompleteLast
  <2>1. cur_routine' = Null /\ phase' = "outside" /\ alive' = <<>>
    BY <1>10 DEF CompleteLast
  <2>2. ToSet(alive') = {}
    BY <2>1 DEF ToSet
  <2> QED
    BY <1>3, <1>4, <1>5, <2>1, <2>2 DEF Section!Finish
<1> QED
  BY <1>6, <1>7, <1>8, <1>9, <1>10 DEF Completion

LEMMA PerformSection ==
    ASSUME Inv, NEW req \in Request, Perform(req) PROVE Section!Transfer(req)
<1>1. phase = "outside" \/ Section!Free
  BY SeenInside DEF Perform, Idle
<1>2. call' = [r \in Routine |-> IF r = cur_routine THEN Null ELSE call[r]]
  <2>1. call \in [Routine -> Request \cup {Null}] /\ call' = call
    BY DEF Perform, Inv, TypeOK
  <2>2. cur_routine \in Routine => call[cur_routine] = Null
    BY EngineAssumption DEF Perform, Idle, Inv, NothingIsLeft
  <2> QED
    BY <2>1, <2>2
<1> QED
  BY <1>1, <1>2 DEF Perform, Transfer, Possible, Open, Section!Transfer

LEMMA RetrySection ==
    ASSUME Inv, Retry PROVE \E req \in Request : Section!Transfer(req)
<1> DEFINE req == call[cur_routine]
<1>1. phase = "inside" /\ cur_routine \in Routine /\ req \in Request /\ Open(req.cd)
  BY DEF Retry, Resumed, Inv, RunningIsAlive, CallsAreLive, TypeOK
<1>2. call' = [r \in Routine |-> IF r = cur_routine THEN Null ELSE call[r]]
  BY <1>1 DEF Retry, Inv, TypeOK
<1>3. Section!Transfer(req)
  BY <1>1, <1>2 DEF Retry, Transfer, Possible, Open, Section!Transfer
<1> QED
  BY <1>1, <1>3

(* Going to sleep: a new call is Wait, one that is tried again is Switch,  *)
(* and either may be the Deadlock.                                         *)
LEMMA BlockSection ==
    ASSUME Inv, Inv', phase = "inside", NEW req \in Request, Open(req.cd),
           call[cur_routine] \in {Null, req}, Block(req),
           UNCHANGED <<alive, chanels>>
    PROVE  Section!Next
<1> DEFINE table == [block_table EXCEPT ![cur_routine] = Waits(req)]
<1>1. /\ cur_routine \in Routine /\ call \in [Routine -> Request \cup {Null}]
      /\ \A x : x \in ToSet(alive) <=> Contains(alive, x)
  BY SeenInside
<1>2. /\ ~ Possible(req) /\ call' = [call EXCEPT ![cur_routine] = req]
      /\ UNCHANGED <<alive, chanel_table>>
  BY DEF Block, Entered, chanels
<1>3. CASE \E r \in Routine : Picked(table, r) /\ PassTo(r) /\ UNCHANGED phase
  <2>1. PICK r \in Routine : Picked(table, r) /\ PassTo(r) /\ UNCHANGED phase
    BY <1>3
  <2>2. Contains(alive, r) /\ cur_routine' = r /\ r \in ToSet(alive) /\ phase' = "inside"
    BY <1>1, <2>1, PickedIsAlive DEF PassTo
  <2>3. CASE call[cur_routine] = Null
    <3>1. Section!Wait(req)
      BY <1>2, <2>2, <2>3 DEF Section!Wait, Section!Free, Open, Possible
    <3> QED
      BY <3>1 DEF Section!Next
  <2>4. CASE call[cur_routine] = req
    <3>1. call' = call /\ req # Null
      BY <1>1, <1>2, <2>4, EngineAssumption
    <3>2. Section!Stuck(cur_routine)
      BY <1>2, <2>4, <3>1 DEF Section!Stuck, Possible
    <3>3. Section!Switch(r)
      BY <1>2, <2>2, <3>1, <3>2, PassToSection
    <3> QED
      BY <3>3 DEF Section!Next
  <2> QED
    BY <2>3, <2>4
<1>4. CASE NobodyPicked(table) /\ phase' = "dead_lock" /\ UNCHANGED <<cur_routine, caller>>
  <2>1. \A r \in ToSet(alive') : Section!Stuck(r)'
    <3> SUFFICES ASSUME NEW r \in ToSet(alive') PROVE Section!Stuck(r)'
      OBVIOUS
    <3>1. \A i \in DOMAIN alive' :
              /\ call'[alive'[i]] # Null
              /\ ~ Grants(chanel_table'[call'[alive'[i]].cd], call'[alive'[i]])
      BY <1>4 DEF Inv, DeadlockIsReal, Stuck, Possible
    <3>2. PICK i \in DOMAIN alive' : alive'[i] = r
      BY DEF ToSet
    <3> QED
      BY <3>1, <3>2 DEF Section!Stuck
  <2>2. Section!Deadlock
    BY <1>1, <1>2, <1>4, <2>1 DEF Section!Deadlock, Open
  <2> QED
    BY <2>2 DEF Section!Next
<1> QED
  BY <1>3, <1>4 DEF Block, Entered

LEMMA GetChanelSection ==
    ASSUME Inv, NEW buf_size \in Capacities, GetChanel(buf_size)
    PROVE  \E cd \in Descriptor : Section!Open(cd)
<1>1. chanel_id \in Descriptor /\ chanel_table[chanel_id] = Null
  BY EngineAssumption DEF GetChanel, Inv, TypeOK, NewDescriptorIsFree, Descriptor, Open
<1>2. phase = "outside" \/ Section!Free
  BY SeenInside DEF GetChanel, Idle
<1>3. Section!Open(chanel_id)
  BY <1>1, <1>2 DEF GetChanel, Section!Open
<1> QED
  BY <1>1, <1>3

LEMMA DeleteChanelSection ==
    ASSUME Inv, NEW cd \in Descriptor, DeleteChanel(cd) PROVE Section!Close(cd)
<1>1. phase = "outside" \/ Section!Free
  BY SeenInside DEF DeleteChanel, Idle
<1> QED
  BY <1>1 DEF DeleteChanel, Section!Close

LEMMA NextSection == Inv /\ Inv' /\ [Next]_vars => [Section!Next]_(Section!vars)
<1> SUFFICES ASSUME Inv, Inv', [Next]_vars PROVE [Section!Next]_(Section!vars)
  OBVIOUS
<1>1. CASE \E r \in Routine : Start(r)
  BY <1>1, StartSection DEF Section!Next
<1>2. CASE UNCHANGED vars
  BY <1>2 DEF vars, chanels, Section!vars, ToSet
<1>3. CASE Yield
  <2>1. PICK r \in Routine : Picked(block_table, r) /\ PassTo(r)
    BY <1>3 DEF Yield
  <2>2. cur_routine' = r
    BY <2>1 DEF PassTo
  <2> QED
    BY <1>3, <2>1, <2>2, YieldSection DEF Section!Next
<1>4. CASE \E r \in Routine : Sched(r) \/ Run(r)
  BY <1>4, SchedSection, RunSection DEF Section!Next
<1>5. CASE \E req \in Request : Perform(req)
  BY <1>5, PerformSection DEF Section!Next
<1>6. CASE \E req \in Request : Wait(req)
  <2>1. PICK req \in Request : Wait(req)
    BY <1>6
  <2> QED
    BY <2>1, BlockSection DEF Wait, Idle
<1>7. CASE \E buf_size \in Capacities : GetChanel(buf_size)
  BY <1>7, GetChanelSection DEF Section!Next
<1>8. CASE \E cd \in Descriptor : DeleteChanel(cd)
  BY <1>8, DeleteChanelSection DEF Section!Next
<1>9. CASE Retry
  BY <1>9, RetrySection DEF Section!Next
<1>10. CASE WaitAgain
  <2> DEFINE req == call[cur_routine]
  <2>1. phase = "inside" /\ req \in Request /\ Open(req.cd) /\ req \in {Null, req}
    BY <1>10 DEF WaitAgain, Resumed, Inv, RunningIsAlive, CallsAreLive, TypeOK
  <2> QED
    BY <1>10, <2>1, BlockSection DEF WaitAgain
<1>11. CASE Completion
  BY <1>11, CompletionSection DEF Section!Next
<1> QED
  BY <1>1, <1>2, <1>3, <1>4, <1>5, <1>6, <1>7, <1>8, <1>9, <1>10, <1>11
     DEF Next, LibraryCall, RunTooEarly, Stopped, Refuse

(* The scheduler keeps the promise of CoopSection: a blocking call ends    *)
(* when and only when its channel lets it, start returns only when every   *)
(* routine has completed, a dead lock is reported only when nobody can go  *)
(* on (engine.h:128-156).                                                  *)
THEOREM KeepsPromiseTheorem == Spec => KeepsPromise
  BY InitSection, InvAlways, NextSection, PTL DEF Spec, KeepsPromise, Section!Spec

-----------------------------------------------------------------------------
(* The budget takes steps away and adds none: what is proved of Spec holds *)
(* of the program with the budget, too (engine.h:128-265).                 *)
THEOREM BudgetTheorem == TerminationSpec => Spec
<1>1. BudgetInit => Init
  BY DEF BudgetInit
<1>2. [BudgetNext]_budgetVars => [Next]_vars
  BY DEF BudgetNext, Unasked, Asked, Around, Next, budgetVars
<1> QED
  BY <1>1, <1>2, PTL DEF TerminationSpec, Spec
=============================================================================
