--------------------------- MODULE EpollChatProofs ---------------------------
(***************************************************************************)
(* Proofs about the chat server of 04-epoll, for any number of             *)
(* descriptors, connections and messages.                                  *)
(***************************************************************************)
EXTENDS EpollChat, InductionLemmas

(***************************************************************************)
(* The inductive invariant.  To the properties of EpollChat it adds the    *)
(* types of the maps and that the server's socket only reports EPOLLIN.    *)
(***************************************************************************)
Maps ==
    /\ clients_sockets \in [Fd -> Seq(Task) \cup {None, Moved}]
    /\ inbox \in [Fd -> Seq(Messages)]
    /\ batch \subseteq [fd : Fd \cup {Server}, flags : SUBSET {"in", "out"}]
    /\ connections \in backlog .. MaxConnections

ServerReportsIn == \A event \in batch : event.fd = Server => event.flags = {"in"}

Inv ==
    /\ TypeOK
    /\ Maps
    /\ ServerReportsIn
    /\ ArmedIffQueued
    /\ EventsAreCurrent
    /\ RegisteredAreClients

-----------------------------------------------------------------------------
(* Queues *)

LEMMA NewTask == ASSUME NEW m \in Messages PROVE WriteTask(m) \in Task
  BY DEF WriteTask, Task

LEMMA QueueIsClient == ASSUME NEW q \in Seq(Task) PROVE q \notin {None, Moved}
  BY MapAssumption

LEMMA TaskLength == ASSUME NEW task \in Task PROVE Len(task.buffer) \in Nat
<1>1. PICK m \in Messages : task.buffer = Copy(m)
  BY DEF Task
<1>2. m \in Seq(Byte)
  BY <1>1, ChatAssumption
<1>3. DOMAIN m = 1 .. Len(m) /\ Len(m) \in Nat
  BY <1>2
<1>4. Copy(m) \in Seq(Byte \cup {Nul})
  <2>1. \A i \in 1 .. Len(m) : m[i] \in Byte
    BY <1>2
  <2>2. Copy(m) \in [1 .. Len(m) -> Byte \cup {Nul}]
    BY <1>3, <2>1 DEF Copy
  <2> QED
    BY <1>3, <2>2, SeqDef
<1> QED
  BY <1>1, <1>4

(* What a write leaves of a queue is a queue. *)
LEMMA RestIsQueue ==
    ASSUME NEW q \in Seq(Task), q # <<>>,
           NEW n \in 1 .. Len(Head(q).buffer) - Head(q).offset
    PROVE  Rest(q, n) \in Seq(Task)
<1> DEFINE task == Head(q)
           cut == [task EXCEPT !.offset = @ + n]
<1>1. task \in Task /\ Tail(q) \in Seq(Task)
  OBVIOUS
<1>2. task.offset \in Nat /\ n \in Nat
  BY <1>1, TaskLength DEF Task
<1>3. cut \in Task
  BY <1>1, <1>2 DEF Task
<1>4. <<cut>> \o Tail(q) \in Seq(Task)
  <2>1. <<cut>> \in Seq(Task)
    BY <1>3
  <2> QED
    BY <1>1, <2>1, ConcatProperties
<1> QED
  BY <1>1, <1>4 DEF Rest

-----------------------------------------------------------------------------

LEMMA InitInv == Init => Inv
<1> SUFFICES ASSUME Init PROVE Inv
  OBVIOUS
<1> USE DEF Init
<1>1. \A fd \in Fd : ~ IsClient(fd)
  BY DEF IsClient
<1>2. TypeOK
  BY <1>1, ChatAssumption DEF TypeOK
<1>3. Maps
  BY ChatAssumption DEF Maps
<1>4. ServerReportsIn /\ EventsAreCurrent
  BY ChatAssumption DEF ServerReportsIn, EventsAreCurrent
<1>5. ArmedIffQueued /\ RegisteredAreClients
  BY <1>1 DEF ArmedIffQueued, Queued, RegisteredAreClients
<1> QED
  BY <1>2, <1>3, <1>4, <1>5 DEF Inv

(* What peers do changes no socket, and closes none. *)
LEMMA PeersInv == ASSUME Inv, Peers PROVE Inv'
<1>1. UNCHANGED server
  BY DEF Peers, Connect, Drain, Leave, Reset, Send
<1>2. \A fd \in Fd : conn[fd] # "closed" => conn'[fd] # "closed"
  BY DEF Inv, TypeOK, Peers, Connect, Drain, Leave, Reset, Send, kernel
<1>3. conn' \in [Fd -> {"closed", "open", "left", "reset"}]
  BY DEF Inv, TypeOK, Peers, Connect, Drain, Leave, Reset, Send, kernel
<1>4. full' \in [Fd -> BOOLEAN]
  BY DEF Inv, TypeOK, Peers, Connect, Drain, Leave, Reset, Send, kernel
<1>5. backlog' \in 0 .. MaxConnections /\ connections' \in backlog' .. MaxConnections
  BY ChatAssumption
     DEF Inv, TypeOK, Maps, Peers, Connect, Drain, Leave, Reset, Send, kernel
<1>6. inbox' \in [Fd -> Seq(Messages)]
  <2>1. ASSUME NEW fd \in Fd, NEW m \in Messages, Send(fd, m)
        PROVE  inbox' \in [Fd -> Seq(Messages)]
    <3>1. Append(inbox[fd], m) \in Seq(Messages)
      BY DEF Inv, Maps
    <3> QED
      BY <2>1, <3>1 DEF Inv, Maps, Send
  <2>2. CASE UNCHANGED inbox
    BY <2>2 DEF Inv, Maps
  <2> QED
    BY <2>1, <2>2 DEF Peers, Connect, Drain, Leave, Reset
<1> QED
  BY <1>1, <1>2, <1>3, <1>4, <1>5, <1>6
     DEF server, Inv, TypeOK, Maps, ServerReportsIn, ArmedIffQueued, Queued, IsClient,
         EventsAreCurrent, RegisteredAreClients

(* epoll_wait reports what sockets are registered for. *)
LEMMA EpollWaitInv == ASSUME Inv, EpollWait PROVE Inv'
<1> USE DEF Inv
<1>1. PICK flags \in [Ready -> SUBSET {"in", "out"}] :
          /\ \A fd \in Ready : flags[fd] \in Reported(fd)
          /\ batch' = {[fd |-> fd, flags |-> flags[fd]] : fd \in Ready}
                      \cup {[fd |-> s, flags |-> {"in"}] : s \in {s \in {Server} : backlog > 0}}
  BY DEF EpollWait
<1>2. \A event \in batch' :
          \/ event.fd \in Ready /\ event = [fd |-> event.fd, flags |-> flags[event.fd]]
          \/ event = [fd |-> Server, flags |-> {"in"}]
  BY <1>1
<1>3. Ready \subseteq Fd /\ Server \notin Ready
  BY ChatAssumption DEF Ready
<1>4. \A fd \in Ready : interest[fd] # {} /\ flags[fd] \subseteq interest[fd]
  BY <1>1, <1>3 DEF Ready, Reported
<1>5. UNCHANGED <<clients_sockets, current, running, interest, kernel, history>>
      /\ current = None /\ None \notin Fd
  BY ChatAssumption DEF EpollWait, Looping
<1>6. TypeOK' /\ Maps'
  <2>1. \A event \in batch' : event \in [fd : Fd \cup {Server}, flags : SUBSET {"in", "out"}]
    BY <1>1, <1>2, <1>3
  <2>2. \A event \in batch' : event.fd \in Fd \cup {Server} /\ event.flags \subseteq {"in", "out"}
    BY <2>1
  <2> QED
    BY <1>5, <2>1, <2>2 DEF TypeOK, Maps, IsClient, kernel
<1>7. ServerReportsIn'
  BY <1>2, <1>3 DEF ServerReportsIn
<1>8. (ArmedIffQueued /\ RegisteredAreClients)'
  BY <1>5 DEF ArmedIffQueued, RegisteredAreClients, Queued, IsClient, kernel
<1>9. EventsAreCurrent'
  <2>1. \A event \in batch' : event.fd \in Fd =>
            IsClient(event.fd) /\ ("out" \in event.flags => Queued(event.fd))
    <3> SUFFICES ASSUME NEW event \in batch', event.fd \in Fd
                 PROVE  IsClient(event.fd) /\ ("out" \in event.flags => Queued(event.fd))
      OBVIOUS
    <3>1. event.fd \in Ready /\ event.flags = flags[event.fd]
      BY <1>2, ChatAssumption
    <3> QED
      BY <1>4, <3>1 DEF RegisteredAreClients, ArmedIffQueued
  <2>2. \A e1, e2 \in batch' : e1.fd = e2.fd => e1 = e2
    BY <1>2, <1>3
  <2> QED
    BY <1>5, <2>1, <2>2 DEF EventsAreCurrent, Queued, IsClient
<1> QED
  BY <1>6, <1>7, <1>8, <1>9

(* An event leaves the batch: those that are left stay what they were. *)
LEMMA HandledInv ==
    ASSUME Inv, NEW event \in batch, batch' = batch \ {event}
    PROVE  /\ batch' \subseteq [fd : Fd \cup {Server}, flags : SUBSET {"in", "out"}]
           /\ \A e \in batch' : e.fd \in Fd \cup {Server} /\ e.flags \subseteq {"in", "out"}
           /\ ServerReportsIn'
           /\ \A e1, e2 \in batch' : e1.fd = e2.fd => e1 = e2
           /\ \A e \in batch' : e.fd # event.fd
           /\ \A e \in batch' : e.fd \in Fd =>
                  IsClient(e.fd) /\ ("out" \in e.flags => Queued(e.fd))
  BY DEF Inv, TypeOK, Maps, ServerReportsIn, EventsAreCurrent

LEMMA HandleInInv == ASSUME Inv, NEW event \in batch, HandleIn(event) PROVE Inv'
<1>1. batch' = batch \ {event} /\ current' = event.fd
      /\ UNCHANGED <<clients_sockets, running, interest, kernel, history>>
  BY DEF HandleIn
<1>2. event.fd \in Fd \cup {Server} /\ (event.fd \in Fd => IsClient(event.fd))
  BY DEF Inv, TypeOK, EventsAreCurrent
<1>3. TypeOK' /\ Maps'
  BY <1>1, <1>2, HandledInv DEF Inv, TypeOK, Maps, IsClient, kernel
<1>4. (ArmedIffQueued /\ RegisteredAreClients)'
  BY <1>1 DEF Inv, ArmedIffQueued, RegisteredAreClients, Queued, IsClient, kernel
<1>5. EventsAreCurrent'
  BY <1>1, <1>2, HandledInv DEF EventsAreCurrent, Queued, IsClient
<1> QED
  BY <1>1, <1>3, <1>4, <1>5, HandledInv DEF Inv

LEMMA HandleOutFailsInv == ASSUME Inv, NEW event \in batch, HandleOutFails(event) PROVE Inv'
<1>1. batch' = batch \ {event} /\ running' \in BOOLEAN
      /\ UNCHANGED <<clients_sockets, current, interest, kernel, history>>
      /\ current = None
  BY DEF HandleOutFails, Throw, Looping
<1>2. TypeOK' /\ Maps'
  BY <1>1, HandledInv DEF Inv, TypeOK, Maps, IsClient, kernel
<1>3. (ArmedIffQueued /\ RegisteredAreClients)'
  BY <1>1 DEF Inv, ArmedIffQueued, RegisteredAreClients, Queued, IsClient, kernel
<1>4. EventsAreCurrent'
  BY <1>1, HandledInv, ChatAssumption DEF EventsAreCurrent, Queued, IsClient
<1> QED
  BY <1>1, <1>2, <1>3, <1>4, HandledInv DEF Inv

(* A descriptor that is closed. *)
LEMMA EraseInv ==
    ASSUME Inv, NEW fd \in Fd, Erase(fd)
    PROVE  /\ clients_sockets' \in [Fd -> Seq(Task) \cup {None, Moved}]
           /\ interest' \in [Fd -> {{}, {"in"}, {"in", "out"}}]
           /\ conn' \in [Fd -> {"closed", "open", "left", "reset"}]
           /\ full' \in [Fd -> BOOLEAN]
           /\ inbox' \in [Fd -> Seq(Messages)]
           /\ UNCHANGED <<running, backlog, connections>>
           /\ (ArmedIffQueued /\ RegisteredAreClients)'
           /\ \A other \in Fd \ {fd} :
                  (IsClient(other) => IsClient(other)') /\ (Queued(other) => Queued(other)')
<1> USE DEF Erase, Inv
<1>1. /\ clients_sockets' \in [Fd -> Seq(Task) \cup {None, Moved}]
      /\ inbox' \in [Fd -> Seq(Messages)]
      /\ interest' \in [Fd -> {{}, {"in"}, {"in", "out"}}]
      /\ conn' \in [Fd -> {"closed", "open", "left", "reset"}]
      /\ full' \in [Fd -> BOOLEAN]
  <2>1. clients_sockets' \in [Fd -> Seq(Task) \cup {None, Moved}]
    BY DEF Maps
  <2>2. inbox' \in [Fd -> Seq(Messages)]
    BY DEF Maps
  <2>3. interest' \in [Fd -> {{}, {"in"}, {"in", "out"}}]
    BY DEF TypeOK
  <2>4. conn' \in [Fd -> {"closed", "open", "left", "reset"}] /\ full' \in [Fd -> BOOLEAN]
    BY DEF TypeOK
  <2> QED
    BY <2>1, <2>2, <2>3, <2>4
<1>2. \A other \in Fd \ {fd} : clients_sockets'[other] = clients_sockets[other]
                             /\ interest'[other] = interest[other] /\ conn'[other] = conn[other]
  BY DEF TypeOK, Maps
<1>3. clients_sockets'[fd] = None /\ interest'[fd] = {}
  BY DEF TypeOK, Maps
<1>4. (ArmedIffQueued /\ RegisteredAreClients)'
  BY <1>2, <1>3 DEF ArmedIffQueued, RegisteredAreClients, Queued, IsClient
<1> QED
  BY <1>1, <1>2, <1>4 DEF Queued, IsClient

LEMMA HandleErrorInv == ASSUME Inv, NEW event \in batch, HandleError(event) PROVE Inv'
<1>1. batch' = batch \ {event} /\ UNCHANGED current /\ current = None /\ Erase(event.fd)
  BY DEF HandleError, Looping
<1>2. event.fd \in Fd
  <2>1. event.flags = {} /\ {} # {"in"}
    BY DEF HandleError
  <2> QED
    BY <2>1 DEF Inv, TypeOK, ServerReportsIn
<1>3. TypeOK' /\ Maps'
  BY <1>1, <1>2, HandledInv, EraseInv DEF Inv, TypeOK, Maps, IsClient
<1>4. EventsAreCurrent'
  BY <1>1, <1>2, HandledInv, EraseInv, ChatAssumption DEF EventsAreCurrent
<1> QED
  BY <1>1, <1>2, <1>3, <1>4, HandledInv, EraseInv DEF Inv

LEMMA ReadClosesInv == ASSUME Inv, ReadCloses PROVE Inv'
<1>1. current \in Fd /\ current' = None /\ UNCHANGED batch /\ Erase(current)
  BY DEF ReadCloses, Reading
<1>2. \A event \in batch : event.fd # current
  BY <1>1 DEF Inv, EventsAreCurrent
<1>3. TypeOK' /\ Maps'
  BY <1>1, EraseInv DEF Inv, TypeOK, Maps, IsClient
<1>4. EventsAreCurrent'
  BY <1>1, <1>2, EraseInv, ChatAssumption DEF Inv, EventsAreCurrent
<1> QED
  BY <1>1, <1>3, <1>4, EraseInv DEF Inv, ServerReportsIn

(* A new client has an empty queue, and no event of the batch is about the *)
(* descriptor, which was not open.                                         *)
LEMMA AcceptedInv ==
    ASSUME Inv, NEW fd \in Fd, Accepted(fd)
    PROVE  /\ conn' \in [Fd -> {"closed", "open", "left", "reset"}]
           /\ conn'[fd] = "open" /\ \A other \in Fd \ {fd} : conn'[other] = conn[other]
           /\ backlog' \in 0 .. MaxConnections /\ connections' \in backlog' .. MaxConnections
           /\ UNCHANGED <<batch, inbox, full>>
           /\ ~ IsClient(fd) /\ interest[fd] = {} /\ current = Server /\ running
<1>1. ~ IsClient(fd) /\ interest[fd] = {}
  BY DEF Accepted, Inv, RegisteredAreClients
<1>2. conn' \in [Fd -> {"closed", "open", "left", "reset"}] /\ conn'[fd] = "open"
      /\ \A other \in Fd \ {fd} : conn'[other] = conn[other]
  BY DEF Accepted, Inv, TypeOK
<1>3. backlog' \in 0 .. MaxConnections /\ connections' \in backlog' .. MaxConnections
  BY ChatAssumption DEF Accepted, Inv, TypeOK, Maps
<1> QED
  BY <1>1, <1>2, <1>3 DEF Accepted

LEMMA AcceptInv == ASSUME Inv, NEW fd \in Fd, Accept(fd) PROVE Inv'
<1>1. /\ clients_sockets' = [clients_sockets EXCEPT ![fd] = <<>>]
      /\ interest' = [interest EXCEPT ![fd] = {"in"}]
      /\ UNCHANGED <<current, running>> /\ Accepted(fd)
  BY DEF Accept
<1>2. <<>> \in Seq(Task) /\ <<>> \notin {None, Moved}
  <2>1. <<>> \in Seq(Task)
    OBVIOUS
  <2> QED
    BY <2>1, QueueIsClient
<1>3. /\ clients_sockets' \in [Fd -> Seq(Task) \cup {None, Moved}]
      /\ clients_sockets'[fd] = <<>> /\ interest'[fd] = {"in"}
      /\ interest' \in [Fd -> {{}, {"in"}, {"in", "out"}}]
      /\ \A other \in Fd \ {fd} : /\ clients_sockets'[other] = clients_sockets[other]
                                /\ interest'[other] = interest[other]
  BY <1>1, <1>2 DEF Inv, TypeOK, Maps
<1>4. TypeOK' /\ Maps'
  <2>1. TypeOK'
    <3>1. /\ conn' \in [Fd -> {"closed", "open", "left", "reset"}]
          /\ backlog' \in 0 .. MaxConnections /\ UNCHANGED <<batch, full, current, running>>
      BY <1>1, AcceptedInv
    <3> QED
      BY <1>3, <3>1 DEF Inv, TypeOK, IsClient
  <2>2. Maps'
    <3>1. UNCHANGED <<batch, inbox>> /\ connections' \in backlog' .. MaxConnections
      BY <1>1, AcceptedInv
    <3> QED
      BY <1>3, <3>1 DEF Inv, Maps
  <2> QED
    BY <2>1, <2>2
<1>5. (ArmedIffQueued /\ RegisteredAreClients)'
  <2>1. "out" \notin {"in"} /\ {"in"} # {}
    OBVIOUS
  <2>2. IsClient(fd)' /\ ~ Queued(fd)'
    BY <1>2, <1>3 DEF IsClient, Queued
  <2>3. \A other \in Fd \ {fd} : IsClient(other)' = IsClient(other) /\ Queued(other)' = Queued(other)
    BY <1>3 DEF IsClient, Queued
  <2>4. ArmedIffQueued'
    BY <1>3, <2>1, <2>2, <2>3 DEF Inv, ArmedIffQueued
  <2>5. RegisteredAreClients'
    BY <1>1, <1>3, <2>1, <2>2, <2>3, AcceptedInv DEF Inv, RegisteredAreClients
  <2> QED
    BY <2>4, <2>5
<1>6. EventsAreCurrent'
  BY <1>1, <1>3, AcceptedInv, ChatAssumption DEF Inv, EventsAreCurrent, Queued, IsClient
<1> QED
  BY <1>1, <1>4, <1>5, <1>6, AcceptedInv DEF Inv, ServerReportsIn

LEMMA AcceptFailsInv == ASSUME Inv, NEW fd \in Fd, AcceptFails(fd) PROVE Inv'
<1>1. PICK soc \in {None, Moved} : clients_sockets' = [clients_sockets EXCEPT ![fd] = soc]
  BY DEF AcceptFails
<1>2. current' = None /\ running' \in BOOLEAN /\ UNCHANGED interest /\ Accepted(fd)
  BY DEF AcceptFails, Throw
<1>3. /\ clients_sockets' \in [Fd -> Seq(Task) \cup {None, Moved}]
      /\ clients_sockets'[fd] = soc
      /\ \A other \in Fd \ {fd} : clients_sockets'[other] = clients_sockets[other]
  BY <1>1 DEF Inv, Maps
<1>4. TypeOK' /\ Maps'
  BY <1>2, <1>3, AcceptedInv DEF Inv, TypeOK, Maps, IsClient
<1>5. (ArmedIffQueued /\ RegisteredAreClients)'
  BY <1>1, <1>2, <1>3, AcceptedInv
     DEF Inv, ArmedIffQueued, RegisteredAreClients, Queued, IsClient
<1>6. EventsAreCurrent'
  BY <1>2, <1>3, AcceptedInv, ChatAssumption DEF Inv, EventsAreCurrent, Queued, IsClient
<1> QED
  BY <1>2, <1>4, <1>5, <1>6, AcceptedInv DEF Inv, ServerReportsIn

(* A loop ends, nothing else changes. *)
LEMMA LoopEndsInv ==
    ASSUME Inv, current' = None,
           UNCHANGED <<clients_sockets, batch, running, interest, kernel, history>>
    PROVE  Inv'
  BY ChatAssumption
     DEF Inv, TypeOK, Maps, ServerReportsIn, ArmedIffQueued, EventsAreCurrent,
         RegisteredAreClients, Queued, IsClient, kernel

(* The task goes to the end of the queues reached, and EPOLLOUT is asked   *)
(* for where there was none.                                               *)
LEMMA AddWriteTaskInv ==
    ASSUME Inv, NEW reached \in SUBSET Others, NEW m \in Messages,
           \A fd \in reached : clients_sockets[fd] # Moved,
           AddWriteTask(reached, m)
    PROVE  /\ clients_sockets' \in [Fd -> Seq(Task) \cup {None, Moved}]
           /\ interest' \in [Fd -> {{}, {"in"}, {"in", "out"}}]
           /\ \A fd \in Fd : IsClient(fd)' <=> IsClient(fd)
           /\ \A fd \in Fd : Queued(fd) => Queued(fd)'
           /\ ArmedIffQueued'
           /\ \A fd \in Fd : interest'[fd] = {} <=> interest[fd] = {}
<1>1. \A fd \in reached : clients_sockets[fd] \in Seq(Task) /\ IsClient(fd) /\ fd \in Fd
  BY DEF Others, Inv, Maps, IsClient
<1>2. WriteTask(m) \in Task
  BY NewTask
<1>3. \A fd \in reached : /\ Append(clients_sockets[fd], WriteTask(m)) \in Seq(Task)
                         /\ Append(clients_sockets[fd], WriteTask(m)) # <<>>
  BY <1>1, <1>2
<1>4. \A fd \in reached : /\ clients_sockets'[fd] = Append(clients_sockets[fd], WriteTask(m))
                         /\ interest'[fd] = Armed(interest[fd], clients_sockets[fd])
  BY <1>1 DEF AddWriteTask
<1>5. \A fd \in Fd \ reached : /\ clients_sockets'[fd] = clients_sockets[fd]
                              /\ interest'[fd] = interest[fd]
  BY DEF AddWriteTask
<1>6. clients_sockets' \in [Fd -> Seq(Task) \cup {None, Moved}]
  BY <1>3 DEF AddWriteTask, Inv, Maps
<1>7. \A fd \in reached : IsClient(fd)' /\ Queued(fd)'
  BY <1>3, <1>4, QueueIsClient DEF IsClient, Queued
<1>8. \A fd \in reached : interest'[fd] = {"in", "out"} /\ interest[fd] # {}
  <2> SUFFICES ASSUME NEW fd \in reached
               PROVE  interest'[fd] = {"in", "out"} /\ interest[fd] # {}
    OBVIOUS
  <2>1. interest[fd] \in {{"in"}, {"in", "out"}}
    BY <1>1 DEF Inv, RegisteredAreClients, TypeOK
  <2>2. CASE clients_sockets[fd] = <<>>
    BY <1>4, <2>1, <2>2 DEF Armed
  <2>3. CASE clients_sockets[fd] # <<>>
    <3>1. "out" \in interest[fd]
      BY <1>1, <2>3 DEF Inv, ArmedIffQueued, Queued
    <3> QED
      BY <1>4, <2>1, <2>3, <3>1 DEF Armed
  <2> QED
    BY <2>2, <2>3
<1>9. interest' \in [Fd -> {{}, {"in"}, {"in", "out"}}]
  <2>1. \A fd \in Fd : interest'[fd] \in {{}, {"in"}, {"in", "out"}}
    BY <1>5, <1>8 DEF Inv, TypeOK
  <2>2. interest' = [fd \in Fd |-> interest'[fd]]
    BY DEF AddWriteTask
  <2> QED
    BY <2>1, <2>2
<1>10. ArmedIffQueued'
  BY <1>5, <1>7, <1>8 DEF ArmedIffQueued, Queued, IsClient, Inv
<1> QED
  BY <1>1, <1>5, <1>6, <1>7, <1>8, <1>9, <1>10 DEF IsClient, Queued

(* A message leaves the inbox of the descriptor that is read. *)
LEMMA MessageIsRead ==
    ASSUME Inv, current \in Fd, inbox[current] # <<>>,
           inbox' = [inbox EXCEPT ![current] = Tail(@)]
    PROVE  Head(inbox[current]) \in Messages /\ inbox' \in [Fd -> Seq(Messages)]
<1>1. inbox[current] \in Seq(Messages)
  BY DEF Inv, Maps
<1>2. Head(inbox[current]) \in Messages /\ Tail(inbox[current]) \in Seq(Messages)
  BY <1>1
<1> QED
  BY <1>2 DEF Inv, Maps

LEMMA ReadInv == ASSUME Inv, Read PROVE Inv'
<1>1. /\ current \in Fd /\ Others \in SUBSET Others
      /\ \A fd \in Others : clients_sockets[fd] # Moved
      /\ AddWriteTask(Others, Head(inbox[current]))
      /\ UNCHANGED <<batch, current, running, conn, full, backlog, connections>>
  BY DEF Read, Reading, Orphans
<1>2. Head(inbox[current]) \in Messages /\ inbox' \in [Fd -> Seq(Messages)]
  BY MessageIsRead DEF Read, Reading
<1>3. TypeOK' /\ Maps'
  BY <1>1, <1>2, AddWriteTaskInv DEF Inv, TypeOK, Maps, IsClient
<1>4. RegisteredAreClients'
  BY <1>1, <1>2, AddWriteTaskInv DEF Inv, RegisteredAreClients
<1>5. EventsAreCurrent'
  BY <1>1, <1>2, AddWriteTaskInv DEF Inv, EventsAreCurrent
<1> QED
  BY <1>1, <1>2, <1>3, <1>4, <1>5, AddWriteTaskInv DEF Inv, ServerReportsIn

LEMMA ReadFailsInv == ASSUME Inv, ReadFails PROVE Inv'
<1>1. PICK reached \in SUBSET (Others \ Orphans) : AddWriteTask(reached, Head(inbox[current]))
  BY DEF ReadFails
<1>2. /\ reached \in SUBSET Others /\ \A fd \in reached : clients_sockets[fd] # Moved
      /\ current' = None /\ running' \in BOOLEAN
      /\ UNCHANGED <<batch, conn, full, backlog, connections>>
  BY DEF ReadFails, Throw, Orphans
<1>3. Head(inbox[current]) \in Messages /\ inbox' \in [Fd -> Seq(Messages)]
  BY MessageIsRead DEF ReadFails, Reading
<1>4. TypeOK' /\ Maps'
  BY <1>1, <1>2, <1>3, AddWriteTaskInv DEF Inv, TypeOK, Maps, IsClient
<1>5. RegisteredAreClients'
  BY <1>1, <1>2, <1>3, AddWriteTaskInv DEF Inv, RegisteredAreClients
<1>6. EventsAreCurrent'
  BY <1>1, <1>2, <1>3, AddWriteTaskInv, ChatAssumption DEF Inv, EventsAreCurrent
<1> QED
  BY <1>1, <1>2, <1>3, <1>4, <1>5, <1>6, AddWriteTaskInv DEF Inv, ServerReportsIn

(* A write takes at least one byte of the first task, and switches         *)
(* EPOLLOUT off exactly when nothing is left.                              *)
LEMMA HandleOutInv == ASSUME Inv, NEW event \in batch, HandleOut(event) PROVE Inv'
<1> DEFINE fd == event.fd
           queue == clients_sockets[fd]
<1>1. /\ batch' = batch \ {event} /\ "out" \in event.flags
      /\ current = None
      /\ interest' = [interest EXCEPT ![fd] = Disarmed(@, clients_sockets'[fd])]
      /\ current' = IF "in" \in event.flags THEN fd ELSE None
      /\ UNCHANGED <<running, conn, inbox, backlog, connections>>
  BY DEF HandleOut, Looping
<1>2. fd \in Fd
  BY <1>1 DEF Inv, TypeOK, ServerReportsIn
<1>3. IsClient(fd) /\ Queued(fd) /\ queue \in Seq(Task) /\ queue # <<>>
  BY <1>1, <1>2 DEF Inv, EventsAreCurrent, Queued, Maps, IsClient
<1>4. PICK n \in 1 .. Len(Head(queue).buffer) - Head(queue).offset, no_room \in BOOLEAN :
          /\ clients_sockets' = [clients_sockets EXCEPT ![fd] = Rest(@, n)]
          /\ full' = [full EXCEPT ![fd] = no_room]
  BY DEF HandleOut
<1>5. Rest(queue, n) \in Seq(Task)
  BY <1>3, RestIsQueue
<1>6. /\ clients_sockets' \in [Fd -> Seq(Task) \cup {None, Moved}]
      /\ clients_sockets'[fd] = Rest(queue, n)
      /\ full' \in [Fd -> BOOLEAN]
      /\ \A other \in Fd \ {fd} : clients_sockets'[other] = clients_sockets[other]
  BY <1>2, <1>4, <1>5 DEF Inv, TypeOK, Maps
<1>7. IsClient(fd)'
  BY <1>5, <1>6, QueueIsClient DEF IsClient
<1>8. interest[fd] = {"in", "out"}
  BY <1>2, <1>3 DEF Inv, ArmedIffQueued, TypeOK
<1>9. /\ interest' \in [Fd -> {{}, {"in"}, {"in", "out"}}]
      /\ interest'[fd] = IF clients_sockets'[fd] = <<>> THEN {"in"} ELSE {"in", "out"}
      /\ \A other \in Fd \ {fd} : interest'[other] = interest[other]
  BY <1>1, <1>2, <1>8 DEF Disarmed, Inv, TypeOK
<1>10. TypeOK' /\ Maps'
  BY <1>1, <1>2, <1>6, <1>9, HandledInv DEF Inv, TypeOK, Maps, IsClient
<1>11. ArmedIffQueued'
  <2>1. Queued(fd)' <=> "out" \in interest'[fd]
    BY <1>7, <1>9 DEF Queued
  <2> QED
    BY <1>6, <1>9, <2>1 DEF Inv, ArmedIffQueued, Queued, IsClient
<1>12. RegisteredAreClients'
  <2>1. interest'[fd] # {}
    BY <1>9
  <2> QED
    BY <1>1, <1>3, <1>6, <1>7, <1>9, <2>1 DEF Inv, RegisteredAreClients, IsClient
<1>13. EventsAreCurrent'
  BY <1>1, <1>2, <1>6, <1>7, HandledInv, ChatAssumption
     DEF EventsAreCurrent, Queued, IsClient
<1> QED
  BY <1>1, <1>10, <1>11, <1>12, <1>13, HandledInv DEF Inv

-----------------------------------------------------------------------------

LEMMA ServerStepInv == ASSUME Inv, ServerStep PROVE Inv'
<1>1. ASSUME AcceptEnds \/ ReadEnds PROVE Inv'
  BY <1>1, LoopEndsInv DEF AcceptEnds, ReadEnds
<1> QED
  BY <1>1, EpollWaitInv, HandleInInv, HandleOutInv, HandleOutFailsInv, HandleErrorInv,
     AcceptInv, AcceptFailsInv, ReadInv, ReadFailsInv, ReadClosesInv DEF ServerStep

LEMMA StutterInv == ASSUME Inv, UNCHANGED vars PROVE Inv'
  BY DEF vars, server, kernel, Inv, TypeOK, Maps, ServerReportsIn, ArmedIffQueued,
         EventsAreCurrent, RegisteredAreClients, Queued, IsClient

LEMMA InvAlways == Spec => []Inv
<1>1. Inv /\ [Next]_vars => Inv'
  BY PeersInv, ServerStepInv, StutterInv DEF Next
<1> QED
  BY <1>1, InitInv, PTL DEF Spec

(* Queues hold tasks, registrations are one of three, and nothing else     *)
(* comes about however connections come and go (Socket.cpp, Socket.h).     *)
THEOREM TypeTheorem == Spec => []TypeOK
<1>1. Inv => TypeOK
  BY DEF Inv
<1> QED
  BY <1>1, InvAlways, PTL

(* For any number of clients and messages and whatever parts the kernel    *)
(* takes: EPOLLOUT is asked for exactly while something is queued, and     *)
(* front() is never taken of an empty queue (Socket.cpp:41-77).            *)
THEOREM ArmedTheorem == Spec => []ArmedIffQueued
<1>1. Inv => ArmedIffQueued
  BY DEF Inv
<1> QED
  BY <1>1, InvAlways, PTL

(* No event is stale when its turn comes, however long the batch and       *)
(* whatever its earlier events erased and accepted (epoll_task.cpp:53-83). *)
THEOREM EventsTheorem == Spec => []EventsAreCurrent
<1>1. Inv => EventsAreCurrent
  BY DEF Inv
<1> QED
  BY <1>1, InvAlways, PTL

(* The map of sockets and the kernel's registrations agree after any       *)
(* failure of accept, read, write or registration                          *)
(* (Socket.cpp:15-25, epoll_task.cpp:76, 113).                             *)
THEOREM RegisteredTheorem == Spec => []RegisteredAreClients
<1>1. Inv => RegisteredAreClients
  BY DEF Inv
<1> QED
  BY <1>1, InvAlways, PTL

-----------------------------------------------------------------------------
(***************************************************************************)
(* The bytes a client gets.  The copy of a message that a task holds ends  *)
(* at its first NUL, so the theorem is about messages that have none.      *)
(***************************************************************************)
NoNul == \A m \in Messages : \A i \in DOMAIN m : m[i] # Nul

(* What is left of a task, and of each task of a queue.                    *)
Left(task) == SubSeq(task.buffer, task.offset + 1, Len(task.buffer))

Parts(q) == [i \in DOMAIN q |-> Left(q[i])]

LEMMA CopyIsWhole == ASSUME NoNul, NEW m \in Messages PROVE Copy(m) = m /\ m \in Seq(Byte)
<1>1. m \in Seq(Byte)
  BY ChatAssumption
<1>2. DOMAIN m = 1 .. Len(m) /\ Len(m) \in Nat /\ m \in [1 .. Len(m) -> Byte]
  BY <1>1, LenProperties
<1>3. ASSUME NEW i \in 1 .. Len(m) PROVE ~ \E j \in 1 .. i : m[j] = Nul
  <2>1. \A j \in 1 .. i : j \in 1 .. Len(m)
    BY <1>2
  <2> QED
    BY <1>2, <2>1 DEF NoNul
<1>4. Copy(m) = [i \in 1 .. Len(m) |-> m[i]]
  BY <1>2, <1>3 DEF Copy
<1> QED
  BY <1>1, <1>2, <1>4

LEMMA LeftIsBytes ==
    ASSUME NoNul, NEW task \in Task
    PROVE  /\ task.buffer \in Seq(Byte)
           /\ task.offset \in Nat
           /\ Left(task) \in Seq(Byte)
<1>1. PICK m \in Messages : task.buffer = Copy(m)
  BY DEF Task
<1>2. task.buffer \in Seq(Byte)
  BY <1>1, CopyIsWhole
<1>3. task.offset \in Nat /\ Len(task.buffer) \in Nat
  BY <1>2 DEF Task
<1>4. \A i \in task.offset + 1 .. Len(task.buffer) : task.buffer[i] \in Byte
  <2>1. \A i \in task.offset + 1 .. Len(task.buffer) : i \in 1 .. Len(task.buffer)
    BY <1>3
  <2> QED
    BY <1>2, <2>1
<1>5. task.offset + 1 \in Int /\ Len(task.buffer) \in Int
  BY <1>3
<1>6. Left(task) \in Seq(Byte)
  BY <1>4, <1>5, SubSeqProperties DEF Left
<1> QED
  BY <1>2, <1>3, <1>6

LEMMA PartsType ==
    ASSUME NoNul, NEW q \in Seq(Task)
    PROVE  Parts(q) \in Seq(Seq(Byte)) /\ Len(Parts(q)) = Len(q)
           /\ \A i \in 1 .. Len(q) : Parts(q)[i] = Left(q[i])
<1>1. DOMAIN q = 1 .. Len(q) /\ Len(q) \in Nat /\ \A i \in 1 .. Len(q) : q[i] \in Task
  BY LenProperties
<1>2. \A i \in 1 .. Len(q) : Left(q[i]) \in Seq(Byte)
  BY <1>1, LeftIsBytes
<1>3. Parts(q) = [i \in 1 .. Len(q) |-> Left(q[i])]
  BY <1>1 DEF Parts
<1>4. Parts(q) \in [1 .. Len(q) -> Seq(Byte)]
  BY <1>2, <1>3
<1>5. Parts(q) \in Seq(Seq(Byte))
  BY <1>1, <1>4, SeqDef
<1> QED
  BY <1>1, <1>3, <1>4, <1>5

LEMMA UnwrittenIs == ASSUME NEW q PROVE Unwritten(q) = FlattenSeq(Parts(q))
  BY DEF Unwritten, Parts, Left

LEMMA UnwrittenIsBytes == ASSUME NoNul, NEW q \in Seq(Task) PROVE Unwritten(q) \in Seq(Byte)
  BY PartsType, UnwrittenIs, FlattenType

LEMMA UnwrittenEmpty == Unwritten(<<>>) = <<>>
<1>1. Parts(<<>>) = <<>>
  BY DEF Parts
<1> QED
  BY <1>1, UnwrittenIs, FlattenEmpty

LEMMA UnwrittenAppend ==
    ASSUME NoNul, NEW q \in Seq(Task), NEW task \in Task
    PROVE  Unwritten(Append(q, task)) = Unwritten(q) \o Left(task)
<1> DEFINE r == Append(q, task)
           p == Append(Parts(q), Left(task))
<1>1. r \in Seq(Task) /\ Len(r) = Len(q) + 1 /\ r[Len(q) + 1] = task
      /\ \A i \in 1 .. Len(q) : r[i] = q[i]
  BY AppendProperties
<1>2. Left(task) \in Seq(Byte) /\ Parts(q) \in Seq(Seq(Byte)) /\ Len(Parts(q)) = Len(q)
      /\ \A i \in 1 .. Len(q) : Parts(q)[i] = Left(q[i])
  BY LeftIsBytes, PartsType
<1>3. p \in Seq(Seq(Byte)) /\ Len(p) = Len(q) + 1 /\ p[Len(q) + 1] = Left(task)
      /\ \A i \in 1 .. Len(q) : p[i] = Left(q[i])
  BY <1>2, AppendProperties
<1> HIDE DEF r, p
<1>4. Parts(r) \in Seq(Seq(Byte)) /\ Len(Parts(r)) = Len(r)
      /\ \A i \in 1 .. Len(r) : Parts(r)[i] = Left(r[i])
  BY <1>1, PartsType
<1>5. Len(q) \in Nat
  BY LenProperties
<1>6. ASSUME NEW i \in 1 .. Len(r) PROVE Parts(r)[i] = p[i]
  <2>1. i \in 1 .. Len(q) \/ i = Len(q) + 1
    BY <1>1, <1>5
  <2> QED
    BY <1>1, <1>3, <1>4, <2>1
<1>7. Parts(r) = p
  BY <1>1, <1>3, <1>4, <1>6, SeqEqual
<1> QED
  BY <1>2, <1>7, FlattenAppend, UnwrittenIs DEF r, p

LEMMA FirstProperties ==
    ASSUME NEW T, NEW x \in T, NEW s \in Seq(T)
    PROVE  /\ <<x>> \o s \in Seq(T)
           /\ Len(<<x>> \o s) = Len(s) + 1
           /\ (<<x>> \o s)[1] = x
           /\ \A i \in 2 .. Len(s) + 1 : (<<x>> \o s)[i] = s[i - 1]
<1>1. <<x>> \in Seq(T) /\ Len(<<x>>) = 1 /\ <<x>>[1] = x /\ Len(s) \in Nat
  OBVIOUS
<1> QED
  BY <1>1, ConcatProperties

LEMMA UnwrittenFirst ==
    ASSUME NoNul, NEW task \in Task, NEW q \in Seq(Task)
    PROVE  Unwritten(<<task>> \o q) = Left(task) \o Unwritten(q)
<1> DEFINE r == <<task>> \o q
           one == <<Left(task)>>
           p == one \o Parts(q)
<1>1. r \in Seq(Task) /\ Len(r) = Len(q) + 1 /\ r[1] = task
      /\ \A i \in 2 .. Len(q) + 1 : r[i] = q[i - 1]
  BY FirstProperties
<1>2. Left(task) \in Seq(Byte) /\ Parts(q) \in Seq(Seq(Byte)) /\ Len(Parts(q)) = Len(q)
      /\ \A i \in 1 .. Len(q) : Parts(q)[i] = Left(q[i])
  BY LeftIsBytes, PartsType
<1>3. one \in Seq(Seq(Byte)) /\ Len(one) = 1 /\ one[1] = Left(task) /\ Len(q) \in Nat
  BY <1>2
<1>4. p \in Seq(Seq(Byte)) /\ Len(p) = Len(q) + 1 /\ p[1] = Left(task)
      /\ \A i \in 2 .. Len(q) + 1 : p[i] = Parts(q)[i - 1]
  BY <1>2, FirstProperties
<1>5. \A i \in 2 .. Len(q) + 1 : i - 1 \in 1 .. Len(q)
  BY <1>3
<1> HIDE DEF r, p, one
<1>6. Parts(r) \in Seq(Seq(Byte)) /\ Len(Parts(r)) = Len(r)
      /\ \A i \in 1 .. Len(r) : Parts(r)[i] = Left(r[i])
  BY <1>1, PartsType
<1>7. ASSUME NEW i \in 1 .. Len(r) PROVE Parts(r)[i] = p[i]
  <2>1. i = 1 \/ i \in 2 .. Len(q) + 1
    BY <1>1, <1>3
  <2> QED
    BY <1>1, <1>2, <1>4, <1>5, <1>6, <2>1
<1>8. Parts(r) = p
  BY <1>1, <1>4, <1>6, <1>7, SeqEqual
<1>9. FlattenSeq(p) = FlattenSeq(one) \o FlattenSeq(Parts(q))
  BY <1>2, <1>3, FlattenConcat DEF p
<1>10. FlattenSeq(one) = Left(task)
  BY <1>2, FlattenOne DEF one
<1> QED
  BY <1>8, <1>9, <1>10, UnwrittenIs DEF r

LEMMA JoinedBytes == \A x, y, z \in Seq(Byte) : (x \o y) \o z = x \o (y \o z)
<1> SUFFICES ASSUME NEW x \in Seq(Byte), NEW y \in Seq(Byte), NEW z \in Seq(Byte)
             PROVE  (x \o y) \o z = x \o (y \o z)
  OBVIOUS
<1> QED
  BY ConcatAssociative

(* A write moves bytes of the first task from what is queued to what was   *)
(* written.                                                                *)
LEMMA WriteMoves ==
    ASSUME NoNul, NEW q \in Seq(Task), q # <<>>,
           NEW n \in 1 .. Len(Head(q).buffer) - Head(q).offset
    PROVE  LET task == Head(q)
               taken == SubSeq(task.buffer, task.offset + 1, task.offset + n)
           IN  taken \in Seq(Byte) /\ Unwritten(q) = taken \o Unwritten(Rest(q, n))
<1> DEFINE task == Head(q)
           b == task.buffer
           o == task.offset
           taken == SubSeq(b, o + 1, o + n)
           cut == [task EXCEPT !.offset = @ + n]
<1>1. task \in Task /\ Tail(q) \in Seq(Task) /\ q = <<task>> \o Tail(q)
  OBVIOUS
<1>2. b \in Seq(Byte) /\ o \in Nat /\ Len(b) \in Nat /\ n \in Nat /\ n >= 1 /\ o + n <= Len(b)
  <2>1. b \in Seq(Byte) /\ o \in Nat
    BY <1>1, LeftIsBytes
  <2> QED
    BY <2>1
<1>3. Unwritten(q) = Left(task) \o Unwritten(Tail(q))
  <2> HIDE DEF task
  <2> QED
    BY <1>1, UnwrittenFirst
<1>4. taken \in Seq(Byte)
  <2> HIDE DEF task, b, o
  <2>1. \A i \in o + 1 .. o + n : b[i] \in Byte
    <3>1. \A i \in o + 1 .. o + n : i \in 1 .. Len(b)
      BY <1>2
    <3> QED
      BY <1>2, <3>1
  <2>2. o + 1 \in Int /\ o + n \in Int
    BY <1>2
  <2> QED
    BY <2>1, <2>2, SubSeqProperties
<1>5. Unwritten(Tail(q)) \in Seq(Byte)
  BY <1>1, UnwrittenIsBytes
<1>6. CASE o + n = Len(b)
  <2>1. Rest(q, n) = Tail(q)
    BY <1>6 DEF Rest
  <2>2. Left(task) = taken
    BY <1>6 DEF Left
  <2> QED
    BY <1>3, <1>4, <2>1, <2>2
<1>7. CASE o + n # Len(b)
  <2>1. Rest(q, n) = <<cut>> \o Tail(q)
    BY <1>7 DEF Rest
  <2>2. cut \in Task /\ cut.buffer = b /\ cut.offset = o + n
    BY <1>1, <1>2 DEF Task
  <2>3. Left(cut) = SubSeq(b, o + n + 1, Len(b)) /\ Left(cut) \in Seq(Byte)
    BY <2>2, LeftIsBytes DEF Left
  <2>4. Left(task) = taken \o Left(cut)
    <3>1. o + 1 \in 1 .. Len(b) + 1 /\ o + n \in (o + 1) - 1 .. Len(b) /\ Len(b) \in o + n .. Len(b)
      BY <1>2
    <3>2. SubSeq(b, o + 1, o + n) \o SubSeq(b, o + n + 1, Len(b)) = SubSeq(b, o + 1, Len(b))
      <4> HIDE DEF b, o
      <4> QED
        BY <1>2, <3>1, ConcatAdjacentSubSeq
    <3> QED
      BY <2>3, <3>2 DEF Left
  <2>5. Unwritten(Rest(q, n)) = Left(cut) \o Unwritten(Tail(q))
    <3> HIDE DEF cut, task
    <3> QED
      BY <1>1, <2>1, <2>2, UnwrittenFirst
  <2>6. (taken \o Left(cut)) \o Unwritten(Tail(q)) = taken \o (Left(cut) \o Unwritten(Tail(q)))
    <3> HIDE DEF taken, cut
    <3> QED
      BY <1>4, <1>5, <2>3, JoinedBytes, Zenon
  <2> QED
    BY <1>3, <1>4, <2>4, <2>5, <2>6
<1> QED
  BY <1>6, <1>7

-----------------------------------------------------------------------------
(* What the others sent *)

Sent == [buffer : Messages, orphan : BOOLEAN]

Pieces(sent, kept) == [i \in DOMAIN sent |-> IF i \in kept THEN sent[i].buffer ELSE <<>>]

LEMMA PiecesType ==
    ASSUME NEW sent \in Seq(Sent), NEW kept
    PROVE  Pieces(sent, kept) \in Seq(Seq(Byte)) /\ Len(Pieces(sent, kept)) = Len(sent)
           /\ \A i \in 1 .. Len(sent) :
                  Pieces(sent, kept)[i] = IF i \in kept THEN sent[i].buffer ELSE <<>>
<1>1. DOMAIN sent = 1 .. Len(sent) /\ Len(sent) \in Nat /\ \A i \in 1 .. Len(sent) : sent[i] \in Sent
  BY LenProperties
<1>2. \A i \in 1 .. Len(sent) : sent[i].buffer \in Seq(Byte)
  BY <1>1, ChatAssumption DEF Sent
<1>3. <<>> \in Seq(Byte)
  OBVIOUS
<1>4. Pieces(sent, kept) = [i \in 1 .. Len(sent) |-> IF i \in kept THEN sent[i].buffer ELSE <<>>]
  BY <1>1 DEF Pieces
<1>5. Pieces(sent, kept) \in [1 .. Len(sent) -> Seq(Byte)]
  BY <1>2, <1>3, <1>4
<1>6. Pieces(sent, kept) \in Seq(Seq(Byte))
  BY <1>1, <1>5, SeqDef
<1> QED
  BY <1>1, <1>4, <1>5, <1>6

LEMMA KeptIs == ASSUME NEW sent, NEW kept PROVE Kept(sent, kept) = FlattenSeq(Pieces(sent, kept))
  BY DEF Kept, Pieces

(* One more message adds its bytes, or nothing. *)
LEMMA KeptAppend ==
    ASSUME NEW sent \in Seq(Sent), NEW r \in Sent, NEW kept, NEW more,
           \A i \in 1 .. Len(sent) : i \in more <=> i \in kept
    PROVE  /\ Kept(sent, kept) \in Seq(Byte)
           /\ Kept(Append(sent, r), more)
                 = Kept(sent, kept) \o (IF Len(sent) + 1 \in more THEN r.buffer ELSE <<>>)
<1> DEFINE piece == IF Len(sent) + 1 \in more THEN r.buffer ELSE <<>>
           all == Append(sent, r)
           p == Append(Pieces(sent, kept), piece)
<1>1. piece \in Seq(Byte)
  <2>1. r.buffer \in Seq(Byte)
    BY ChatAssumption DEF Sent
  <2>2. <<>> \in Seq(Byte)
    OBVIOUS
  <2> QED
    BY <2>1, <2>2
<1>2. all \in Seq(Sent) /\ Len(all) = Len(sent) + 1 /\ all[Len(sent) + 1] = r
      /\ \A i \in 1 .. Len(sent) : all[i] = sent[i]
  BY AppendProperties
<1> HIDE DEF piece
<1>3. Pieces(sent, kept) \in Seq(Seq(Byte)) /\ Len(Pieces(sent, kept)) = Len(sent)
      /\ \A i \in 1 .. Len(sent) :
             Pieces(sent, kept)[i] = IF i \in kept THEN sent[i].buffer ELSE <<>>
  BY PiecesType
<1>4. p \in Seq(Seq(Byte)) /\ Len(p) = Len(sent) + 1 /\ p[Len(sent) + 1] = piece
      /\ \A i \in 1 .. Len(sent) : p[i] = Pieces(sent, kept)[i]
  BY <1>1, <1>3, AppendProperties
<1> HIDE DEF p, all
<1>5. Pieces(all, more) \in Seq(Seq(Byte)) /\ Len(Pieces(all, more)) = Len(all)
      /\ \A i \in 1 .. Len(all) :
             Pieces(all, more)[i] = IF i \in more THEN all[i].buffer ELSE <<>>
  BY <1>2, PiecesType
<1>6. Len(sent) \in Nat
  BY LenProperties
<1>7. ASSUME NEW i \in 1 .. Len(all) PROVE Pieces(all, more)[i] = p[i]
  <2>1. CASE i \in 1 .. Len(sent)
    BY <1>2, <1>3, <1>4, <1>5, <2>1
  <2>2. CASE i = Len(sent) + 1
    BY <1>2, <1>4, <1>5, <2>2 DEF piece
  <2> QED
    BY <1>2, <1>6, <2>1, <2>2
<1>8. Pieces(all, more) = p
  BY <1>2, <1>4, <1>5, <1>7, SeqEqual
<1>9. FlattenSeq(p) = FlattenSeq(Pieces(sent, kept)) \o piece
  BY <1>1, <1>3, FlattenAppend DEF p
<1>10. Kept(sent, kept) \in Seq(Byte)
  BY <1>3, FlattenType, KeptIs
<1> QED
  BY <1>8, <1>9, <1>10, KeptIs DEF all, piece

LEMMA KeptEmpty == Kept(<<>>, {}) = <<>>
<1>1. Pieces(<<>>, {}) = <<>>
  BY DEF Pieces
<1> QED
  BY <1>1, KeptIs, FlattenEmpty

(* The stream of one client: what it was written and what is queued are    *)
(* the messages kept of those sent.                                        *)
IsStream(bytes, sent) ==
    \E kept \in SUBSET DOMAIN sent :
        /\ \A i \in DOMAIN sent : ~ sent[i].orphan => i \in kept
        /\ bytes = Kept(sent, kept)

LEMMA StreamIs ==
    EachGetsItsStream
      <=> \A fd \in Fd : IsClient(fd) => IsStream(got[fd] \o Unwritten(clients_sockets[fd]), owed[fd])
  BY DEF EachGetsItsStream, IsStream

(* A message that is queued extends the stream by its bytes; one that is   *)
(* skipped must have been read with a default Socket in the map.           *)
LEMMA StreamGrows ==
    ASSUME NEW bytes \in Seq(Byte), NEW sent \in Seq(Sent), IsStream(bytes, sent), NEW r \in Sent
    PROVE  /\ IsStream(bytes \o r.buffer, Append(sent, r))
           /\ r.orphan => IsStream(bytes, Append(sent, r))
<1> DEFINE n == Len(sent)
           all == Append(sent, r)
<1>1. PICK kept \in SUBSET DOMAIN sent : /\ \A i \in DOMAIN sent : ~ sent[i].orphan => i \in kept
                                         /\ bytes = Kept(sent, kept)
  BY DEF IsStream
<1>2. DOMAIN sent = 1 .. n /\ n \in Nat /\ n + 1 \notin kept
  <2>1. DOMAIN sent = 1 .. n /\ n \in Nat
    BY LenProperties
  <2> QED
    BY <1>1, <2>1
<1>3. all \in Seq(Sent) /\ Len(all) = n + 1 /\ all[n + 1] = r /\ \A i \in 1 .. n : all[i] = sent[i]
  BY AppendProperties
<1>4. DOMAIN all = 1 .. n + 1
  BY <1>3, LenProperties
<1> HIDE DEF n
<1>5. Kept(all, kept \cup {n + 1}) = bytes \o r.buffer
  <2>1. \A i \in 1 .. n : i \in kept \cup {n + 1} <=> i \in kept
    BY <1>2
  <2> QED
    BY <1>1, <2>1, KeptAppend DEF n
<1>6. Kept(all, kept) = bytes
  <2>1. Kept(all, kept) = bytes \o <<>>
    BY <1>1, <1>2, KeptAppend DEF n
  <2> QED
    BY <2>1
<1> HIDE DEF all
<1>7. IsStream(bytes \o r.buffer, all)
  <2>1. kept \cup {n + 1} \in SUBSET DOMAIN all
    BY <1>1, <1>2, <1>4
  <2>2. \A i \in DOMAIN all : ~ all[i].orphan => i \in kept \cup {n + 1}
    BY <1>1, <1>2, <1>3, <1>4
  <2> QED
    BY <1>5, <2>1, <2>2 DEF IsStream
<1>8. ASSUME r.orphan PROVE IsStream(bytes, all)
  <2>1. kept \in SUBSET DOMAIN all
    BY <1>1, <1>2, <1>4
  <2>2. \A i \in DOMAIN all : ~ all[i].orphan => i \in kept
    BY <1>1, <1>2, <1>3, <1>4, <1>8
  <2> QED
    BY <1>6, <2>1, <2>2 DEF IsStream
<1> QED
  BY <1>7, <1>8 DEF all

(***************************************************************************)
(* The invariant: what EachGetsItsStream says, the types of the histories, *)
(* and that a descriptor without a client starts from nothing.             *)
(***************************************************************************)
StreamInv ==
    /\ got \in [Fd -> Seq(Byte)]
    /\ owed \in [Fd -> Seq(Sent)]
    /\ \A fd \in Fd : ~ IsClient(fd) => got[fd] = <<>> /\ owed[fd] = <<>>
    /\ EachGetsItsStream

LEMMA InitStream == Init => StreamInv
<1>1. <<>> \in Seq(Byte) /\ <<>> \in Seq(Sent)
  OBVIOUS
<1> QED
  BY <1>1 DEF Init, StreamInv, EachGetsItsStream, IsClient

LEMMA SameStream ==
    ASSUME StreamInv, UNCHANGED <<clients_sockets, history>> PROVE StreamInv'
  BY DEF StreamInv, EachGetsItsStream, IsClient, history

LEMMA EraseStream == ASSUME Inv, StreamInv, NEW fd \in Fd, Erase(fd) PROVE StreamInv'
<1>1. <<>> \in Seq(Byte) /\ <<>> \in Seq(Sent)
  OBVIOUS
<1>2. /\ got' \in [Fd -> Seq(Byte)] /\ got'[fd] = <<>>
      /\ owed' \in [Fd -> Seq(Sent)] /\ owed'[fd] = <<>>
      /\ clients_sockets'[fd] = None
      /\ \A other \in Fd \ {fd} : /\ got'[other] = got[other] /\ owed'[other] = owed[other]
                                  /\ clients_sockets'[other] = clients_sockets[other]
  BY <1>1 DEF Erase, Inv, Maps, StreamInv
<1> QED
  BY <1>2 DEF StreamInv, EachGetsItsStream, IsClient

(* The stream of a client begins empty, like its queue. *)
LEMMA AcceptStream == ASSUME Inv, StreamInv, NEW fd \in Fd, Accept(fd) PROVE StreamInv'
<1>1. /\ clients_sockets'[fd] = <<>>
      /\ \A other \in Fd \ {fd} : clients_sockets'[other] = clients_sockets[other]
      /\ UNCHANGED <<got, owed>> /\ ~ IsClient(fd)
  BY AcceptedInv DEF Accept, Accepted, Inv, Maps, history
<1>2. <<>> \in Seq(Task) /\ <<>> \notin {None, Moved}
  <2>1. <<>> \in Seq(Task)
    OBVIOUS
  <2> QED
    BY <2>1, QueueIsClient
<1>3. IsStream(got'[fd] \o Unwritten(clients_sockets'[fd]), owed'[fd])
  <2>1. got[fd] = <<>> /\ owed[fd] = <<>> /\ <<>> \o <<>> = <<>>
    BY <1>1 DEF StreamInv
  <2>2. {} \in SUBSET DOMAIN <<>> /\ DOMAIN <<>> = {}
    OBVIOUS
  <2>3. IsStream(<<>>, <<>>)
    BY <2>2, KeptEmpty DEF IsStream
  <2> QED
    BY <1>1, <2>1, <2>3, UnwrittenEmpty
<1>4. EachGetsItsStream'
  BY <1>1, <1>2, <1>3 DEF StreamInv, EachGetsItsStream, IsStream, IsClient
<1> QED
  BY <1>1, <1>2, <1>4 DEF StreamInv, IsClient

LEMMA AcceptFailsStream ==
    ASSUME Inv, StreamInv, NEW fd \in Fd, AcceptFails(fd) PROVE StreamInv'
<1>1. PICK soc \in {None, Moved} : clients_sockets' = [clients_sockets EXCEPT ![fd] = soc]
  BY DEF AcceptFails
<1>2. /\ clients_sockets'[fd] = soc
      /\ \A other \in Fd \ {fd} : clients_sockets'[other] = clients_sockets[other]
  BY <1>1 DEF Inv, Maps
<1>3. UNCHANGED <<got, owed>> /\ ~ IsClient(fd)
  BY AcceptedInv DEF AcceptFails, Accepted, history
<1> QED
  BY <1>2, <1>3 DEF StreamInv, EachGetsItsStream, IsClient

(* A message that is read is owed to all the others, and is queued for all *)
(* of them unless a default Socket is among them.                          *)
LEMMA AddWriteTaskStream ==
    ASSUME NoNul, Inv, StreamInv, NEW reached \in SUBSET (Others \ Orphans), NEW m \in Messages,
           Orphans # {} \/ reached = Others \ Orphans,
           AddWriteTask(reached, m), UNCHANGED got
    PROVE  StreamInv'
<1> DEFINE clients == Others \ Orphans
           r == [buffer |-> m, orphan |-> Orphans # {}]
<1>1. \A fd \in clients : clients_sockets[fd] \in Seq(Task) /\ IsClient(fd) /\ fd \in Fd
  BY DEF Others, Orphans, Inv, Maps, IsClient
<1>2. /\ \A fd \in clients : owed'[fd] = Append(owed[fd], r)
      /\ \A fd \in Fd \ clients : owed'[fd] = owed[fd]
  BY <1>1 DEF AddWriteTask
<1>3. /\ \A fd \in reached : clients_sockets'[fd] = Append(clients_sockets[fd], WriteTask(m))
      /\ \A fd \in Fd \ reached : clients_sockets'[fd] = clients_sockets[fd]
  BY <1>1 DEF AddWriteTask
<1>4. WriteTask(m) \in Task /\ Left(WriteTask(m)) = m /\ m \in Seq(Byte)
  <2>1. WriteTask(m) \in Task /\ Copy(m) = m /\ m \in Seq(Byte)
    BY NewTask, CopyIsWhole
  <2>2. Left(WriteTask(m)) = SubSeq(m, 0 + 1, Len(m))
    BY <2>1 DEF Left, WriteTask
  <2>3. SubSeq(m, 1, Len(m)) = m
    BY <2>1, SubSeqFull
  <2> QED
    BY <2>1, <2>2, <2>3
<1>5. r \in Sent /\ r.buffer = m /\ (r.orphan <=> Orphans # {})
  BY DEF Sent
<1>6. owed' \in [Fd -> Seq(Sent)]
  <2> HIDE DEF r
  <2>1. \A fd \in Fd : (IF fd \in clients THEN Append(owed[fd], r) ELSE owed[fd]) \in Seq(Sent)
    BY <1>5, AppendProperties DEF StreamInv
  <2> QED
    BY <2>1 DEF AddWriteTask, r
<1>7. ASSUME NEW fd \in clients
      PROVE  IsStream(got[fd] \o Unwritten(clients_sockets'[fd]), owed'[fd])
  <2> DEFINE q == clients_sockets[fd]
             u == Unwritten(q)
             g == got[fd]
  <2>1. q \in Seq(Task) /\ fd \in Fd /\ IsClient(fd)
    BY <1>1
  <2>2. u \in Seq(Byte) /\ g \in Seq(Byte) /\ owed[fd] \in Seq(Sent)
    BY <2>1, UnwrittenIsBytes DEF StreamInv
  <2>3. IsStream(g \o u, owed[fd])
    BY <2>1, StreamIs DEF StreamInv
  <2>4. g \o u \in Seq(Byte)
    <3> HIDE DEF g, u
    <3> QED
      BY <2>2, ConcatProperties
  <2>5. /\ IsStream((g \o u) \o m, Append(owed[fd], r))
        /\ Orphans # {} => IsStream(g \o u, Append(owed[fd], r))
    <3> HIDE DEF g, u, r
    <3> QED
      BY <1>5, <2>2, <2>3, <2>4, StreamGrows
  <2>6. CASE fd \in reached
    <3>1. Unwritten(clients_sockets'[fd]) = u \o m
      BY <1>3, <1>4, <2>1, <2>6, UnwrittenAppend
    <3>2. (g \o u) \o m = g \o (u \o m)
      <4> HIDE DEF u, g
      <4> QED
        BY <1>4, <2>2, ConcatAssociative
    <3> HIDE DEF u, g, r
    <3> QED
      BY <1>2, <2>5, <3>1, <3>2 DEF g
  <2>7. CASE fd \notin reached
    <3>1. Orphans # {} /\ clients_sockets'[fd] = q
      BY <1>3, <2>1, <2>7
    <3> QED
      BY <1>2, <2>5, <3>1
  <2> QED
    BY <2>6, <2>7
<1>8. EachGetsItsStream'
  <2> SUFFICES ASSUME NEW fd \in Fd, IsClient(fd)'
               PROVE  IsStream(got'[fd] \o Unwritten(clients_sockets'[fd]), owed'[fd])
    BY DEF EachGetsItsStream, IsStream
  <2>1. CASE fd \in clients
    BY <1>7, <2>1
  <2>2. CASE fd \notin clients
    <3>1. clients_sockets'[fd] = clients_sockets[fd] /\ owed'[fd] = owed[fd] /\ IsClient(fd)
      BY <1>2, <1>3, <2>2 DEF IsClient
    <3> QED
      BY <3>1, StreamIs DEF StreamInv
  <2> QED
    BY <2>1, <2>2
<1>9. \A fd \in Fd : ~ IsClient(fd)' => got'[fd] = <<>> /\ owed'[fd] = <<>>
  <2> SUFFICES ASSUME NEW fd \in Fd, ~ IsClient(fd)'
               PROVE  got'[fd] = <<>> /\ owed'[fd] = <<>>
    OBVIOUS
  <2>1. reached \in SUBSET Others /\ \A other \in reached : clients_sockets[other] # Moved
    BY DEF Orphans
  <2>2. ~ IsClient(fd)
    BY <2>1, AddWriteTaskInv
  <2>3. fd \notin clients
    BY <1>1, <2>2
  <2> QED
    BY <1>2, <2>2, <2>3 DEF StreamInv
<1> QED
  BY <1>6, <1>8, <1>9 DEF StreamInv

LEMMA ReadStream == ASSUME NoNul, Inv, StreamInv, Read \/ ReadFails PROVE StreamInv'
<1>1. Head(inbox[current]) \in Messages /\ UNCHANGED got
  BY MessageIsRead DEF Read, ReadFails, Reading
<1>2. CASE Read
  <2>1. Others = Others \ Orphans
    BY <1>2 DEF Read
  <2> QED
    BY <1>1, <1>2, <2>1, AddWriteTaskStream DEF Read
<1>3. CASE ReadFails
  <2>1. PICK reached \in SUBSET (Others \ Orphans) : AddWriteTask(reached, Head(inbox[current]))
    BY <1>3 DEF ReadFails
  <2>2. Orphans # {}
    BY <1>3 DEF ReadFails
  <2> QED
    BY <1>1, <2>1, <2>2, AddWriteTaskStream
<1> QED
  BY <1>2, <1>3

LEMMA HandleOutStream ==
    ASSUME NoNul, Inv, StreamInv, NEW event \in batch, HandleOut(event) PROVE StreamInv'
<1> DEFINE fd == event.fd
           q == clients_sockets[fd]
<1>1. "out" \in event.flags /\ UNCHANGED owed
  BY DEF HandleOut
<1>2. fd \in Fd
  BY <1>1 DEF Inv, TypeOK, ServerReportsIn
<1>3. IsClient(fd) /\ q \in Seq(Task) /\ q # <<>>
  BY <1>1, <1>2 DEF Inv, EventsAreCurrent, Queued, Maps, IsClient
<1>4. PICK n \in 1 .. Len(Head(q).buffer) - Head(q).offset :
          /\ clients_sockets' = [clients_sockets EXCEPT ![fd] = Rest(@, n)]
          /\ got' = [got EXCEPT ![fd] =
                 @ \o SubSeq(Head(q).buffer, Head(q).offset + 1, Head(q).offset + n)]
  BY DEF HandleOut
<1> DEFINE taken == SubSeq(Head(q).buffer, Head(q).offset + 1, Head(q).offset + n)
           rest == Unwritten(Rest(q, n))
           g == got[fd]
<1>5. taken \in Seq(Byte) /\ Unwritten(q) = taken \o rest
  BY <1>3, WriteMoves
<1>6. Rest(q, n) \in Seq(Task)
  BY <1>3, RestIsQueue
<1>7. rest \in Seq(Byte) /\ g \in Seq(Byte)
  BY <1>2, <1>6, UnwrittenIsBytes DEF StreamInv
<1>8. (g \o taken) \o rest = g \o (taken \o rest) /\ g \o taken \in Seq(Byte)
  <2> HIDE DEF g, taken, rest
  <2>1. (g \o taken) \o rest = g \o (taken \o rest)
    BY <1>5, <1>7, JoinedBytes, Zenon
  <2>2. g \o taken \in Seq(Byte)
    BY <1>5, <1>7, ConcatProperties
  <2> QED
    BY <2>1, <2>2
<1>9. /\ clients_sockets'[fd] = Rest(q, n)
      /\ got'[fd] = g \o taken
      /\ got' \in [Fd -> Seq(Byte)]
      /\ \A other \in Fd \ {fd} : /\ clients_sockets'[other] = clients_sockets[other]
                                  /\ got'[other] = got[other]
  BY <1>2, <1>4, <1>8 DEF Inv, Maps, StreamInv
<1>10. IsStream(g \o Unwritten(q), owed[fd])
  BY <1>2, <1>3, StreamIs DEF StreamInv
<1>11. IsStream(got'[fd] \o Unwritten(clients_sockets'[fd]), owed'[fd])
  BY <1>1, <1>5, <1>8, <1>9, <1>10
<1>12. IsClient(fd)'
  BY <1>6, <1>9, QueueIsClient DEF IsClient
<1> HIDE DEF fd
<1>13. EachGetsItsStream'
  BY <1>1, <1>2, <1>9, <1>11 DEF StreamInv, EachGetsItsStream, IsStream, IsClient
<1> QED
  BY <1>1, <1>2, <1>9, <1>12, <1>13 DEF StreamInv, IsClient

LEMMA StepStream == ASSUME NoNul, Inv, StreamInv, [Next]_vars PROVE StreamInv'
<1>1. ASSUME Peers PROVE StreamInv'
  <2>1. UNCHANGED <<clients_sockets, history>>
    BY <1>1 DEF Peers, Connect, Drain, Leave, Reset, Send, server, history
  <2> QED
    BY <2>1, SameStream
<1>2. ASSUME NEW event \in batch, HandleError(event) PROVE StreamInv'
  <2>1. event.fd \in Fd
    <3>1. event.flags = {} /\ {} # {"in"}
      BY <1>2 DEF HandleError
    <3> QED
      BY <3>1 DEF Inv, TypeOK, ServerReportsIn
  <2> QED
    BY <1>2, <2>1, EraseStream DEF HandleError
<1>3. ASSUME NEW event \in batch, HandleIn(event) \/ HandleOutFails(event) PROVE StreamInv'
  BY <1>3, SameStream DEF HandleIn, HandleOutFails
<1>4. ASSUME EpollWait \/ AcceptEnds \/ ReadEnds PROVE StreamInv'
  BY <1>4, SameStream DEF EpollWait, AcceptEnds, ReadEnds
<1>5. ASSUME ReadCloses PROVE StreamInv'
  BY <1>5, EraseStream DEF ReadCloses, Reading
<1>6. ASSUME UNCHANGED vars PROVE StreamInv'
  BY <1>6, SameStream DEF vars, server
<1> QED
  BY <1>1, <1>2, <1>3, <1>4, <1>5, <1>6, AcceptStream, AcceptFailsStream, ReadStream,
     HandleOutStream DEF Next, ServerStep

(* Whatever parts of the queues the kernel takes, whoever else comes,      *)
(* leaves or fails meanwhile, a client is written and queued whole         *)
(* messages of those the others sent since it was accepted, in the order   *)
(* they were read, and misses none but one read while a default Socket was *)
(* in the map; as long as no message holds a NUL (Socket.cpp:41-67,        *)
(* epoll_task.cpp:76, 105-109).                                            *)
THEOREM StreamTheorem == NoNul => (Spec => []EachGetsItsStream)
<1> SUFFICES ASSUME NoNul PROVE Spec => []EachGetsItsStream
  OBVIOUS
<1>1. Inv /\ StreamInv /\ [Next]_vars => StreamInv'
  BY StepStream
<1>2. StreamInv => EachGetsItsStream
  BY DEF StreamInv
<1> QED
  BY <1>1, <1>2, InitStream, InvAlways, PTL DEF Spec
=============================================================================
