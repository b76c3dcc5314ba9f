------------------------------ MODULE EpollChat ------------------------------
(***************************************************************************)
(* The chat server of 04-epoll: one thread, one level-triggered epoll.     *)
(* What a client sends is queued for every other client and written out as *)
(* their sockets take it.  An action of the server is what it does up to   *)
(* and after one accept, read or write; connections come, send, drain,     *)
(* leave and fail in between, also between two events of one epoll_wait.   *)
(*                                                                         *)
(* The kernel is external, and modelled as TCP is: a socket that reported  *)
(* EPOLLOUT takes at least one byte, or fails because the connection was   *)
(* reset; EPOLL_CTL_MOD of a registered descriptor succeeds.               *)
(***************************************************************************)
EXTENDS Naturals, Sequences, FiniteSets, SequencesExt

CONSTANTS Fd,              \* descriptors that accept may return
          Server,          \* server_socket
          Byte, Nul,       \* the bytes, and the byte '\0'
          Messages,        \* what one read may return: sequences of bytes
          MaxConnections,  \* bound on the connections made
          MaxSends,        \* bound on the messages sent
          None, Moved      \* no entry in a map; a default-constructed Socket

ASSUME ChatAssumption ==
    /\ Server \notin Fd
    /\ None \notin Fd \cup {Server}
    /\ \A m \in Messages : m \in Seq(Byte) /\ m # <<>>
    /\ MaxConnections \in Nat

VARIABLES
    (* the server *)
    clients_sockets,   \* per descriptor: the write_queue of its Socket
    batch,             \* the events of the last epoll_wait not yet looked at
    current,           \* the descriptor whose accept or read loop is on
    running,           \* it has not called exit
    (* the kernel *)
    interest,          \* per descriptor: the events it is registered for
    conn, inbox, full, \* per descriptor: state, unread messages, no room to write
    backlog,           \* connections to accept
    connections, sends,
    (* history *)
    owed,              \* per descriptor: the messages others sent since it was accepted,
                       \* each with whether a default Socket was in the map as it was read
    got                \* per descriptor: the bytes written to it

server == <<clients_sockets, batch, current, running, interest>>
kernel == <<conn, inbox, full, backlog, connections, sends>>
history == <<owed, got>>
vars == <<server, kernel, history>>

Init ==
    /\ clients_sockets = [fd \in Fd |-> None]
    /\ batch = {} /\ current = None /\ running = TRUE
    /\ interest = [fd \in Fd |-> {}]
    /\ conn = [fd \in Fd |-> "closed"]
    /\ inbox = [fd \in Fd |-> <<>>]
    /\ full = [fd \in Fd |-> FALSE]
    /\ backlog = 0 /\ connections = 0 /\ sends = 0
    /\ owed = [fd \in Fd |-> <<>>]
    /\ got = [fd \in Fd |-> <<>>]

-----------------------------------------------------------------------------
(* The other end of the connections *)

Connect ==
    /\ connections < MaxConnections
    /\ connections' = connections + 1
    /\ backlog' = backlog + 1
    /\ UNCHANGED <<server, conn, inbox, full, sends, history>>

Send(fd, m) ==
    /\ sends < MaxSends
    /\ conn[fd] = "open"
    /\ inbox' = [inbox EXCEPT ![fd] = Append(@, m)]
    /\ sends' = sends + 1
    /\ UNCHANGED <<server, conn, full, backlog, connections, history>>

Drain(fd) ==
    /\ full[fd] /\ conn[fd] \in {"open", "left"}
    /\ full' = [full EXCEPT ![fd] = FALSE]
    /\ UNCHANGED <<server, conn, inbox, backlog, connections, sends, history>>

(* The peer shuts the connection down, or resets it. *)
Leave(fd) ==
    /\ conn[fd] = "open"
    /\ conn' = [conn EXCEPT ![fd] = "left"]
    /\ UNCHANGED <<server, inbox, full, backlog, connections, sends, history>>

Reset(fd) ==
    /\ conn[fd] \in {"open", "left"}
    /\ conn' = [conn EXCEPT ![fd] = "reset"]
    /\ UNCHANGED <<server, inbox, full, backlog, connections, sends, history>>

-----------------------------------------------------------------------------
(* The event loop *)

Looping == running /\ current = None

(* What epoll_wait reports of a descriptor; of a failed connection perhaps *)
(* the error alone.                                                        *)
Reported(fd) ==
    LET in == IF inbox[fd] # <<>> \/ conn[fd] # "open" THEN {"in"} ELSE {}
        out == IF ~ full[fd] \/ conn[fd] = "reset" THEN {"out"} ELSE {}
        flags == interest[fd] \cap (in \cup out)
    IN  IF conn[fd] = "reset" THEN {flags, flags \ {"in"}} ELSE {flags} \ {{}}

Ready == {fd \in Fd : interest[fd] # {} /\ Reported(fd) # {}}

EpollWait ==
    /\ Looping /\ batch = {}
    /\ Ready # {} \/ backlog > 0
    /\ \E flags \in [Ready -> SUBSET {"in", "out"}] :
           /\ \A fd \in Ready : flags[fd] \in Reported(fd)
           /\ batch' = {[fd |-> fd, flags |-> flags[fd]] : fd \in Ready}
                       \cup {[fd |-> s, flags |-> {"in"}] : s \in {s \in {Server} : backlog > 0}}
    /\ UNCHANGED <<clients_sockets, current, running, interest, kernel, history>>

(* The handler of SocketException closes and exits by a socket_fd that its *)
(* constructor leaves uninitialised: unless it happens to be 0, exit.      *)
Throw == running' \in BOOLEAN

(* Mutant: a destructor that does not close. *)
EraseEntry(fd) ==
    /\ clients_sockets' = [clients_sockets EXCEPT ![fd] = None]
    /\ UNCHANGED <<interest, running, kernel, history>>

(* ~Socket closes the descriptor, which ends its registration. *)
Erase(fd) ==
    /\ clients_sockets' = [clients_sockets EXCEPT ![fd] = None]
    /\ interest' = [interest EXCEPT ![fd] = {}]
    /\ conn' = [conn EXCEPT ![fd] = "closed"]
    /\ inbox' = [inbox EXCEPT ![fd] = <<>>]
    /\ full' = [full EXCEPT ![fd] = FALSE]
    /\ owed' = [owed EXCEPT ![fd] = <<>>]
    /\ got' = [got EXCEPT ![fd] = <<>>]
    /\ UNCHANGED <<running, backlog, connections, sends>>

(* Neither EPOLLOUT nor EPOLLIN. *)
HandleError(event) ==
    /\ Looping /\ event \in batch /\ event.flags = {}
    /\ batch' = batch \ {event}
    /\ Erase(event.fd)
    /\ UNCHANGED current

(* On to the accept loop, or to the read loop. *)
HandleIn(event) ==
    /\ Looping /\ event \in batch /\ event.flags = {"in"}
    /\ batch' = batch \ {event}
    /\ current' = event.fd
    /\ UNCHANGED <<clients_sockets, running, interest, kernel, history>>

-----------------------------------------------------------------------------
(* Accepting *)

Accepted(fd) ==
    /\ current = Server /\ running
    /\ backlog > 0 /\ conn[fd] = "closed"
    /\ backlog' = backlog - 1
    /\ conn' = [conn EXCEPT ![fd] = "open"]
    /\ UNCHANGED <<batch, inbox, full, connections, sends, history>>

Accept(fd) ==
    /\ Accepted(fd)
    /\ clients_sockets' = [clients_sockets EXCEPT ![fd] = <<>>]
    /\ interest' = [interest EXCEPT ![fd] = {"in"}]
    /\ UNCHANGED <<current, running>>

(* Socket::create throws: the descriptor stays open and unregistered, and  *)
(* operator[] may already have put a default Socket into the map (C++11    *)
(* leaves the order open).                                                 *)
AcceptFails(fd) ==
    /\ Accepted(fd)
    /\ \E soc \in {None, Moved} : clients_sockets' = [clients_sockets EXCEPT ![fd] = soc]
    /\ current' = None
    /\ Throw
    /\ UNCHANGED interest

(* EAGAIN, or another error: no descriptor is left. *)
AcceptEnds ==
    /\ current = Server /\ running
    /\ backlog = 0 \/ \A fd \in Fd : conn[fd] # "closed"
    /\ current' = None
    /\ UNCHANGED <<clients_sockets, batch, running, interest, kernel, history>>

-----------------------------------------------------------------------------
(* Writing *)

(* strncpy(buffer, _buffer, size): what follows a NUL is NUL. *)
Copy(m) == [i \in DOMAIN m |-> IF \E j \in 1 .. i : m[j] = Nul THEN Nul ELSE m[i]]

WriteTask(m) == [buffer |-> Copy(m), offset |-> 0]

(* Mutant: a task is popped after any write. *)
RestWithout(write_queue, n) == Tail(write_queue)

(* Socket::write, when the kernel takes n bytes of the first task. *)
Rest(write_queue, n) ==
    LET task == Head(write_queue)
    IN  IF task.offset + n = Len(task.buffer) THEN Tail(write_queue)
        ELSE <<[task EXCEPT !.offset = @ + n]>> \o Tail(write_queue)

(* Mutants: EPOLLOUT stays on; goes although something is left; the        *)
(* registration ends with it.                                              *)
StaysArmed(events, write_queue) == events
AlwaysDisarmed(events, write_queue) == {"in"}
Unregistered(events, write_queue) == IF write_queue = <<>> THEN {} ELSE events

(* The registration after a write. *)
Disarmed(events, write_queue) == IF write_queue = <<>> THEN {"in"} ELSE events

HandleOut(event) ==
    LET fd == event.fd
        task == Head(clients_sockets[fd])
    IN  /\ Looping /\ event \in batch /\ "out" \in event.flags
        /\ batch' = batch \ {event}
        /\ conn[fd] # "reset"
        /\ \E n \in 1 .. Len(task.buffer) - task.offset, no_room \in BOOLEAN :
               /\ no_room \/ n = Len(task.buffer) - task.offset
               /\ clients_sockets' = [clients_sockets EXCEPT ![fd] = Rest(@, n)]
               /\ got' = [got EXCEPT ![fd] =
                             @ \o SubSeq(task.buffer, task.offset + 1, task.offset + n)]
               /\ full' = [full EXCEPT ![fd] = no_room]
        /\ interest' = [interest EXCEPT ![fd] = Disarmed(@, clients_sockets'[fd])]
        /\ current' = IF "in" \in event.flags THEN fd ELSE None
        /\ UNCHANGED <<running, conn, inbox, backlog, connections, sends, owed>>

(* ::write fails: the rest of the event is skipped. *)
HandleOutFails(event) ==
    /\ Looping /\ event \in batch /\ "out" \in event.flags
    /\ batch' = batch \ {event}
    /\ conn[event.fd] = "reset"
    /\ Throw
    /\ UNCHANGED <<clients_sockets, current, interest, kernel, history>>

-----------------------------------------------------------------------------
(* Reading *)

Reading == running /\ current \in Fd

Others == {fd \in Fd : clients_sockets[fd] # None} \ {current}

(* Mutant: EPOLLIN is forgotten. *)
ArmedForOut(events, write_queue) == IF write_queue = <<>> THEN {"out"} ELSE events

(* The registration in add_writetask. *)
Armed(events, write_queue) == IF write_queue = <<>> THEN {"in", "out"} ELSE events

Orphans == {fd \in Others : clients_sockets[fd] = Moved}

(* add_writetask of the sockets reached.  The message is for all the other *)
(* clients, and owed to them.                                              *)
AddWriteTask(reached, m) ==
    /\ clients_sockets' = [fd \in Fd |->
           IF fd \in reached THEN Append(clients_sockets[fd], WriteTask(m))
           ELSE clients_sockets[fd]]
    /\ interest' = [fd \in Fd |->
           IF fd \in reached THEN Armed(interest[fd], clients_sockets[fd]) ELSE interest[fd]]
    /\ owed' = [fd \in Fd |->
           IF fd \in Others \ Orphans
           THEN Append(owed[fd], [buffer |-> m, orphan |-> Orphans # {}]) ELSE owed[fd]]

(* One turn of the read loop: the message is queued for all other clients. *)
Read ==
    /\ Reading /\ inbox[current] # <<>>
    /\ Orphans = {}
    /\ AddWriteTask(Others, Head(inbox[current]))
    /\ inbox' = [inbox EXCEPT ![current] = Tail(@)]
    /\ UNCHANGED <<batch, current, running, conn, full, backlog, connections, sends, got>>

(* "Socket is moved": those that come later in the map do not get it. *)
ReadFails ==
    /\ Reading /\ inbox[current] # <<>>
    /\ Orphans # {}
    /\ \E reached \in SUBSET (Others \ Orphans) : AddWriteTask(reached, Head(inbox[current]))
    /\ inbox' = [inbox EXCEPT ![current] = Tail(@)]
    /\ current' = None
    /\ Throw
    /\ UNCHANGED <<batch, conn, full, backlog, connections, sends, got>>

(* EAGAIN. *)
ReadEnds ==
    /\ Reading /\ inbox[current] = <<>>
    /\ conn[current] = "open"
    /\ current' = None
    /\ UNCHANGED <<clients_sockets, batch, running, interest, kernel, history>>

(* Mutant: no break out of the read loop. *)
ReadGoesOn ==
    /\ Reading /\ inbox[current] = <<>>
    /\ conn[current] \in {"left", "reset"}
    /\ Erase(current)
    /\ UNCHANGED <<batch, current>>

(* End of file, or an error. *)
ReadCloses ==
    /\ Reading /\ inbox[current] = <<>>
    /\ conn[current] \in {"left", "reset"}
    /\ Erase(current)
    /\ current' = None
    /\ UNCHANGED batch

-----------------------------------------------------------------------------

Peers ==
    \/ Connect
    \/ \E fd \in Fd : Drain(fd) \/ Leave(fd) \/ Reset(fd) \/ \E m \in Messages : Send(fd, m)

ServerStep ==
    \/ EpollWait
    \/ \E event \in batch :
           HandleIn(event) \/ HandleOut(event) \/ HandleOutFails(event) \/ HandleError(event)
    \/ \E fd \in Fd : Accept(fd) \/ AcceptFails(fd)
    \/ AcceptEnds
    \/ Read \/ ReadFails \/ ReadEnds \/ ReadCloses

Next == Peers \/ ServerStep

(* The server never blocks while an event is pending; peers that stay      *)
(* connected read what they are sent.                                      *)
Fairness == WF_vars(ServerStep) /\ \A fd \in Fd : WF_vars(Drain(fd))

Spec == Init /\ [][Next]_vars /\ Fairness

-----------------------------------------------------------------------------

Task == [buffer : {Copy(m) : m \in Messages}, offset : Nat]

ASSUME MapAssumption == {None, Moved} \cap Seq(Task) = {}

IsClient(fd) == clients_sockets[fd] \notin {None, Moved}

Queued(fd) == IsClient(fd) /\ clients_sockets[fd] # <<>>

TypeOK ==
    /\ \A fd \in Fd : IsClient(fd) => clients_sockets[fd] \in Seq(Task)
    /\ \A event \in batch : event.fd \in Fd \cup {Server} /\ event.flags \subseteq {"in", "out"}
    /\ current \in Fd \cup {Server, None}
    /\ running \in BOOLEAN
    /\ interest \in [Fd -> {{}, {"in"}, {"in", "out"}}]
    /\ conn \in [Fd -> {"closed", "open", "left", "reset"}]
    /\ full \in [Fd -> BOOLEAN]
    /\ backlog \in 0 .. MaxConnections

(* EPOLLOUT is asked for exactly while something is queued: never with an  *)
(* empty queue, whose front() write would take, never left out with a      *)
(* full one (Socket.cpp:52-61, 69-77).                                     *)
ArmedIffQueued == \A fd \in Fd : Queued(fd) <=> "out" \in interest[fd]

(* An event that waits its turn is about a socket that is still the one it *)
(* was reported for: what earlier events of the batch closed, accepted or  *)
(* queued does not make it stale (epoll_task.cpp:53-83).                   *)
EventsAreCurrent ==
    /\ \A event \in batch :
           event.fd \in Fd => IsClient(event.fd) /\ ("out" \in event.flags => Queued(event.fd))
    /\ \A e1, e2 \in batch : e1.fd = e2.fd => e1 = e2
    /\ current \in Fd => IsClient(current) /\ \A event \in batch : event.fd # current

(* The map and the kernel agree: a socket in the map is open and           *)
(* registered, and no other descriptor is registered, so none is polled    *)
(* for ever without an owner (Socket.cpp:15-25, epoll_task.cpp:76, 113).   *)
RegisteredAreClients ==
    \A fd \in Fd : /\ IsClient(fd) <=> interest[fd] # {}
                   /\ IsClient(fd) => conn[fd] # "closed"

Unwritten(write_queue) ==
    FlattenSeq([i \in DOMAIN write_queue |->
        SubSeq(write_queue[i].buffer, write_queue[i].offset + 1, Len(write_queue[i].buffer))])

(* The bytes of the messages kept. *)
Kept(sent, kept) ==
    FlattenSeq([i \in DOMAIN sent |-> IF i \in kept THEN sent[i].buffer ELSE <<>>])

(* What a client has been written and what is queued for it are together   *)
(* what the others sent since it was accepted, byte for byte, whole        *)
(* messages in the order they were read, however many writes it takes.     *)
(* None is missing but one that was read while a default Socket, left by   *)
(* an accept that threw, was in the map: its add_writetask throws, and the *)
(* clients behind it are skipped (Socket.cpp:41-67, epoll_task.cpp:76,     *)
(* 105-109).                                                               *)
EachGetsItsStream ==
    \A fd \in Fd : IsClient(fd) =>
        \E kept \in SUBSET DOMAIN owed[fd] :
            /\ \A i \in DOMAIN owed[fd] : ~ owed[fd][i].orphan => i \in kept
            /\ got[fd] \o Unwritten(clients_sockets[fd]) = Kept(owed[fd], kept)

(* What is queued for a client is written out, unless its connection or    *)
(* the server ends first (epoll_task.cpp:79-84, Socket.cpp:41-62).         *)
QueueDrains ==
    \A fd \in Fd : Queued(fd) ~> (~ Queued(fd) \/ conn[fd] = "reset" \/ ~ running)

(* What a client sends is read, though it may be in the middle of being    *)
(* sent to, or others leave and fail (epoll_task.cpp:86-111).              *)
InboxIsRead ==
    \A fd \in Fd : (inbox[fd] # <<>> /\ IsClient(fd))
                       ~> (inbox[fd] = <<>> \/ conn[fd] = "reset" \/ ~ running)
=============================================================================
