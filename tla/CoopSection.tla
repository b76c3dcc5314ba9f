---------------------------- MODULE CoopSection ----------------------------
(***************************************************************************)
(* What Coroutine::Engine promises its clients, with no run list, no block *)
(* table and no callers: routines run one at a time and take turns where   *)
(* they call the library; a blocking call ends when, and only when, the    *)
(* channel lets it; start returns once every routine is done; a dead lock  *)
(* is reported only when nobody can go on.  Who gets control is left open. *)
(***************************************************************************)
CONSTANTS Routine, Descriptor, Request, Null,
          NewChanels,          \* what get_chanel may put in the table
          Possible(_, _),      \* chanel, request: it need not wait
          After(_, _)          \* chanel, request: the chanel after it

VARIABLES live,      \* the routines that have started and not completed
          running,   \* the one that has control
          want,      \* per routine: the blocking call it is in
          table,     \* the channels
          status     \* outside or inside start, dead_lock or crashed

vars == <<live, running, want, table, status>>

Init ==
    /\ live = {} /\ running = Null /\ status = "outside"
    /\ want = [r \in Routine |-> Null]
    /\ table = [cd \in Descriptor |-> Null]

(* r is in a call that the channel does not let it finish now. *)
Stuck(r) == want[r] # Null /\ ~ Possible(table[want[r].cd], want[r])

Free == status = "inside" /\ want[running] = Null

Enter(r) ==
    /\ status = "outside" /\ live = {}
    /\ live' = {r} /\ running' = r /\ status' = "inside"
    /\ UNCHANGED <<want, table>>

Spawn(r) ==
    /\ Free /\ r \notin live
    /\ live' = live \cup {r}
    /\ UNCHANGED <<running, want, table, status>>

Switch(r) ==
    /\ status = "inside" /\ r \in live
    /\ want[running] = Null \/ Stuck(running)
    /\ running' = r
    /\ UNCHANGED <<live, want, table, status>>

(* A call on a channel that need not, or need no longer, wait. *)
Transfer(req) ==
    /\ status = "outside" \/ Free \/ (status = "inside" /\ want[running] = req)
    /\ table[req.cd] # Null /\ Possible(table[req.cd], req)
    /\ table' = [table EXCEPT ![req.cd] = After(@, req)]
    /\ want' = [r \in Routine |-> IF r = running THEN Null ELSE want[r]]
    /\ UNCHANGED <<live, running, status>>

(* A call that has to wait passes control on. *)
Wait(req) ==
    /\ Free
    /\ table[req.cd] # Null /\ ~ Possible(table[req.cd], req)
    /\ want' = [want EXCEPT ![running] = req]
    /\ running' \in live
    /\ UNCHANGED <<live, table, status>>

(* ... or is the one that leaves nobody to go on. *)
Deadlock ==
    /\ status = "inside"
    /\ \E req \in Request :
           /\ table[req.cd] # Null
           /\ want[running] \in {Null, req}
           /\ want' = [want EXCEPT ![running] = req]
    /\ status' = "dead_lock"
    /\ \A r \in live : Stuck(r)'
    /\ UNCHANGED <<live, running, table>>

Finish ==
    /\ Free
    /\ live' = live \ {running}
    /\ \/ live' = {} /\ running' = Null /\ status' = "outside"
       \/ running' \in live' /\ UNCHANGED status
       \/ running' = Null /\ status' = "crashed"
    /\ UNCHANGED <<want, table>>

Open(cd) ==
    /\ status = "outside" \/ Free
    /\ table[cd] = Null
    /\ \E chanel \in NewChanels : table' = [table EXCEPT ![cd] = chanel]
    /\ UNCHANGED <<live, running, want, status>>

Close(cd) ==
    /\ status = "outside" \/ Free
    /\ \A r \in Routine : want[r] # Null => want[r].cd # cd
    /\ table' = [table EXCEPT ![cd] = Null]
    /\ UNCHANGED <<live, running, want, status>>

Next ==
    \/ \E r \in Routine : Enter(r) \/ Spawn(r) \/ Switch(r)
    \/ \E req \in Request : Transfer(req) \/ Wait(req)
    \/ Deadlock
    \/ Finish
    \/ \E cd \in Descriptor : Open(cd) \/ Close(cd)

Spec == Init /\ [][Next]_vars
=============================================================================
