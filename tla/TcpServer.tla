------------------------------ MODULE TcpServer ------------------------------
(***************************************************************************)
(* 07/server.c: one thread that waits with epoll for the listening socket  *)
(* and for its clients, and handles the events of one epoll_wait in turn.  *)
(* A handler is one step: nobody else touches the server's state, and the  *)
(* client sockets do not block.                                            *)
(***************************************************************************)
EXTENDS TcpNet

VARIABLES spc,      \* "wait" (in epoll_wait), "batch", "exited", "killed"
          srun,     \* running
          slots,    \* clients[i].fd, 0 for a slot that is not active
          count,    \* client_count
          fds,      \* the connection behind each open descriptor
          batch     \* descriptors whose events are still to be handled

serverVars == <<spc, srun, slots, count, fds, batch>>

Slots == 1..MaxClients
Fd == 1..Cardinality(Clients)
Listen == 0

ServerInit ==
    /\ spc = "batch" /\ srun = TRUE
    /\ slots = [i \in Slots |-> 0] /\ count = 0
    /\ fds = [f \in Fd |-> None]
    /\ batch = <<>>

Active == {i \in Slots : slots[i] # 0}
Registered(c) == \E i \in Active : fds[slots[i]] = c
Lowest(S) == CHOOSE x \in S : \A y \in S : x <= y
-----------------------------------------------------------------------------
Room(c, pieces) == Len(down[c]) + Len(pieces) <= Cap

(* send to every active slot but the sender's.  The client that has closed *)
(* answers the first with a reset, if it was not empty; the second is      *)
(* SIGPIPE, and the server is killed on the spot.  What does not fit is    *)
(* not sent.  cut: the pieces are less than what was read.                 *)
Broadcast(sender, pieces, cut) ==
    LET targets == {i \in Active : fds[slots[i]] # sender}
        dead == {i \in targets : gone[fds[slots[i]]] = 2}
        reached == {fds[slots[i]] : i \in {j \in targets : \A d \in dead : j < d}}
        served == {c \in reached : gone[c] = 0 /\ Room(c, pieces)}
    IN  /\ down' = [c \in Clients |-> IF c \in served THEN down[c] \o pieces ELSE down[c]]
        /\ gone' = [c \in Clients |->
                       IF c \in reached /\ gone[c] = 1 /\ pieces # <<>> THEN 2 ELSE gone[c]]
        /\ spc' = IF dead = {} THEN spc ELSE "killed"
        /\ lost' = (lost \/ cut \/ \E c \in reached \ served : gone[c] = 0)

(* close(client_fd), of the connection or of all when the process ends.    *)
Closed(c) == shut' = [d \in Clients |-> shut[d] \/ d = c \/ spc' = "killed"]

(* As the CLOSE branch that forgets the slot, or the count.                *)
DropKeepsSlot(c, fd, cut) ==
    /\ Broadcast(c, <<Piece("leave", c)>>, cut)
    /\ UNCHANGED <<slots, count, fds>>
    /\ Closed(c)

DropKeepsCount(c, fd, cut) ==
    /\ Broadcast(c, <<Piece("leave", c)>>, cut)
    /\ slots' = [i \in Slots |-> IF slots[i] = fd THEN 0 ELSE slots[i]]
    /\ fds' = [fds EXCEPT ![fd] = None]
    /\ UNCHANGED count
    /\ Closed(c)

Drop(c, fd, cut) ==
    /\ Broadcast(c, <<Piece("leave", c)>>, cut)
    /\ slots' = [i \in Slots |-> IF slots[i] = fd THEN 0 ELSE slots[i]]
    /\ count' = count - 1
    /\ fds' = [fds EXCEPT ![fd] = None]
    /\ Closed(c)

(* What is passed on of the pieces that one recv has returned: of a file's *)
(* header only itself, of anything else one text, which ends at a zero.    *)
PassedOn(s) ==
    IF s[1].as = "start" THEN <<s[1]>>
    ELSE SubSeq(s, 1, Lowest({i \in 1..Len(s) : s[i].as = "zero"} \cup {Len(s) + 1}) - 1)

(* A keyword that a file spells is read, and what else is there is not.    *)
Spelled(m) == m.type = "bytes" /\ m.as \in {"start", "close"}

(* As the handler that takes n = 0 for nothing to do.                      *)
HandleMessageNoEof(fd) ==
    LET c == fds[fd] IN
    IF up[c] = <<>> THEN UNCHANGED <<spc, slots, count, fds, up, down, gone, shut, lost>>
    ELSE \E k \in 1..Len(up[c]) :
          LET read == SubSeq(up[c], 1, k)
              cut == Spelled(read[1]) \/ PassedOn(read) # read
          IN  /\ up' = [up EXCEPT ![c] = Rest(@, k)]
              /\ IF read[1].as = "close"
                 THEN Drop(c, fd, cut)
                 ELSE /\ Broadcast(c, PassedOn(read), cut)
                      /\ Closed(None)
                      /\ UNCHANGED <<slots, count, fds>>

(* handle_client_message.  An empty stream is EOF, an error or EAGAIN.     *)
HandleMessage(fd) ==
    LET c == fds[fd] IN
    \/ /\ up[c] = <<>>
       /\ Drop(c, fd, FALSE) /\ UNCHANGED up
    \/ \E k \in 1..Len(up[c]) :
          LET read == SubSeq(up[c], 1, k)
              cut == Spelled(read[1]) \/ PassedOn(read) # read
          IN  /\ up' = [up EXCEPT ![c] = Rest(@, k)]
              /\ IF read[1].as = "close"
                 THEN Drop(c, fd, cut)
                 ELSE /\ Broadcast(c, PassedOn(read), cut)
                      /\ Closed(None)
                      /\ UNCHANGED <<slots, count, fds>>

(* As the early return that forgets to close.                              *)
RefuseOpen(c) ==
    /\ down' = [down EXCEPT ![c] = IF count >= MaxClients THEN <<Piece("full", c)>> ELSE @]
    /\ UNCHANGED <<spc, up, gone, lost, shut, slots, count, fds>>

(* As the early return that counts down what was not counted yet.          *)
RefuseCounts(c) ==
    /\ down' = [down EXCEPT ![c] = IF count >= MaxClients THEN <<Piece("full", c)>> ELSE @]
    /\ count' = count - 1
    /\ UNCHANGED <<spc, up, gone, lost, slots, fds>>
    /\ Closed(c)

Refuse(c) ==
    /\ down' = [down EXCEPT ![c] = IF count >= MaxClients THEN <<Piece("full", c)>> ELSE @]
    /\ UNCHANGED <<spc, up, gone, lost, slots, count, fds>>
    /\ Closed(c)

(* handle_new_connection.  The INIT must have arrived, or recv fails; what *)
(* has come behind it is read with it and goes no further.                 *)
HandleConnection ==
    LET c == Head(backlog)
        free == Slots \ Active
        fd == Lowest({f \in Fd : fds[f] = None})
    IN  /\ backlog' = Tail(backlog)
        /\ IF count >= MaxClients \/ free = {} \/ up[c] = <<>>
           THEN Refuse(c)
           ELSE \E k \in 1..Len(up[c]) :
                  /\ up' = [up EXCEPT ![c] = Rest(@, k)]
                  /\ IF up[c][1].as = "init"
                     THEN /\ slots' = [slots EXCEPT ![Lowest(free)] = fd]
                          /\ count' = count + 1
                          /\ fds' = [fds EXCEPT ![fd] = c]
                          /\ Broadcast(c, <<Piece("join", c)>>, k > 1)
                          /\ Closed(None)
                     ELSE UNCHANGED <<spc, down, gone, lost, slots, count, fds>> /\ Closed(c)
-----------------------------------------------------------------------------
(* The main loop.                                                          *)

(* All events are handled: while (running), or the end of the process.     *)
BatchEnd ==
    /\ spc = "batch" /\ batch = <<>>
    /\ IF srun THEN spc' = "wait" /\ UNCHANGED netVars
       ELSE /\ spc' = "exited"
            /\ shut' = [c \in Clients |-> TRUE]
            /\ backlog' = <<>> /\ up' = [c \in Clients |-> <<>>]
            /\ UNCHANGED <<down, gone, lost>>
    /\ UNCHANGED <<srun, slots, count, fds, batch>>

(* As the loop that looks at every client, whether it has an event or not. *)
ReadyAll(f) == IF f = Listen THEN backlog # <<>> ELSE fds[f] # None

Ready(f) ==
    IF f = Listen THEN backlog # <<>>
    ELSE fds[f] # None /\ (up[fds[f]] # <<>> \/ gone[fds[f]] > 0)

(* epoll_wait gives at most MaxEvents of the ready descriptors, in the     *)
(* order in which they became ready.                                       *)
EpollWait ==
    LET ready == {f \in Fd \cup {Listen} : Ready(f)}
        n == IF Cardinality(ready) < MaxEvents THEN Cardinality(ready) ELSE MaxEvents
    IN  /\ spc = "wait" /\ ready # {}
        /\ batch' \in {s \in [1..n -> ready] : \A i, j \in 1..n : s[i] = s[j] => i = j}
        /\ spc' = "batch"
        /\ UNCHANGED <<srun, slots, count, fds, netVars>>

Handle ==
    /\ spc = "batch" /\ batch # <<>>
    /\ batch' = Tail(batch)
    /\ LET fd == Head(batch) IN
       CASE fd = Listen -> HandleConnection
         [] fd # Listen /\ (\E i \in Slots : slots[i] = fd) ->
               HandleMessage(fd) /\ UNCHANGED backlog
         [] OTHER -> UNCHANGED <<spc, slots, count, fds, netVars>>
    /\ UNCHANGED srun

(* SIGINT: epoll_wait is never restarted, but may be missed.               *)
ServerInterrupt ==
    /\ srun /\ spc \notin {"exited", "killed"}
    /\ srun' = FALSE
    /\ spc' \in IF spc = "wait" THEN {"wait", "batch"} ELSE {spc}
    /\ UNCHANGED <<slots, count, fds, batch, netVars>>

Server == EpollWait \/ Handle \/ BatchEnd
ServerGone == spc \in {"exited", "killed"}
=============================================================================
