------------------------------- MODULE TcpChat -------------------------------
(***************************************************************************)
(* The chat of 07: the server and its clients over the network.            *)
(***************************************************************************)
EXTENDS TcpServer, TcpClient

vars == <<netVars, serverVars, clientVars>>

Init == NetInit /\ ServerInit /\ ClientInit

Stops == Cardinality({c \in Clients : ~crun[c]}) + IF srun THEN 0 ELSE 1

Next ==
    \/ Server /\ UNCHANGED clientVars
    \/ Stops < MaxStops /\ ServerInterrupt /\ UNCHANGED clientVars
    \/ \E c \in Clients :
         /\ \/ Connect(c, ~ServerGone) \/ Runs(c) \/ Type(c)
            \/ Stops < MaxStops /\ (Interrupt(c) \/ Crash(c))
         /\ UNCHANGED serverVars

Spec ==
    /\ Init /\ [][Next]_vars
    /\ WF_vars(Server /\ UNCHANGED clientVars)
    /\ \A c \in Clients : WF_vars(Runs(c) /\ UNCHANGED serverVars)
-----------------------------------------------------------------------------
Pieces(types) == {Piece(t, c) : t \in types, c \in Clients}
FileBytes == {Bytes(w, c) : w \in FileWords, c \in Clients}
Texts == {"mes", "start", "end", "close"}

TypeOK ==
    /\ spc \in {"wait", "batch", "exited", "killed"}
    /\ slots \in [Slots -> Fd \cup {0}] /\ count \in 0..MaxClients
    /\ fds \in [Fd -> Clients \cup {None}]
    /\ cpc \in [Clients -> {"off", "init", "select", "stdin", "data", "receive",
                             "leave", "exited"}]
    /\ todo \in [Clients -> 0..FileLen]
    /\ \A c \in Clients :
          /\ Len(up[c]) <= Cap /\ Len(down[c]) <= Cap
          /\ \A i \in DOMAIN up[c] : up[c][i] \in Pieces(Texts \cup {"init"}) \cup FileBytes
          /\ \A i \in DOMAIN down[c] :
                down[c][i] \in Pieces(Texts \cup {"join", "leave", "full"}) \cup FileBytes

(* client_count, the slots and the open descriptors agree, through accept, *)
(* refusals, CLOSE and EOF (07/server.c:150-153, 179-185, 238-284): no     *)
(* descriptor is leaked or shared, and who has a slot has a connection.    *)
SlotsAgree == ServerGone \/
    /\ count = Cardinality(Active)
    /\ \A i, j \in Active : i # j => slots[i] # slots[j]
    /\ {slots[i] : i \in Active} = {f \in Fd : fds[f] # None}
    /\ \A c \in Clients : Registered(c) => ~shut[c]

(* A client that has connected waits for accept, has a slot or is told     *)
(* that its connection is closed, also one that connects at the limit, or  *)
(* whose INIT comes late (07/server.c:238-279).                            *)
NoLimbo == \A c \in Clients :
    cpc[c] \in {"off", "exited"} \/ ServerGone \/ shut[c] \/ Registered(c)
       \/ \E i \in DOMAIN backlog : backlog[i] = c

(* What one client is told of another ends with its LEAVE, given once, and *)
(* then that client has no slot (07/server.c:142-156, 165-186).            *)
LeaveIsLast == \A w, c \in Clients : \A i \in DOMAIN down[w] :
    down[w][i] = Piece("leave", c) =>
       /\ ServerGone \/ ~Registered(c)
       /\ \A j \in i + 1..Len(down[w]) : down[w][j].from # c

(* The server lets go of nobody who is still there: an event whose         *)
(* connection has gone, or that belongs to an earlier owner of its         *)
(* descriptor, would find EAGAIN, which is taken for the end (07/server.c: *)
(* 138-140, 358-369).  Only the bytes of a file that spell CLOSE: (165)    *)
(* end the connection of the client that sends it.                         *)
OnlyTheGoneAreDropped ==
    [][\A c \in Clients : Registered(c) /\ ~Registered(c)' =>
          cpc[c] = "exited" \/ (up[c] # <<>> /\ up[c][1] = Bytes("close", c))]_vars

(* The server forgets whoever has left or was killed, if it goes on itself *)
(* (SIGPIPE kills it: 07/server.c:85).                                     *)
Forgotten == <>[](ServerGone \/ \A c \in Clients : cpc[c] = "exited" => ~Registered(c))

(* A client that is told to stop ends, unless the signal falls just before *)
(* select and nothing comes any more (07/client.c:235-242), or it waits    *)
(* for the rest of a file (52, restarted).                                 *)
ClientsLeave == <>[](\A c \in Clients :
    crun[c] \/ cpc[c] = "exited" \/ (cpc[c] \in {"select", "receive"} /\ ~shut[c]))

(* receive_file comes to its end, with other people's messages in the file *)
(* perhaps (07/client.c:51-56), unless some piece was lost on the way: to  *)
(* a full buffer, behind an INIT or a FILE_START that was read together    *)
(* with it (07/server.c:189-207, 266-279, 07/client.c:88-96), behind a     *)
(* zero (07/server.c:85), for a keyword that the file spells (07/server.c: *)
(* 165, 189), or because the sender died.                                  *)
FilesEnd == <>[](lost \/ \A c \in Clients : cpc[c] # "receive")

(* CONSTRAINT: lost stays once it is set, and FilesEnd asks no more then.  *)
NothingLost == ~lost
=============================================================================
