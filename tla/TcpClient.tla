------------------------------ MODULE TcpClient ------------------------------
(***************************************************************************)
(* 07/client.c: one thread that waits with select for the server and the   *)
(* keyboard, and does nothing else while it sends or receives a file.      *)
(* Its socket blocks.                                                      *)
(***************************************************************************)
EXTENDS TcpNet

VARIABLES cpc,     \* where each client is
          crun,    \* running
          typed,   \* lines it has been given
          todo     \* pieces of the file that it sends or receives

clientVars == <<cpc, crun, typed, todo>>

ClientInit ==
    /\ cpc = [c \in Clients |-> "off"]
    /\ crun = [c \in Clients |-> TRUE]
    /\ typed = [c \in Clients |-> 0]
    /\ todo = [c \in Clients |-> 0]

Goto(c, l) == cpc' = [cpc EXCEPT ![c] = l]

(* send.  To a server that has closed it says nothing, or kills: Crash.    *)
Send(c, m) ==
    /\ shut[c] \/ Len(up[c]) < Cap
    /\ up' = IF shut[c] THEN up ELSE [up EXCEPT ![c] = Append(@, m)]

Connect(c, listening) ==
    /\ cpc[c] = "off"
    /\ Goto(c, IF listening THEN "init" ELSE "exited")
    /\ backlog' = IF listening THEN Append(backlog, c) ELSE backlog
    /\ UNCHANGED <<crun, typed, todo, up, down, gone, shut, lost>>

SendInit(c) ==
    /\ cpc[c] = "init"
    /\ Send(c, Piece("init", c))
    /\ Goto(c, "select")
    /\ UNCHANGED <<crun, typed, todo, backlog, down, gone, shut, lost>>

(* CLOSE, close and exit.                                                  *)
Leave(c) ==
    /\ cpc[c] = "leave"
    /\ Send(c, Piece("close", c))
    /\ gone' = [gone EXCEPT ![c] = 1]
    /\ Goto(c, "exited")
    /\ down' = [down EXCEPT ![c] = <<>>]
    /\ UNCHANGED <<crun, typed, todo, backlog, shut, lost>>

(* As while (1).                                                           *)
RoundAlways(run) == "select"

(* while (running), and select again.                                      *)
Round(run) == IF run THEN "select" ELSE "leave"

(* What was typed while select waited is handled in the same round.  The   *)
(* result of fgets is not looked at: at the end of the input each round    *)
(* handles the old line again, which is one more that is typed here.       *)
Keyboard(c) ==
    /\ MapThenSumSet(LAMBDA d : typed[d], Clients) < MaxLines
    /\ typed' = [typed EXCEPT ![c] = @ + 1]
    /\ Goto(c, "stdin")

Continue(c, run) ==
    \/ Goto(c, Round(run)) /\ UNCHANGED typed
    \/ Keyboard(c)

(* The size that a header says; what a file spells may say any.            *)
Size(m) == IF m.type = "bytes" THEN 0..FileLen ELSE {FileLen}

(* handle_server_message.  The file to receive may not be creatable.       *)
FromServer(c) ==
    /\ cpc[c] = "select"
    /\ \/ \E k \in 1..Len(down[c]) :
            /\ down' = [down EXCEPT ![c] = Rest(@, k)]
            /\ lost' = (lost \/ (down[c][1].as = "start" /\ (k > 1 \/ down[c][1].type = "bytes")))
            /\ \/ /\ down[c][1].as = "start"
                  /\ \E n \in Size(down[c][1]) \ {0} : todo' = [todo EXCEPT ![c] = n]
                  /\ Goto(c, "receive")
                  /\ UNCHANGED typed
               \/ Continue(c, crun[c]) /\ UNCHANGED todo
            /\ UNCHANGED crun
       \/ /\ down[c] = <<>> /\ shut[c]
          /\ crun' = [crun EXCEPT ![c] = FALSE]
          /\ Continue(c, FALSE)
          /\ UNCHANGED <<down, todo, lost>>
    /\ UNCHANGED <<backlog, up, gone, shut>>

(* receive_file: all that comes is the file, until it is long enough.  A   *)
(* recv that a signal interrupts is restarted.                             *)
ReceiveFile(c) ==
    /\ cpc[c] = "receive"
    /\ \/ \E k \in 1..Len(down[c]) :
            /\ down' = [down EXCEPT ![c] = Rest(@, k)]
            /\ todo' = [todo EXCEPT ![c] = IF k < @ THEN @ - k ELSE 0]
            /\ IF k < todo[c] THEN UNCHANGED <<cpc, typed>> ELSE Continue(c, crun[c])
       \/ /\ down[c] = <<>> /\ shut[c]
          /\ todo' = [todo EXCEPT ![c] = 0]
          /\ Continue(c, crun[c])
          /\ UNCHANGED down
    /\ UNCHANGED <<crun, backlog, up, gone, shut, lost>>

(* The user types a line while nothing comes from the server.              *)
Type(c) ==
    /\ cpc[c] = "select"
    /\ Keyboard(c)
    /\ UNCHANGED <<crun, todo, netVars>>

(* handle_console_command: a message, or /file and a file that exists; an  *)
(* empty line, or /file and none, sends nothing.                           *)
Command(c) ==
    /\ cpc[c] = "stdin"
    /\ \/ Send(c, Piece("mes", c)) /\ Goto(c, Round(crun[c])) /\ UNCHANGED todo
       \/ /\ Send(c, Piece("start", c))
          /\ todo' = [todo EXCEPT ![c] = FileLen] /\ Goto(c, "data")
       \/ Goto(c, Round(crun[c])) /\ UNCHANGED <<todo, up>>
    /\ UNCHANGED <<crun, typed, backlog, down, gone, shut, lost>>

SendBytes(c) == \E w \in FileWords : Send(c, Bytes(w, c))

(* As the sender that stops one piece before the end of the file.          *)
SendDataShort(c) ==
    /\ cpc[c] = "data"
    /\ IF todo[c] > 1
       THEN SendBytes(c) /\ todo' = [todo EXCEPT ![c] = @ - 1] /\ UNCHANGED cpc
       ELSE /\ Goto(c, Round(crun[c])) /\ todo' = [todo EXCEPT ![c] = 0]
            /\ UNCHANGED up
    /\ UNCHANGED <<crun, typed, backlog, down, gone, shut, lost>>

SendData(c) ==
    /\ cpc[c] = "data"
    /\ IF todo[c] > 0
       THEN SendBytes(c) /\ todo' = [todo EXCEPT ![c] = @ - 1] /\ UNCHANGED cpc
       ELSE Send(c, Piece("end", c)) /\ Goto(c, Round(crun[c])) /\ UNCHANGED todo
    /\ UNCHANGED <<crun, typed, backlog, down, gone, shut, lost>>

(* SIGINT makes select fail, unless it falls just before the call.         *)
Interrupt(c) ==
    /\ cpc[c] \notin {"off", "init", "exited"} /\ crun[c]
    /\ crun' = [crun EXCEPT ![c] = FALSE]
    /\ \/ cpc[c] = "select" /\ Goto(c, "leave")
       \/ UNCHANGED cpc
    /\ UNCHANGED <<typed, todo, netVars>>

(* SIGINT before signal(), SIGPIPE, or the terminal goes away.             *)
Crash(c) ==
    /\ cpc[c] \notin {"off", "exited"}
    /\ Goto(c, "exited")
    /\ gone' = [gone EXCEPT ![c] = 1]
    /\ down' = [down EXCEPT ![c] = <<>>]
    /\ crun' = [crun EXCEPT ![c] = FALSE] /\ todo' = [todo EXCEPT ![c] = 0]
    /\ lost' = (lost \/ cpc[c] = "data")
    /\ UNCHANGED <<typed, backlog, up, shut>>

Runs(c) ==
    SendInit(c) \/ Leave(c) \/ FromServer(c) \/ ReceiveFile(c) \/ Command(c) \/ SendData(c)
=============================================================================
