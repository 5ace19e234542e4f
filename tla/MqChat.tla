------------------------------- MODULE MqChat -------------------------------
(***************************************************************************)
(* 03/main.c: two people chat over two POSIX queues.  Who creates the name *)
(* _1 is the first user, reads _1 and writes _2; anybody who comes later   *)
(* is a second user and does the opposite.                                 *)
(*                                                                         *)
(* Each program has a thread that writes (from the keyboard to a blocking  *)
(* queue), one that reads (polling), and main, which waits for both.  The  *)
(* handler of SIGINT only clears running, and signal() restarts the calls  *)
(* that it interrupts.                                                     *)
(*                                                                         *)
(* A queue lives as long as a name or a descriptor leads to it; what is in *)
(* it when the last of these goes is gone with it.                         *)
(***************************************************************************)
EXTENDS Naturals, SequencesExt

CONSTANTS Users,    \* the processes that will be started
          None,
          MaxMsg,   \* MAX_MSG_COUNT
          MaxLines  \* bound: lines that are typed, in all

ASSUME ChatAssumption ==
    None \notin Users \X {1, 2} /\ MaxMsg \in Nat \ {0} /\ MaxLines \in Nat

VARIABLES main,     \* where each main is
          writer,   \* and its two threads
          reader,
          running,
          name,     \* the queue that each name stands for
          wq, rq,   \* the queues that a user writes and reads
          q,        \* what is in each queue
          typed,    \* how many lines u has typed
          seen,     \* what u has been shown
          lost      \* what was in a queue when the queue went

openVars == <<name, wq, rq>>
chatVars == <<q, typed, seen, lost>>
vars == <<main, writer, reader, running, openVars, chatVars>>

(* A queue is known by who created it and under which name.                *)
Queue == Users \X {1, 2}

(* As with the global priority (03/main.c:23), counted up.                 *)
TextCounted(u, n) == [from |-> u, n |-> n, prio |-> n]

Text(u, n) == [from |-> u, n |-> n, prio |-> 1]
Goodbye(u) == [from |-> u, n |-> 0, prio |-> 2]
Message == [from : Users, n : Nat, prio : {1, 2}]

Init ==
    /\ main = [u \in Users |-> "off"]
    /\ writer = [u \in Users |-> "off"]
    /\ reader = [u \in Users |-> "off"]
    /\ running = [u \in Users |-> TRUE]
    /\ name = [k \in {1, 2} |-> None]
    /\ wq = [u \in Users |-> None] /\ rq = [u \in Users |-> None]
    /\ q = [c \in Queue |-> <<>>]
    /\ typed = [u \in Users |-> 0]
    /\ seen = [u \in Users |-> <<>>]
    /\ lost = {}

Set(f, u, l) == [f EXCEPT ![u] = l]

Ended(u) == main[u] \in {"gaveup", "exited"}

Holds(u, c) ==
    /\ ~Ended(u)
    /\ \/ wq[u] = c /\ writer[u] # "done"
       \/ rq[u] = c /\ reader[u] # "done"

Alive(c) == name[c[2]] = c \/ \E u \in Users : Holds(u, c)

(* The rest of mq_close, mq_unlink and exit: the queues that nothing leads *)
(* to any more are destroyed.                                              *)
Discard ==
    /\ q' = [c \in Queue |-> IF Alive(c)' THEN q[c] ELSE <<>>]
    /\ lost' = lost \cup UNION {Range(q[c]) : c \in {d \in Queue : ~Alive(d)'}}
-----------------------------------------------------------------------------
(* Opening the queues.                                                     *)

OpenFirst(u) ==
    /\ main[u] = "off"
    /\ IF name[1] = None
       THEN /\ name' = Set(name, 1, <<u, 1>>)
            /\ rq' = Set(rq, u, <<u, 1>>)
            /\ main' = Set(main, u, "create2")
       ELSE main' = Set(main, u, "open1") /\ UNCHANGED <<name, rq>>
    /\ UNCHANGED <<writer, reader, running, wq, chatVars>>

StartThreads(u) ==
    /\ main' = Set(main, u, "join")
    /\ writer' = Set(writer, u, "loop")
    /\ reader' = Set(reader, u, "loop")

(* The second name may be in use still: then it is removed, and the first, *)
(* which has just been made, stays behind.                                 *)
CreateSecond(u) ==
    /\ main[u] = "create2"
    /\ IF name[2] = None
       THEN /\ name' = Set(name, 2, <<u, 2>>)
            /\ wq' = Set(wq, u, <<u, 2>>)
            /\ StartThreads(u)
       ELSE main' = Set(main, u, "drop2") /\ UNCHANGED <<name, wq, writer, reader>>
    /\ UNCHANGED <<running, rq, chatVars>>

OpenToWrite(u) ==
    /\ main[u] = "open1"
    /\ wq' = Set(wq, u, name[1])
    /\ main' = Set(main, u, IF name[1] # None THEN "open2" ELSE "drop1")
    /\ UNCHANGED <<writer, reader, running, name, rq, chatVars>>

(* The first user may not have created the second queue yet.               *)
OpenToRead(u) ==
    /\ main[u] = "open2"
    /\ rq' = Set(rq, u, name[2])
    /\ IF name[2] # None THEN StartThreads(u)
       ELSE main' = Set(main, u, "drop2") /\ UNCHANGED <<writer, reader>>
    /\ UNCHANGED <<running, name, wq, chatVars>>

(* mq_unlink, of whatever has that name by now, and exit.                  *)
GiveUp(u) ==
    /\ main[u] \in {"drop1", "drop2"}
    /\ name' = Set(name, IF main[u] = "drop1" THEN 1 ELSE 2, None)
    /\ main' = Set(main, u, "gaveup")
    /\ UNCHANGED <<writer, reader, running, wq, rq, typed, seen>>
    /\ Discard
-----------------------------------------------------------------------------
(* The thread that writes.                                                 *)

(* As a queue without a limit.                                             *)
FullNever(c) == FALSE

Full(c) == Len(q[c]) >= MaxMsg

(* mq_send: behind all that is as urgent.                                  *)
Insert(s, m) == InsertAt(s, Cardinality({i \in DOMAIN s : s[i].prio >= m.prio}) + 1, m)

(* As the write end opened with O_NONBLOCK.                                *)
SendOrDrop(u, m) == q' = [q EXCEPT ![wq[u]] = IF Full(wq[u]) THEN @ ELSE Insert(@, m)]

Send(u, m) == ~Full(wq[u]) /\ q' = [q EXCEPT ![wq[u]] = Insert(@, m)]

WriterLoop(u) ==
    /\ writer[u] = "loop"
    /\ writer' = Set(writer, u, IF running[u] THEN "fgets" ELSE "bye")
    /\ UNCHANGED <<main, reader, running, openVars, chatVars>>

(* A line, or the text that stands for the end of the input.               *)
Type(u) ==
    /\ writer[u] = "fgets"
    /\ SumFunction(typed) < MaxLines
    /\ typed' = [typed EXCEPT ![u] = @ + 1]
    /\ writer' = Set(writer, u, "send")
    /\ UNCHANGED <<main, reader, running, openVars, q, seen, lost>>

SendText(u) ==
    /\ writer[u] = "send"
    /\ Send(u, Text(u, typed[u]))
    /\ writer' = Set(writer, u, "loop")
    /\ UNCHANGED <<main, reader, running, openVars, typed, seen, lost>>

SayGoodbye(u) ==
    /\ writer[u] = "bye"
    /\ Send(u, Goodbye(u))
    /\ writer' = Set(writer, u, "close")
    /\ UNCHANGED <<main, reader, running, openVars, typed, seen, lost>>

(* mq_close, a second later.                                               *)
CloseWrite(u) ==
    /\ writer[u] = "close"
    /\ writer' = Set(writer, u, "done")
    /\ UNCHANGED <<main, reader, running, openVars, typed, seen>>
    /\ Discard
-----------------------------------------------------------------------------
(* The thread that reads, main's end, and the signal.                      *)

(* while (running): a signal may fall between the test and the poll.       *)
ReaderLoop(u) ==
    /\ reader[u] = "loop"
    /\ reader' = Set(reader, u, IF running[u] THEN "poll" ELSE "close")
    /\ UNCHANGED <<main, writer, running, openVars, chatVars>>

(* As the read end opened without O_NONBLOCK.                              *)
PollBlocks(u) == FALSE /\ UNCHANGED vars

PollEmpty(u) ==
    /\ reader[u] = "poll" /\ q[rq[u]] = <<>>
    /\ reader' = Set(reader, u, "loop")
    /\ UNCHANGED <<main, writer, running, openVars, chatVars>>

(* A goodbye is known by its priority, and ends both threads.              *)
Receive(u) ==
    /\ reader[u] = "poll" /\ q[rq[u]] # <<>>
    /\ LET m == Head(q[rq[u]])
       IN  /\ seen' = [seen EXCEPT ![u] = Append(@, m)]
           /\ q' = [q EXCEPT ![rq[u]] = Tail(@)]
           /\ running' = Set(running, u, running[u] /\ m.prio = 1)
           /\ reader' = Set(reader, u, IF m.prio = 1 THEN "loop" ELSE "close")
    /\ UNCHANGED <<main, writer, openVars, typed, lost>>

CloseRead(u) ==
    /\ reader[u] = "close"
    /\ reader' = Set(reader, u, "done")
    /\ UNCHANGED <<main, writer, running, openVars, typed, seen>>
    /\ Discard

(* pthread_join, twice; only who created the names removes them.           *)
Join(u) ==
    /\ main[u] = "join" /\ writer[u] = "done" /\ reader[u] = "done"
    /\ main' = Set(main, u, IF rq[u][2] = 1 THEN "unlink1" ELSE "exited")
    /\ UNCHANGED <<writer, reader, running, openVars, chatVars>>

(* As the first user that removes only the queue it reads.                 *)
UnlinkOwn(u) ==
    /\ main[u] \in {"unlink1", "unlink2"}
    /\ name' = Set(name, 1, None) /\ main' = Set(main, u, "exited")
    /\ UNCHANGED <<writer, reader, running, wq, rq, typed, seen>>
    /\ Discard

Unlink(u) ==
    /\ main[u] \in {"unlink1", "unlink2"}
    /\ IF main[u] = "unlink1"
       THEN name' = Set(name, 1, None) /\ main' = Set(main, u, "unlink2")
       ELSE name' = Set(name, 2, None) /\ main' = Set(main, u, "exited")
    /\ UNCHANGED <<writer, reader, running, wq, rq, typed, seen>>
    /\ Discard

Interrupt(u) ==
    /\ main[u] # "off" /\ ~Ended(u)
    /\ running[u]
    /\ running' = Set(running, u, FALSE)
    /\ UNCHANGED <<main, writer, reader, openVars, chatVars>>

Opening(u) == CreateSecond(u) \/ OpenToWrite(u) \/ OpenToRead(u) \/ GiveUp(u)
Main(u) == Opening(u) \/ Join(u) \/ Unlink(u)
Writer(u) == WriterLoop(u) \/ SendText(u) \/ SayGoodbye(u) \/ CloseWrite(u)
Reader(u) == ReaderLoop(u) \/ PollEmpty(u) \/ Receive(u) \/ CloseRead(u)

Next == \E u \in Users :
    OpenFirst(u) \/ Main(u) \/ Writer(u) \/ Reader(u) \/ Type(u) \/ Interrupt(u)

(* The threads run; nobody has to start a program, type or interrupt it.   *)
Fairness == \A u \in Users : WF_vars(Main(u)) /\ WF_vars(Writer(u)) /\ WF_vars(Reader(u))
Spec == Init /\ [][Next]_vars /\ Fairness
-----------------------------------------------------------------------------
TypeOK ==
    /\ main \in [Users -> {"off", "create2", "open1", "open2", "drop1", "drop2",
                            "gaveup", "join", "unlink1", "unlink2", "exited"}]
    /\ writer \in [Users -> {"off", "loop", "fgets", "send", "bye", "close", "done"}]
    /\ reader \in [Users -> {"off", "loop", "poll", "close", "done"}]
    /\ running \in [Users -> BOOLEAN]
    /\ \A k \in {1, 2} : name[k] \in (Users \X {k}) \cup {None}
    /\ wq \in [Users -> Queue \cup {None}] /\ rq \in [Users -> Queue \cup {None}]
    /\ \A c \in Queue : q[c] \in Seq(Message) /\ Len(q[c]) <= MaxMsg
    /\ typed \in [Users -> Nat]
    /\ \A u \in Users : seen[u] \in Seq(Message)
    /\ lost \subseteq Message

Sent(u) == IF writer[u] = "send" THEN typed[u] - 1 ELSE typed[u]

(* m has been shown; or it is waiting, or went with its queue.  No place   *)
(* has what another has.                                                   *)
Shown(m) == \E u \in Users : \E i \in DOMAIN seen[u] : seen[u][i] = m
There(m) ==
    \/ \E c \in Queue : \E i \in DOMAIN q[c] : q[c][i] = m
    \/ Shown(m)
    \/ m \in lost

Once ==
    /\ \A c, d \in Queue : \A i \in DOMAIN q[c], j \in DOMAIN q[d] :
          q[c][i] = q[d][j] => c = d /\ i = j
    /\ \A u, w \in Users : \A i \in DOMAIN seen[u], j \in DOMAIN seen[w] :
          seen[u][i] = seen[w][j] => u = w /\ i = j
    /\ \A c \in Queue, u \in Users : \A i \in DOMAIN q[c], j \in DOMAIN seen[u] :
          q[c][i] # seen[u][j]
    /\ \A c \in Queue : \A i \in DOMAIN q[c] : q[c][i] \notin lost
    /\ \A u \in Users : \A i \in DOMAIN seen[u] : seen[u][i] \notin lost

(* Every line that was sent, and a goodbye, is in its queue, or has been   *)
(* shown, or was destroyed with its queue: in one of these places, however *)
(* the goodbyes overtake the text (03/main.c:50, 61, 77).  And it is never *)
(* destroyed while somebody who reads that queue goes on: a reader stops   *)
(* first, by the signal or a goodbye, or could not open both queues (64,   *)
(* 76, 86, 99, 146, 196-197).                                              *)
NothingLost ==
    /\ Once
    /\ \A u \in Users :
          /\ \A n \in 1..MaxLines : There(Text(u, n)) <=> n <= Sent(u)
          /\ There(Goodbye(u)) <=> writer[u] \in {"close", "done"}
    /\ \A m \in lost, u \in Users :
          rq[u] = wq[m.from] => ~running[u] \/ main[u] = "gaveup"

(* What one person wrote is shown and queued in the order it was written,  *)
(* with a goodbye in front of what still waits (03/main.c:50, 61).  It is  *)
(* shown without gaps: whoever sees a line, the lines before it have been  *)
(* shown, to this reader or to another of that queue, and a queue that is  *)
(* destroyed takes only the end of what was written.  Nothing is shown     *)
(* after a goodbye (83-87).                                                *)
InOrder == \A u \in Users :
    LET line == seen[u] \o (IF rq[u] = None THEN <<>> ELSE q[rq[u]])
    IN  /\ \A i, j \in DOMAIN line :
              i < j /\ line[i].from = line[j].from /\ line[i].n > 0 /\ line[j].n > 0
                 => line[i].n < line[j].n
        /\ \A i \in DOMAIN seen[u] : \A n \in 1..seen[u][i].n - 1 :
              Shown(Text(seen[u][i].from, n))
        /\ \A i \in DOMAIN seen[u] : i < Len(seen[u]) => seen[u][i].prio = 1

(* A program that ends in order leaves neither name behind, and the only   *)
(* one that can ever stay is _1, of a first user that found _2 still there *)
(* (03/main.c:171-176), whatever names the second users remove on their    *)
(* way out (139, 145).                                                     *)
NamesLeft ==
    /\ name[1] # None => main[name[1][1]] # "exited"
    /\ name[2] # None => main[name[2][1]] \notin {"exited", "gaveup"}

(* Whoever is told to stop, by the signal or by a goodbye, ends, but for   *)
(* two waits: for its own keyboard (03/main.c:46), and for room in a queue *)
(* that nobody reads any more (50, 61).                                    *)
Unread(c) == \A u \in Users : rq[u] = c => ~running[u] \/ Ended(u)
Waits(u) ==
    \/ writer[u] = "fgets"
    \/ writer[u] \in {"send", "bye"} /\ Full(wq[u]) /\ Unread(wq[u])

EndsOrWaits == \A u \in Users : <>[](running[u] \/ Ended(u) \/ Waits(u))
=============================================================================
