# Eltex_modul_3 in TLA+

The repository holds seven small systems of C programs about inter-process
communication (`01/` … `08/`, `07/` being a server and a client). This directory holds
TLA+ models of all of them, what TLC checks about them, what TLAPS proves, and what is
left out.

Line references are to the repository's files, e.g. `02/src/broker.c:203`.

## 1. Inventory

### 02: message broker, subscribers, publishers

| part | state | operations |
|---|---|---|
| broker (`broker.c`) | lists of subscribers (each with its topics) and publishers, `running`, the receive buffer | receive one message (type 1); *send*: register the publisher, walk the subscribers, `msgsnd` to each that has the topic; *subscribe*: register, add the topic; *unsubscribe*: log only; shutdown: `kill(SIGINT)` to everyone registered, wait up to 5 s, remove the queue |
| subscriber (`main_sub.c`) | own topic list, `running` | subscribe to random topics; receive by own pid; unsubscribe from all on the way out |
| publisher (`main_pub.c`, `publisher.c`) | `running` | every 1–5 s send a message on a random topic with `IPC_NOWAIT` |
| System V queue | messages with a type, byte limit | `msgsnd`, `msgrcv` by type, `IPC_RMID` |

All clients and the broker share **one** queue, in both directions. A message
carries its 8192-byte buffer whole, so with the usual limit of 16384 bytes the
queue holds two. Hard behaviour: the broker blocks in `msgsnd` on the queue it
is itself the reader of; clients block sending to it; SIGINT interrupts either,
or misses it; messages for a process that has left stay in the queue; the
queue is removed under everyone. Correct means: the registry is what the
requests say; a publication reaches every registered subscriber of its topic,
each publisher's messages in order, and, until Ctrl+C, none twice; shutdown always ends, and
everyone the broker knows ends with it.

### 04 and 05: list of blocks in shared memory

One program, run several times: who creates the semaphore is the producer, the
others are consumers. The segment (256 ints) holds blocks: size, offset of the
next block, numbers. The producer writes a block under the semaphore, waits until
a consumer has set its size to 0, goes on; an end mark (-1, 0) closes the list.
A consumer walks the list, skips blocks of size 0, prints min and max of the
others. `04/` uses System V objects (`semop` fails with EINTR after a signal and with
EIDRM once the semaphore is removed, and the process exits); `05/` POSIX objects
(waits are retried; unlinking wakes nobody). Hard behaviour: consumers started
between the producer's creation steps, late consumers, the shapes of the last
block, SIGINT in the middle, removal of the semaphore under waiting consumers.
Correct means: exclusion; each block processed once, in order, with the right
numbers; producer and consumers end.

### The others

| part | state | operations and interaction | hard behaviour | correct means |
|---|---|---|---|---|
| `01/` file transfer | two pipes or FIFOs, open files | parent: wait READY, per file FILE_INFO, DATA headers and bytes, DONE; child: write `<name>.copy` | headers and bytes in one stream, told apart by counting only; a file that changes size between `lseek` and `read`; a copy that cannot be created; bytes that are read as headers and spell one; FIFO opens that wait for each other | sound files are copied whole; no copy gets bytes of another file unless bytes announced it; both processes end |
| `03/` chat over POSIX queues | queues `_1`, `_2` (10 messages), `running` shared by two threads | writer: `mq_send` from stdin, goodbye with a higher priority; reader: polling `mq_receive`; main: create or open, join, unlink | second user starts while the first is still creating; goodbye overtakes text, which is destroyed with the queue; full queue nobody reads | nothing doubled, nor lost while its reader goes on; order kept, without gaps; who is told to stop ends; names unlinked |
| `06/` UDP chat | one socket, one buffer | `select` on socket and stdin, broadcast; SIGINT handler sends and exits | one buffer for both directions, and the end of stdin | a peer sends what was typed at it |
| `07/` server | 30 client slots, `client_count`, epoll set | accept + INIT, relay, LEAVE, CLOSE, file header and data relayed | non-blocking sockets before INIT has arrived; no framing, so that a file may spell a keyword; batches of events; full buffers; SIGPIPE | count = active slots = open descriptors; nobody in limbo; only those who are gone are dropped; LEAVE is the last word |
| `07/` client | socket, `running` | `select` on socket and stdin, send and receive files in line | no framing; a signal just before `select`; server gone while a file is received | it ends when told to; a file it receives ends |
| `08/` sniffer | raw socket, filter, output file | questions, receive, parse, filter, print | traffic before the questions are answered; signal and restarted `recvfrom` | output is the matching traffic in order, screen and file alike; Ctrl+C ends the capture |
| `02/src/main.c` | – | an early draft, not built by the Makefile | – | – |

The tests and docs of the repository are its comments and messages; `README.md`
at its root is empty. The hazards of every program are in `PROJECT.json`, each
with its line and the properties that cover it.

## 2. Modules

```
MsgBus  <- Broker, Subscriber, Publisher <- PubSub <- MCPubSub   (02)
                                             PubSub <- PubSubProofs
                        TopicBus (abstract) <- PubSub (INSTANCE)
ShmBlocks <- ShmSysV                                             (04)
ShmBlocks <- ShmPosix,  Handoff (abstract) <- ShmPosix (INSTANCE) (05)
ShmBlocks <- ShmProofs <- ShmSysVProofs (with ShmSysV), ShmPosixProofs (with ShmPosix)
PipeCopy <- PipeProofs,  PipeCopy <- MCPipeCopy                  (01)
MqChat <- MqChatProofs                                           (03)
UdpChat <- UdpSniffer <- UdpProofs,  UdpSniffer <- MCUdpSniffer  (06, 08)
TcpNet <- TcpServer, TcpClient <- TcpChat <- TcpProofs           (07)
```

* **MsgBus**: processes with a place `pc`, `running` and `eintr`; the queue, one FIFO
  per destination (receivers always name one type, so only the order within a
  type can be seen) under one common limit. `Handle` is the SIGINT
  handler: it clears `running` and interrupts the call in progress, if the signal
  does not come just before the call. `Interrupt` is Ctrl+C by a user.
* **Broker**: `off -> init -> top -> msgrcv -> handle -> fanout <-> msgsnd`, and
  `kill -> wait -> rmid -> exited`. Between two places is what no other process can
  observe or disturb. `subList`, `pubList`, `topicsOf` are the linked lists; `buf` is
  `rcv_mes`, which is on the stack at the same address in each call and so survives;
  `cursor` is the list pointer of the walks.
* **Subscriber**: `own` is its own list, `unsent` what `unsub_for_broker` has yet to
  walk, `got` (history) what it has reported.
* **Publisher**: `published` (history) numbers its messages.
* **PubSub** composes them and states the properties. **TopicBus** is what
  the users are promised: subscribers are given publications on topics they asked
  for, each publisher's in order; loss and repetition are allowed, an older message
  after a newer one is not.
* **ShmBlocks**: memory, the producer's loop and the consumers' loop, common to
  `04/` and `05/`, and the properties they share. `pc` places between taking and
  giving the semaphore are `Inside`. **ShmSysV** and **ShmPosix** add creation,
  start-up of consumers, the ways a wait can end, and removal. `HandleBlock(c, from)` takes
  the offset from which the numbers are read: 0 in `04/main.c:145`, 2 in
  `05/main.c:108`. Three histories: `starts`, where blocks were made; `made`, those that have
  numbers; `reports`, what was printed. **Handoff** is the abstract one-place hand-over.

* **PipeCopy**: parent and child with their places `ppc` and `cpc`, and the pipe as a
  sequence of cells. A header (`Message`) is `Header` cells; a block of a file is at most `Chunk`
  cells. A read that begins anywhere but at a header finds no message type or any message of
  `Spelled` (`Received`), and the child does what that says: it may create a copy, `Odd` ones are
  those that can be announced so, take a length, or end. A parent whose child has ended so gets
  SIGPIPE (`BrokenPipe`). `disk` is what the files are, and
  is chosen at the start: `size` is what `lseek` will say, `length` what the reads will
  deliver, `creatable` whether the child can make the copy. `ToInt` cuts the size to an `int`.
  Opening a FIFO waits until the other side has reached its `open` of the same one.
* **MqChat**: three places for each program, of `main` and its two threads. A queue is
  known by who created it and under which name, so that a name can be unlinked and created
  again while the old queue is in use. It is `Alive` while the name or a descriptor leads to it; when
  `mq_close`, `mq_unlink` or the end of a program takes the last of them, `Discard` empties it into
  the history `lost`. Messages are ordered by priority and then arrival:
  `Insert` puts one behind all that are as urgent.
* **TcpNet** is one connection for each client, with a stream of pieces in each direction; a
  `recv` takes one or several. A piece of a file is `as` what it spells: nothing, a zero at its start,
  or one of the keywords that the server acts on (`FileWords`). `gone` counts how far a client's end has been noticed (a send
  to it is answered with a reset, the next one is SIGPIPE). **TcpServer**: a handler is one
  step, since one thread runs it on sockets that do not block; between the handlers of
  one batch the clients step. `fds` says which connection an open descriptor is, so that a
  number can be given out again. **TcpClient**: `select`, `stdin`, `data` (sending a file),
  `receive`, `leave`. **TcpChat** composes them. `lost` (history) is set when a piece does
  not reach a client it is meant for: it did not fit, or was read with an INIT or a FILE_START, or stood behind a
  zero, or was taken for a keyword, or its sender died.
* **UdpChat**: `wire` is everything ever sent, each reader has its position in it and may
  skip; `buf` is the one buffer of each peer. **UdpSniffer** puts the sniffer beside it,
  with other `Traffic`, any set of frames of any protocol between any two ports; `late`
  (history) counts packets handled after Ctrl+C, and `printed` is what was printed, as
  positions in `wire`, so that two equal packets are not taken for one.

Decisions worth knowing:

* `size_t read_bytes <= 0` (`broker.c:116`) is never true for an error. The model does
  what the code does: after EINTR the old buffer is parsed again, or is refused if
  nothing usable is in it.
* `Subscriber subscriber;` (`main_sub.c:197`) is used uninitialised. Modelled outcomes: the
  list happens to be empty, or the process crashes at the first walk or at the
  first `add_topic`. Others are possible in C and are not modelled.
* On `unsubscribe` the broker prints that the subscriber "has finished and unsubscribed" (`broker.c:254`) and
  does nothing else: the registry keeps it and its topics, and later publications for it stay in the queue.
* `subscriber_process` ends without a return value. In the build the value is what the
  last `printf` left, never -1, so the loop goes on.
* The topic lists are sets: the subscriber skips a topic it has, and the broker
  stops at the first match. The 20 lines of `data/*.txt` are all non-empty, so
  `generate_messege` does not fail.
* Messages differ by command, sender, topic and number. Parsing is left out:
  every message is made by the programs themselves and has its two commas and its newline.
* Time is left out but for the order of steps. `sleep` is the possibility of others
  stepping; the wait of the broker counts its seconds in `waited`.
* In `03/` `signal()` restarts the calls that SIGINT interrupts, so the handler does no more than
  clear `running`. `buffer[bytes] = '\0'` with 256 bytes (`03/main.c:79`) falls behind the
  array; in the build nothing that is used lies there. The `EAGAIN` branch of the writer (51) cannot be
  reached, and every `mq_send` succeeds or waits. A failing `fgets` (end of input) sends a fixed text again and
  again and is one more line.
* In `07/` nobody looks at the result of `fgets` (`client.c:256`): at the end of stdin each round handles the
  old line again. Each time is one more line that is typed, up to `MaxLines`. In `06/`, where the buffer may
  hold what was received, the end of stdin is an action of its own (`AtEof`).
* In `06/` the test of the sender's address (106) decides only what is printed.
* The server of `07/` handles an `EAGAIN`, an error and the end of a stream alike
  (`server.c:140`); that a client which is there is not dropped depends on handling only
  descriptors with an event, and on never meeting a new owner of a descriptor within a batch.
  `OnlyTheGoneAreDropped` is about that.
* The parser of `08/` is its verdict (UDP over IP or not). The menu's filter
  "HTTP (port 80)" (`udp_sniffer.c:228`, 247) is asked only about UDP (62, 144): it never shows HTTP, which is
  TCP, and `Matches` says what it does show, UDP with port 80 at either end. Lengths inside a packet that do not
  agree with the packet, which it does not check, are not modelled.

**Not modelled**: `02/src/main.c` (a draft that no target builds) and
`broadcast_file` (`07/server.c:90-134`, called by nobody). In `02/`: reuse of pids, zombies (a
process that has ended is gone), `malloc` failing, a second broker. In `04/` and `05/`: a second
shared-memory session. In `01/`: a block length above 256 that bytes spell, which overruns the
buffer (`main.c:87`); the same file twice, or a file that is named like the copy of another. In `03/`: programs killed by other
signals. In `06/` and `08/`: reordered datagrams, frames
the kernel drops, fragments, the double of each frame on `lo`. In `07/`: a `send` or `recv` that ends inside a
piece, so a keyword or a zero that is not at the start of one; names longer than the 31 characters that
`name[32]` holds, and name clashes. Everywhere: addresses,
times, wording and layout of what is printed, errors of calls that fail only for want of
memory or descriptors, signals other than SIGINT (in `07/`: and SIGPIPE).
What remains is data in this sense, not control: no further component is left to model.

## 3. What TLC checks

| run | question | result |
|---|---|---|
| `broker_safety` | 2 subscribers, 1 publisher, 2 topics; Ctrl+C in the broker at any time | holds, 2.4 million states |
| `broker_liveness` | 1 subscriber, 1 publisher, Ctrl+C anywhere | holds, 0.5 million states |
| `broker_all_users` | "SIGINT to all users" (`types.h:38`) | violated: unregistered clients |
| `broker_replay` | an interrupted `msgrcv` (`broker.c:116-120`) delivers nothing | violated: replay |
| `shm_sysv` | 04, 3 processes, 2 interruptible | holds, 0.3 million states |
| `shm_sysv_min_max` | 04 prints min and max of a block | violated: header counted |
| `shm_posix` | 05, 3 processes, one interruptible (the producer or a consumer) | holds, 0.3 million states |
| `pipe_copy` | 01, two files of every kind, bytes that spell messages, pipes or FIFOs | holds, 1.4 million states |
| `mq_chat` | 03, two programs started and interrupted at any time | holds, 0.12 million states |
| `tcp_chat` | 07, three clients, two slots, files that spell keywords, one process interrupted or killed | holds, 1.0 million states |
| `tcp_files` | 07, three clients, three slots, two lines: a file and another's message to the same receiver | holds, 0.75 million states |
| `udp_capture` | 06 and 08, a peer, other hosts and the sniffer | holds, 2.2 million states |

Properties of the broker: `RegistryDistinct`, `RegistryAgrees` (registry and
subscriber agree on its topics up to requests under way), `OrderInv` (order along queue, buffer and
delivery, and no duplicates until Ctrl+C),
`FanoutComplete` (nobody skipped in a walk), `RegisteredAreSignalled`,
`ImplementsTopicBus` (origin and order; the bus allows repetition, which `broker_replay` shows),
`ShutdownCompletes` (from the end of the loop on: nothing ends the loop of a blocked broker but a second
Ctrl+C), `RegisteredClientsExit`.
Of the blocks: `MutualExclusion`, `EachBlockOnce`, `OffsetsAreBoundaries`,
`ImplementsHandoff`, `ProducerFinishes`, `ConsumersFinish`.
`01/`: `FaithfulCopy` (as long as every file so far was sound, a copy is the file), `OwnBytesOnly`
(whatever the child had to skip, no copy holds another file's bytes, unless a file shrank),
`BothEnd`. That a file which grew or could not be copied takes later ones with it is what
the code does, and why `FaithfulCopy` speaks of the files up to `f`: the child
then reads bytes as headers until a FILE_INFO lies where it looks for one. What those bytes spell it does too:
both properties except the files that bytes can announce (`Odd`), the first unless these are sound as well.
`03/`: `NothingLost` (each text and goodbye is in exactly one place: a queue, the screen, or among what went with
its queue, and that never while a reader of it goes on), `InOrder` (shown in order and without gaps,
nothing after a goodbye), `NamesLeft`, `EndsOrWaits`. `07/`: `SlotsAgree`, `NoLimbo`, `LeaveIsLast`, `OnlyTheGoneAreDropped`,
`Forgotten`, `ClientsLeave`, `FilesEnd`. A file whose bytes spell `CLOSE:` drops its sender
(`server.c:165`): `OnlyTheGoneAreDropped` names that exception. `SlotsAgree`, `NoLimbo` and `Forgotten` claim nothing of a
server that SIGPIPE has killed (`server.c:85`). `06/` and `08/`: `TextsAreOwn`, `CaptureIsTheTraffic`,
`CaptureEnds`. The liveness properties of `03/`, `07/` and `08/` name the waits that the code does not
end by itself: for the keyboard, for room in a queue without a reader, for a signal that came
just before `select`, for the rest of a file of which a piece was lost, for one more packet.

**Bounds.** `QueueCap = 2` is the value of the code's defaults (16384 / 8192), and the
smallest at which a request and a delivery can be queued together; full and
half-full queues both occur. Two subscribers are enough for one to be skipped or served
out of turn, two topics for one to be wrong, two messages (`MaxPub`) for an order; one
publisher suffices since order is per publisher. `WaitLimit = 1` stands for 5: with and
without a client that has not ended. `Impatient` is the set of processes whose
user may press Ctrl+C: only the broker's in the safety run (a client's own exit is
covered by the smaller liveness run, where everyone may). The segment has 8 cells in `04/`
and 6 in `05/`: with the block sizes allowed the last block comes out with no
numbers, with one cell over and with none over, and at least two blocks have numbers. With three processes there is a producer,
a consumer and a second one that is slower, late or interrupted.

In `01/` two files, of up to 3 bytes in blocks of 2, come out empty, as one block and as
two; headers of 3 cells are longer than blocks, as 264 bytes are to 256, so a lost block is shorter than
the header read in its place. The bytes can spell the FILE_INFO of the second file, a block of one byte, and
DONE (`SomeSpelled`): to begin a file that is also sent, to fall out of step inside one, to end. `PipeCap = 8` holds two headers and a block, so both sides wait
for each other; `IntLimit = 3` makes a size of 3 negative. In `03/` `MaxMsg = 2` and four lines fill a queue, with a goodbye in front of the
text or behind; two programs come in all roles, two first users included (the second starts
when the first has removed `_1`). In `07/` three clients and two slots make a refusal and a
descriptor that is given out again; `MaxEvents = 2` leaves a ready descriptor for the next batch and puts two
events into one; `Cap = 2` fills buffers; one line in all (`MaxLines`) is a message or a file of one piece (`FileLen`) that
begins with a zero, `CLOSE:` or `FILE_START:` (`FileWords`); one process stops by itself (`MaxStops`), and
the server still meets clients that leave because others did. In `tcp_files` there are three slots and two
lines, so while one client sends a file to the two others one of them, or the sender, writes a message that falls into it, or sends a
file too; nobody stops and the bytes spell nothing. Its constraint `NothingLost` cuts off the states after a
loss: `lost` is never cleared and `FilesEnd` asks nothing there, so no behaviour that could violate it is cut. In `06/` one peer is modelled in full and
the others, on other hosts, as the environment, which may send a peer's words too;
three packets suffice for one received, one repeated and one more. The other traffic (`SomeTraffic`) has a frame for
each test of the parser and of each filter, and one that just fails it: the chat's port in TCP, DNS over IPv6 and at
the source end, port 80 in UDP and in TCP. The theorems about `06/` and `08/` have any number of peers and packets, and any traffic.

**Deadlock** is checked but in the broker's safety configurations and those of `03/`, `07/` and `06/` with `08/`. In the chats
programs wait for a user or a packet, and the bounds on both are used up. In the broker's the system
may really stop, e.g. with the broker in `msgsnd` on a queue full of messages for a
subscriber that has left, or clients waiting for a broker killed before it had its handler,
and no user presses a key.

**Fairness.** Weak fairness of each started process: the kernel schedules a
runnable process. Nobody has to start a program or press a key. For the semaphores, strong
fairness of taking it: `semop` serves waiters in order (04), and in 05 every process sleeps
for 0.1 to 3 s after giving the semaphore back but for the finitely many blocks it skips,
so a waiter is not passed over for ever. No fairness for the queue beyond weak:
`ShutdownCompletes` and `RegisteredClientsExit` do not need it.
In `01/` each process is scheduled; in `03/` each thread and each `main`; in `07/` the server and
each client; in `08/` the loop of the sniffer, and in `06/` nothing. Never the start of a program, a
line that is typed, a signal or a packet: those are outside `Fairness` everywhere.

## 4. What is proved

Every invariant and every safety property over steps that a passing run checks is also a
theorem of its specification, for every value of the constants, and so are both refinements.
TLC found the inductive invariants to hold on the runs' instances before they were proved.
Each proof module has, for each action, a lemma about what it does to the invariant,
usually as an instance of a lemma about a kind of step.

| program | theorems | property |
|---|---|---|
| 02 | `TypeCorrect`, `RegistryCorrect`, `RegistryUpToDate`, `OrderInvariant`, `AllRegisteredSignalled`, `WholeListServed`, `TopicBusImplemented` | `TypeOK`, `RegistryDistinct`, `RegistryAgrees`, `OrderInv`, `RegisteredAreSignalled`, `FanoutComplete`, `ImplementsTopicBus` |
| 04 | `SysVTypes`, `SysVExclusion`, `SysVEachBlockOnce`, `SysVOffsets` | `TypeOK`, `MutualExclusion`, `EachBlockOnce`, `OffsetsAreBoundaries` |
| 05 | `PosixTypes`, `PosixExclusion`, `PosixEachBlockOnce`, `PosixOffsets`, `PosixMinMax`, `PosixHandoff` | the same, `MinMaxCorrect`, `ImplementsHandoff` |
| 01 | `PipeTypes`, `CopiesFaithful`, `OwnBytes` | `TypeOK`, `FaithfulCopy`, `OwnBytesOnly` |
| 03 | `MessagesTyped`, `NamesLeftHolds`, `MessagesKept`, `MessagesInOrder` | `TypeOK`, `NamesLeft`, `NothingLost`, `InOrder` |
| 06, 08 | `OwnTexts`, `CapturesTheTraffic` | `TextsAreOwn`, `CaptureIsTheTraffic` |
| 07 | `TcpTypes`, `SlotsCorrect`, `NobodyInLimbo`, `LeaveComesLast`, `OnlyGoneDropped` | `TypeOK`, `SlotsAgree`, `NoLimbo`, `LeaveIsLast`, `OnlyTheGoneAreDropped` |

**Assumptions.** Only the named `ASSUME`s of the modules. 02: a subscriber is not also a publisher, the broker
is neither, and the subscribers are finitely many (`ProcAssumption`: the walk over them ends);
`QueueCap` is positive, `WaitLimit` is a number, `NoMsg` is no message. 04, 05:
the segment has room for more than a header (`N >= 2`), `rand_val` is 3 or more, as `rand() % 51 + 3` is,
numbers are integers (`SizeAssumption`), and finitely many processes use it (`ProcsAssumption`).
01: a header is longer than a block and fits into the pipe, so that the child cannot find a block where
it looks for a whole header; bytes spell any set of messages whose block lengths fit the buffer (`PipeAssumption`). 06, 08: frames have two ports and are from nobody that is modelled (`TrafficAssumption`). 07: finitely many
clients (`TcpAssumption`). The rest of these, with
`ChatAssumption` and `UdpAssumption`, say that limits are numbers, positive where the
code has a buffer or a table of that size, and that the value that stands for "nobody" is not somebody.

### 02: `PubSubProofs`

That each subscriber is sent a publisher's messages in order is not inductive: that what is sent next is
new depends on what is in the broker's buffer, that in turn on the queue, and on how far the walk over the
subscribers has come. `OrderInv` says it for each station: numbers in the queue increase and
are all published (`QueueOrder`); the buffer is before all of the queue and not before
anything sent (`BufOrder`); what was sent is before all of the queue (`SentOrder`); and while
the broker runs, who has yet to be served (`NotYetServed`: in the list from `cursor` on)
has not got the buffer's message (`OnceInv`), which needs `RegistryDistinct`: a subscriber
that was twice in the list would be served twice. `ShutdownFacts` ties the interrupted
`msgrcv` and the removed queue to `running` being false: a replay is out of order with nothing,
but it is a duplicate, so `OnceInv` is conditional on `running`.
The step lemmas are stated by what they do to the messages
(`QuietStep`, `EnqueueStep`, `ReceiveStep`, `SendStep`, `RemoveStep`, `EchoStep`) and each action is an
instance of one of them.

`SignalInvariant`, for the signals at shutdown: `kill` tells a process only if it runs, so the
invariant also says that whoever a message is from, and so whoever is registered, has been
started; that a process once told stays told; and that the walk has told all it has passed,
while nobody can join any more.

`BusInvariant` has three parts. `TopicsKnown`: what the broker knows of a subscriber, with the
requests under way, is what the subscriber has asked for, until it exits or the queue is gone; a
request that has been handled is in the registry, so the interrupted `msgrcv` that handles it again
changes nothing. `WalkServes`: who has topics is in the list, and the walk has sent to all it has passed
that have the topic. `MessagesGenuine`: a message says what its publisher said wherever it is, and it
reaches only who asked. From these `RegistryUpToDate`, `WholeListServed` and `TopicBusImplemented`:
under `asked <- own`, `spoken <- published`, `inbox <- got`, each step is one of `TopicBus` or stutters
(`BusRefinement`).

### 04 and 05: `ShmProofs`, `ShmSysVProofs`, `ShmPosixProofs`

`ShmProofs` holds the lemmas about what the programs share. `ExclusionInv`: the
semaphore is 0 or 1, at most one process is inside, none while it is 1, and nobody has started
before it exists. `TakeStep`, `GiveStep` and `OutsideStep` say what a step that takes, gives or
leaves alone the semaphore does to it. In `04/` the semaphore is created first and gets its
value later (`SETVAL`, `04/main.c:161`), which would break exclusion if somebody were already
inside. `StartUpInv` is why nobody is: the segment is made after the value is set, by the same
process, and a consumer that finds no segment exits.

`ListInv` is the shape of the list and the place of everybody in it. Blocks follow each other from 0
to `Top` and each names the start of the next (`SpacingInv`, `ChainInv`); only the last can be unread
(`ReadInv`); behind `Top` there is nothing, the header of the block that is being written, or the end
mark (`TopInv`); the producer is at `Top` while it writes and at the last block while it waits
(`PtrInv`); a consumer is at a start or at `Top` (`OffsetInv`), and what it has seen is still so
when it acts (`SeenInv`), which is where exclusion is needed; the histories of what was made and
what was reported differ by the unread block at most (`MadeInv`, `ReportInv`). `Fresh` says that
until the producer's loop begins the segment is clear, so a consumer which attaches early waits at 0:
in `05/` that is why the late `memset` (`05/main.c:144`) cannot wipe a block. Types follow as part of
it: that `remaining_cells` never goes below 0 whatever `rand_val` is.

`PosixMinMax` is what `shm_sysv_min_max` refutes for `04/`. `PosixHandoff`: with `Blocks` and `Answers`
for the abstract queue's offers and answers, `fill` and `handle` are its two steps.

### 01: `PipeProofs`

Nothing in the pipe says where a header ends and bytes begin. `StreamInv` says it for any place in the
pipe: a header's first cell is followed by the rest of it, a FILE_INFO by the first block or the next
file (`BlockAfter`, `FileAfter`), a DATA header by its bytes and then by the next block, or the
pipe ends there and the parent is where it sends just that. `Tracking` is the child's side: while
it copies, the pipe begins at the edge of the block that starts at byte `got`, and the copy is the
first `got` bytes. It is kept as long as the announced size, cut to `int`, is not above the length.
A child that has lost its place comes back only at a FILE_INFO, and there `StreamInv` gives
`Tracking` again, or at bytes that spell one: then it begins a file of `Odd`. `Begins` tells the two apart, and `Understood` says what
either gives; with that, each copy of a file that is not in `Odd` is the beginning of the file (`OwnInv`), which is `OwnBytes`.
`StreamInv` and `InfoOrder` are about a child that is still there: SIGPIPE takes a parent whose child a spelled DONE
has ended, with the pipe as it is. For `CopiesFaithful`, `FaithInv` has the number `n` of files that
are done with, and five cases for what follows: not started, waiting for the next file, copying
a sound one, the end, or lost at an unsound file `u`, when, by `InfoOrder`, nothing that is still
announced is before `u`. In this last case bytes may announce anything in `Odd`: `Spared` claims only
the other copies, and `FaithfulCopy` asks no more, since `u` is not sound. `Missing` says that a file that
does not exist has no copy before that. `StreamGrown` and `StreamTaken` are the parent's and the child's steps.

### 03: `MqChatProofs`

`OwnerInv`, for `NamesLeft`: whose queue a name stands for has not yet come to the line that unlinks
it, and reads its own `_1`, which decides at the end (`Join`) that it is the one to unlink. Second
users may remove either name on their way out; that only ever clears a name.

`MqInv` adds what the messages need. `Wired`: a thread runs only when both queues are open.
`QueueInv`: a queue has only mail of its own writers, the most urgent first and otherwise as it was
written. `SeenInv`: what was shown is older than what waits anywhere, and a goodbye is the last
thing shown. `SentInv` with `Once`: each line that was sent, and each goodbye, is in one place, what went with its
queue included (`LostInv`: that queue is gone, and what it took is newer than what was shown). A queue that is not
`Alive` holds nothing and never comes back; one that a thread reads is. `Sending` and
`Receiving` are about a message that is inserted, and the first that is taken; the rest of the
actions move nothing (`NothingMoved`).

### 06 and 08: `UdpProofs`

`OwnTexts` needs `BufferInv`: a buffer holds nothing, what was on the stack, or what is already on
the wire, so that what is sent at the end of stdin had been said before. `Silent` and `Sent` say what
a step that sends nothing, or one allowed packet (`May`), does to the property. `CaptureInv`: what
passed between the opening of the socket and `next` and matches the filter is what was printed, in
order; nothing is printed before the questions are answered. `FilterTells` is the lemma about
`parse_packet` and `check_filter`: together they pass exactly what the filter is about, whatever the frame.

### 07: `TcpProofs`

`SlotsInv`: `Matched` pairs slots in use, open descriptors and connections, one for one. `OneStage`
says that a connection is new, waits for `accept` once, has a slot, or is closed, so the same
one never gets two descriptors. `BatchInv` says that a batch has the listening socket at most once and
that somebody then waits, so `accept` finds a connection. `FreeFd` is a pigeonhole argument: while a
connection is without a descriptor, one of the descriptors is free. A server that has ended, by
SIGINT or by SIGPIPE in the middle of a relay, only keeps its types.

`ChatInv` adds the streams. `UpInv`: INIT is the first thing that a client sends and CLOSE the last.
`EventsInv`: the events of a batch that are still due are those of different open descriptors, and
each has bytes or an end to find; so `recv` never meets `EAGAIN`, whose branch would drop a client
that is there (`server.c:140`): that is `OnlyGoneDropped`. A `CLOSE:` is the client's last word or the bytes of its file,
and the property names the latter. `LeaveInv`: a LEAVE is given when the
connection is closed and nothing of that client comes behind it. `Placed`: a client is in the
backlog, has a descriptor, or its connection is closed.

### Only model-checked

The ten liveness properties (`ShutdownCompletes`, `RegisteredClientsExit`, `ProducerFinishes`,
`ConsumersFinish`, `BothEnd`, `EndsOrWaits`, `Forgotten`, `ClientsLeave`, `FilesEnd`, `CaptureEnds`):
they depend on fairness and so on `ENABLED`, which TLAPS does not reason about here. The three properties
that TLC finds violated are, of course, not theorems.

## 5. Plan

1. (done) broker, blocks, and the other five programs: modules and runs.
2. (done) proofs of every invariant and every property of steps, and of both refinements.
3. Next: abstract specifications for the two chats and the file transfer, in the way of `TopicBus`
   and `Handoff`, from the invariants that are there: `NothingLost` and `InOrder` make `03/` a
   pair of mailboxes with an urgent last message, `FaithfulCopy` makes `01/` a copier that may give up at a file.
   For `04/`, `Handoff` holds but for the numbers reported; a variant without them would state it.
