------------------------------ MODULE PipeCopy ------------------------------
(***************************************************************************)
(* 01/main.c: the parent sends the files named on its command line to its  *)
(* child, over a pipe or a FIFO; the child writes <name>.copy.             *)
(*                                                                         *)
(* The pipe carries headers (Message) and raw bytes and nothing tells them *)
(* apart but the child's own counting.  A header is Header cells, a block  *)
(* of bytes at most Chunk, and as in the code a header is the larger one   *)
(* (264 and 256 bytes).  No write is larger than PIPE_BUF, so each is      *)
(* atomic; a read takes what is there.                                     *)
(*                                                                         *)
(* A child that reads bytes, or the inside of a header, as a header takes  *)
(* them for what they spell, any message that is in Spelled.               *)
(*                                                                         *)
(* Left out: a length above BUFFER_LENGTH that bytes spell for a block,    *)
(* which overruns the buffer (main.c:87); a file given twice, or named     *)
(* like the copy of another.                                               *)
(***************************************************************************)
EXTENDS Integers, Sequences

CONSTANTS Files,    \* how many files the command line names
          MaxLen,   \* bound: the longest file
          IntLimit, \* 2^31: off_t sizes are cut to int
          Header, Chunk, PipeCap,
          Spelled   \* the messages that are read where no header begins

F == 1..Files

ASSUME PipeAssumption ==
    /\ Files \in Nat \ {0} /\ MaxLen \in Nat /\ IntLimit \in Nat \ {0}
    /\ Chunk \in Nat \ {0} /\ Header \in Nat /\ Header > Chunk
    /\ PipeCap \in Nat /\ PipeCap >= Header
    /\ Spelled \subseteq [type : {"info", "done"}, file : F \cup {0},
                          length : -IntLimit..IntLimit - 1]
                    \cup [type : {"data"}, file : F \cup {0}, length : -IntLimit..Chunk]

VARIABLES disk,     \* the files, as the system calls will find them
          named,    \* whether -p gave a FIFO
          names,    \* the FIFOs that exist: "data" and "ack"
          ppc, file, sent,              \* the parent
          cpc, cur, total, got, want,   \* the child
          pipe, ack,                    \* pipefd and pipefd2
          copy      \* what has been written to each <name>.copy; 0 is any
                    \* name that the command line does not give

parentVars == <<ppc, file, sent>>
childVars == <<cpc, cur, total, got, want, copy>>
vars == <<disk, named, names, parentVars, childVars, pipe, ack>>

Min2(a, b) == IF a < b THEN a ELSE b

(* size is what lseek says, length what the reads deliver: they differ     *)
(* when somebody writes to the file in between.                            *)
File == [exists : {TRUE}, size : 0..MaxLen, length : 0..MaxLen, creatable : BOOLEAN]
        \cup [exists : {FALSE}, size : {0}, length : {0}, creatable : {TRUE}]

Msg(type, f, n) == [type |-> type, file |-> f, length |-> n]
Cells(m, from, n) == [k \in 1..n |-> [msg |-> m, at |-> from + k]]
Bytes(f, from, n) == Cells(Msg("bytes", f, 0), from, n)
Content(f) == Bytes(f, 0, disk[f].length)

(* (int)size                                                               *)
ToInt(n) == ((n + IntLimit) % (2 * IntLimit)) - IntLimit

Init ==
    /\ disk \in [F -> File]
    /\ named \in BOOLEAN
    /\ names \in SUBSET {"data", "ack"}
    /\ ppc = "create" /\ file = 1 /\ sent = 0
    /\ cpc = "none" /\ cur = 0 /\ total = 0 /\ got = 0 /\ want = 0
    /\ pipe = <<>> /\ ack = <<>>
    /\ copy = [f \in F \cup {0} |-> <<>>]
-----------------------------------------------------------------------------
(* Start: two mkfifo or two pipe, and fork.  When the second mkfifo fails  *)
(* the first FIFO is left behind.                                          *)
Fork ==
    /\ ppc = "create"
    /\ IF named /\ names # {}
       THEN /\ ppc' = "exited"
            /\ names' = names \cup {"data"}
            /\ UNCHANGED cpc
       ELSE /\ ppc' = IF named THEN "open1" ELSE "ready"
            /\ cpc' = IF named THEN "open1" ELSE "greet"
            /\ names' = IF named THEN {"data", "ack"} ELSE names
    /\ UNCHANGED <<disk, named, file, sent, cur, total, got, want, copy, pipe, ack>>

(* Opening a FIFO waits until the other side opens it too.                 *)
ParentOrder == <<"data", "ack">>
(* As the child that opens its write end first.                            *)
ChildOrderSwapped == <<"ack", "data">>
ChildOrder == <<"data", "ack">>

(* The FIFOs that a process at l has opened or is just opening.            *)
Reached(order, l) ==
    CASE l \in {"none", "create"} -> {}
      [] l = "open1" -> {order[1]}
      [] OTHER -> {order[1], order[2]}

ParentOpen ==
    /\ ppc \in {"open1", "open2"}
    /\ ParentOrder[IF ppc = "open1" THEN 1 ELSE 2] \in Reached(ChildOrder, cpc)
    /\ ppc' = IF ppc = "open1" THEN "open2" ELSE "ready"
    /\ UNCHANGED <<disk, named, names, file, sent, childVars, pipe, ack>>

ChildOpen ==
    /\ cpc \in {"open1", "open2"}
    /\ ChildOrder[IF cpc = "open1" THEN 1 ELSE 2] \in Reached(ParentOrder, ppc)
    /\ cpc' = IF cpc = "open1" THEN "open2" ELSE "greet"
    /\ UNCHANGED <<disk, named, names, parentVars, cur, total, got, want, copy, pipe, ack>>
-----------------------------------------------------------------------------
(* The parent.                                                             *)

(* Without a reader it is SIGPIPE: BrokenPipe.                             *)
Write(cells) ==
    /\ cpc # "exited"
    /\ Len(pipe) + Len(cells) <= PipeCap
    /\ pipe' = pipe \o cells

WriteMsg(type, f, n) == Write(Cells(Msg(type, f, n), 0, Header))

ReadReady ==
    /\ ppc = "ready" /\ ack # <<>>
    /\ ack' = Tail(ack)
    /\ ppc' = "file"
    /\ UNCHANGED <<disk, named, names, file, sent, childVars, pipe>>

SkipMissing ==
    /\ ppc = "file" /\ file <= Files
    /\ ~disk[file].exists
    /\ file' = file + 1
    /\ UNCHANGED <<disk, named, names, ppc, sent, childVars, pipe, ack>>

SendInfo ==
    /\ ppc = "file" /\ file <= Files
    /\ disk[file].exists
    /\ WriteMsg("info", file, ToInt(disk[file].size))
    /\ sent' = 0
    /\ ppc' = "data"
    /\ UNCHANGED <<disk, named, names, file, childVars, ack>>

(* As the code that reads the file in one go.                              *)
BlockWhole == disk[file].length - sent

(* read(fd, buffer, BUFFER_LENGTH)                                         *)
Block == Min2(Chunk, disk[file].length - sent)

SendHeader ==
    /\ ppc = "data" /\ Block > 0
    /\ WriteMsg("data", file, Block)
    /\ ppc' = "bytes"
    /\ UNCHANGED <<disk, named, names, file, sent, childVars, ack>>

SendBytes ==
    /\ ppc = "bytes"
    /\ Write(Bytes(file, sent, Block))
    /\ sent' = sent + Block
    /\ ppc' = "data"
    /\ UNCHANGED <<disk, named, names, file, childVars, ack>>

FileSent ==
    /\ ppc = "data" /\ Block = 0
    /\ file' = file + 1
    /\ ppc' = "file"
    /\ UNCHANGED <<disk, named, names, sent, childVars, pipe, ack>>

SendDone ==
    /\ ppc = "file" /\ file > Files
    /\ WriteMsg("done", 0, 0)
    /\ ppc' = "close"
    /\ UNCHANGED <<disk, named, names, file, sent, childVars, ack>>

(* SIGPIPE: a child that has read a DONE too early does not read on.  The  *)
(* names of the FIFOs stay.                                                *)
BrokenPipe ==
    /\ cpc = "exited"
    /\ \/ ppc = "file" /\ (file <= Files => disk[file].exists)
       \/ ppc = "data" /\ Block > 0
       \/ ppc = "bytes"
    /\ ppc' = "exited"
    /\ UNCHANGED <<disk, named, names, file, sent, childVars, pipe, ack>>

CloseEnds ==
    /\ ppc = "close"
    /\ ppc' = "wait"
    /\ UNCHANGED <<disk, named, names, file, sent, childVars, pipe, ack>>

(* wait(NULL), and the FIFOs are removed.                                  *)
WaitChild ==
    /\ ppc = "wait" /\ cpc = "exited"
    /\ names' = IF named THEN {} ELSE names
    /\ ppc' = "exited"
    /\ UNCHANGED <<disk, named, file, sent, childVars, pipe, ack>>
-----------------------------------------------------------------------------
(* The child.                                                              *)

AtEof == pipe = <<>> /\ ppc \in {"wait", "exited"}

(* What read(fd, ..., n) returns, and what it takes.                       *)
Got(n) == SubSeq(pipe, 1, Min2(n, Len(pipe)))
Take(n) == pipe # <<>> /\ pipe' = SubSeq(pipe, Min2(n, Len(pipe)) + 1, Len(pipe))

(* The Message that a read of sizeof(Message) leaves in msg, as what was   *)
(* read first decides: the header that begins there, or anything, with     *)
(* what a short read leaves of the one before.  "bytes" is no type.        *)
Received ==
    LET c == Got(Header)[1]
    IN  IF c.at = 1 /\ c.msg.type # "bytes" THEN {c.msg} ELSE {Msg("bytes", 0, 0)} \cup Spelled

Creatable(f) == f = 0 \/ disk[f].creatable

Greet ==
    /\ cpc = "greet"
    /\ ack' = Append(ack, "ready")
    /\ cpc' = "header"
    /\ UNCHANGED <<disk, named, names, parentVars, cur, total, got, want, copy, pipe>>

(* FILE_INFO.  When the copy cannot be created the child goes on with what *)
(* comes next, as if the file were not being sent.                         *)
CreateCopy ==
    /\ cpc = "header" /\ Take(Header)
    /\ \E m \in Received :
          /\ m.type = "info"
          /\ IF Creatable(m.file)
             THEN /\ copy' = [copy EXCEPT ![m.file] = <<>>]
                  /\ cur' = m.file /\ total' = m.length /\ got' = 0
                  /\ cpc' = "copy"
             ELSE UNCHANGED <<copy, cur, total, got, cpc>>
    /\ UNCHANGED <<disk, named, names, parentVars, want, ack>>

Unknown ==
    /\ cpc = "header" /\ Take(Header)
    /\ \E m \in Received : m.type \in {"data", "bytes"}
    /\ UNCHANGED <<disk, named, names, parentVars, childVars, ack>>

(* A length that is not above 0 reads nothing.                             *)
CopyHeader ==
    /\ cpc = "copy" /\ got < total /\ Take(Header)
    /\ \E m \in Received :
          /\ m.type # "done"
          /\ IF m.type = "data" /\ m.length > 0 THEN want' = m.length /\ cpc' = "body"
                                                 ELSE UNCHANGED <<want, cpc>>
    /\ UNCHANGED <<disk, named, names, parentVars, cur, total, got, copy, ack>>

(* As the child that always reads a whole buffer.                          *)
CopyBytesFull ==
    /\ cpc = "body" /\ Take(Chunk)
    /\ copy' = [copy EXCEPT ![cur] = @ \o Got(Chunk)]
    /\ got' = got + Len(Got(Chunk))
    /\ cpc' = "copy"
    /\ UNCHANGED <<disk, named, names, parentVars, cur, total, want, ack>>

(* As the child that counts messages and not bytes.                        *)
CopyBytesCountOne ==
    /\ cpc = "body" /\ Take(want)
    /\ copy' = [copy EXCEPT ![cur] = @ \o Got(want)]
    /\ got' = got + 1
    /\ cpc' = "copy"
    /\ UNCHANGED <<disk, named, names, parentVars, cur, total, want, ack>>

CopyBytes ==
    /\ cpc = "body" /\ Take(want)
    /\ copy' = [copy EXCEPT ![cur] = @ \o Got(want)]
    /\ got' = got + Len(Got(want))
    /\ cpc' = "copy"
    /\ UNCHANGED <<disk, named, names, parentVars, cur, total, want, ack>>

CopyDone ==
    /\ cpc = "copy" /\ got >= total
    /\ cpc' = "header"
    /\ UNCHANGED <<disk, named, names, parentVars, cur, total, got, want, copy, pipe, ack>>

(* DONE, between files or in the middle of one.                            *)
ChildDone ==
    /\ cpc = "header" \/ (cpc = "copy" /\ got < total)
    /\ Take(Header)
    /\ \E m \in Received : m.type = "done"
    /\ cpc' = "exited"
    /\ UNCHANGED <<disk, named, names, parentVars, cur, total, got, want, copy, ack>>

(* The parent has closed its end and there is nothing left.                *)
ChildEof ==
    /\ AtEof
    /\ \/ cpc = "header" /\ cpc' = "exited"
       \/ cpc = "copy" /\ got < total /\ cpc' = "header"
       \/ cpc = "body" /\ cpc' = "copy"
    /\ UNCHANGED <<disk, named, names, parentVars, cur, total, got, want, copy, pipe, ack>>

Parent ==
    \/ Fork \/ ParentOpen \/ ReadReady \/ SkipMissing \/ SendInfo \/ SendHeader
    \/ SendBytes \/ FileSent \/ SendDone \/ CloseEnds \/ WaitChild
    \/ BrokenPipe

Child ==
    \/ ChildOpen \/ Greet \/ CreateCopy \/ Unknown \/ CopyHeader \/ CopyBytes
    \/ CopyDone \/ ChildDone \/ ChildEof

BothGone == ppc = "exited" /\ cpc \in {"none", "exited"}

Next == Parent \/ Child \/ (BothGone /\ UNCHANGED vars)

(* Both processes are scheduled.                                           *)
Spec == Init /\ [][Next]_vars /\ WF_vars(Parent) /\ WF_vars(Child)
-----------------------------------------------------------------------------
TypeOK ==
    /\ ppc \in {"create", "open1", "open2", "ready", "file", "data", "bytes",
                "close", "wait", "exited"}
    /\ cpc \in {"none", "open1", "open2", "greet", "header", "copy", "body", "exited"}
    /\ file \in 1..Files + 1
    /\ sent \in 0..MaxLen
    /\ cur \in 0..Files
    /\ cpc \in {"copy", "body"} => Creatable(cur)
    /\ total \in -IntLimit..IntLimit - 1
    /\ want \in 0..Chunk
    /\ Len(pipe) <= PipeCap

(* The child can follow the stream past file f: what was announced is what *)
(* is sent, and the copy can be written.                                   *)
Sound(f) ==
    disk[f].exists =>
       disk[f].size = disk[f].length /\ disk[f].size < IntLimit /\ disk[f].creatable

(* The copies that bytes can announce.                                     *)
Odd == {0} \cup {m.file : m \in {x \in Spelled : x.type = "info"}}

(* While every file has been sound, each copy becomes the whole file; one  *)
(* that is not takes only itself and later ones with it (the counting of   *)
(* 01/main.c:72-93 against the sending of 160-165), and, for the bytes of  *)
(* it that are then read as headers, those that they name (55-60).         *)
FaithfulCopy ==
    cpc = "exited" =>
       \A f \in F :
          (\A g \in F : g <= f \/ f \in Odd => Sound(g)) => copy[f] = Content(f)

(* Unless a file shrank while it was sent, no copy gets a byte that is not *)
(* its file's, whatever the child had to skip: after a file that grew, or  *)
(* a copy that could not be created, it reads bytes as headers, and what   *)
(* they announce gets what comes, but a file that they do not name is      *)
(* begun at its own FILE_INFO and read at the edges of its blocks          *)
(* (01/main.c:55-64, 74-91, 109).                                          *)
OwnBytesOnly ==
    (\A f \in F : disk[f].length >= disk[f].size) =>
       \A f \in F \ Odd : /\ Len(copy[f]) <= disk[f].length
                          /\ copy[f] = SubSeq(Content(f), 1, Len(copy[f]))

(* Both processes end, however the files change and whatever the child     *)
(* makes of the stream: by DONE, by the end of the pipe, or by SIGPIPE.    *)
BothEnd == <>BothGone
=============================================================================
