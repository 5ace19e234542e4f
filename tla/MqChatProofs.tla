---------------------------- MODULE MqChatProofs ----------------------------
(***************************************************************************)
(* Proofs about 03/main.c: which names the programs can leave behind, and  *)
(* what becomes of the messages, for any number of programs.               *)
(***************************************************************************)
EXTENDS MqChat, FiniteSetTheorems, SequenceTheorems, TLAPS

(* Who owns a name is between its creation and its removal, and reads the  *)
(* queue _1 that it made, so that it is the one that will remove both.     *)
OwnerInv ==
    /\ main \in [Users -> {"off", "create2", "open1", "open2", "drop1", "drop2",
                            "gaveup", "join", "unlink1", "unlink2", "exited"}]
    /\ rq \in [Users -> Queue \cup {None}]
    /\ name \in [{1, 2} -> Queue \cup {None}]
    /\ \A u \in Users :
          /\ name[1] # <<u, 2>> /\ name[2] # <<u, 1>>
          /\ main[u] = "create2" => rq[u] = <<u, 1>>
          /\ name[1] = <<u, 1>> =>
                /\ main[u] \in {"create2", "drop2", "gaveup", "join", "unlink1"}
                /\ rq[u] = <<u, 1>>
          /\ name[2] = <<u, 2>> =>
                /\ main[u] \in {"join", "unlink1", "unlink2"}
                /\ rq[u] = <<u, 1>>

LEMMA OwnerStep ==
  ASSUME OwnerInv, [Next]_vars
  PROVE  OwnerInv'
<1> USE ChatAssumption DEF OwnerInv, Queue
<1>1. ASSUME UNCHANGED <<main, name, rq>> PROVE OwnerInv'
  BY <1>1
<1>2. ASSUME NEW u \in Users, OpenFirst(u) PROVE OwnerInv'
  BY <1>2 DEF OpenFirst, Set, chatVars
<1>3. ASSUME NEW u \in Users, CreateSecond(u) PROVE OwnerInv'
  BY <1>3 DEF CreateSecond, StartThreads, Set, chatVars
<1>4. ASSUME NEW u \in Users, OpenToWrite(u) PROVE OwnerInv'
  BY <1>4 DEF OpenToWrite, Set, chatVars
<1>5. ASSUME NEW u \in Users, OpenToRead(u) PROVE OwnerInv'
  BY <1>5 DEF OpenToRead, StartThreads, Set, chatVars
<1>6. ASSUME NEW u \in Users, GiveUp(u) PROVE OwnerInv'
  BY <1>6 DEF GiveUp, Set
<1>7. ASSUME NEW u \in Users, Join(u) PROVE OwnerInv'
  BY <1>7 DEF Join, Set, openVars, chatVars
<1>8. ASSUME NEW u \in Users, Unlink(u) PROVE OwnerInv'
  BY <1>8 DEF Unlink, Set
<1>9. ASSUME NEW u \in Users, Writer(u) \/ Reader(u) \/ Type(u) \/ Interrupt(u)
      PROVE  UNCHANGED <<main, name, rq>>
  BY <1>9 DEF Writer, WriterLoop, SendText, SayGoodbye, CloseWrite, Reader, ReaderLoop,
              PollEmpty, Receive, CloseRead, Type, Interrupt, openVars
<1> QED
  BY <1>1, <1>2, <1>3, <1>4, <1>5, <1>6, <1>7, <1>8, <1>9
     DEF Next, Main, Opening, vars, openVars

(* A program that ends in order leaves neither name behind, and of one     *)
(* that gives up only _1 can stay (03/main.c:136-147, 171-176, 196-197).   *)
THEOREM NamesLeftHolds == Spec => []NamesLeft
<1>1. Init => OwnerInv
  BY ChatAssumption DEF Init, OwnerInv, Queue
<1>2. OwnerInv /\ [Next]_vars => OwnerInv'
  BY OwnerStep
<1>3. OwnerInv => NamesLeft
  BY DEF OwnerInv, NamesLeft, Queue
<1> QED
  BY <1>1, <1>2, <1>3, PTL DEF Spec

-----------------------------------------------------------------------------
(* The messages.                                                           *)

(* The threads run only once both queues are open; main waits for both.    *)
Ready(u) ==
    /\ writer[u] # "off" \/ reader[u] # "off" =>
          /\ main[u] \in {"join", "unlink1", "unlink2", "exited"}
          /\ wq[u] \in Queue /\ rq[u] \in Queue
    /\ main[u] \in {"unlink1", "unlink2", "exited"} =>
          writer[u] = "done" /\ reader[u] = "done"
    /\ writer[u] = "off" => typed[u] = 0
    /\ writer[u] = "send" => typed[u] > 0
    /\ reader[u] \in {"close", "done"} => ~running[u]
    /\ main[u] \in {"off", "create2", "open1"} => wq[u] = None
    /\ main[u] \in {"off", "open1", "open2"} => rq[u] = None
    /\ main[u] = "open2" => wq[u] \in Queue
    /\ reader[u] = "off" => seen[u] = <<>>

(* The queue has been made, whether it is there still or not.              *)
Made(c) == main[c[1]] # "off" /\ (c[2] = 2 => main[c[1]] # "create2")

Wired ==
    /\ writer \in [Users -> {"off", "loop", "fgets", "send", "bye", "close", "done"}]
    /\ reader \in [Users -> {"off", "loop", "poll", "close", "done"}]
    /\ running \in [Users -> BOOLEAN]
    /\ wq \in [Users -> Queue \cup {None}]
    /\ q \in [Queue -> Seq(Message)] /\ \A c \in Queue : Len(q[c]) <= MaxMsg
    /\ typed \in [Users -> Nat]
    /\ seen \in [Users -> Seq(Message)]
    /\ \A u \in Users : Ready(u) /\ (wq[u] # None => Made(wq[u]))

Parted(u) == writer[u] \in {"close", "done"}
Stopped(u) == reader[u] \in {"close", "done"}

(* What has been sent.                                                     *)
Mail == {m \in Message :
    \/ m = Text(m.from, m.n) /\ m.n > 0 /\ m.n <= Sent(m.from)
    \/ m = Goodbye(m.from) /\ Parted(m.from)}

(* Both are text of one person, and the second is the newer.               *)
Newer(m, l) == m.from = l.from /\ m.prio = 1 /\ l.prio = 1 => m.n < l.n

(* In a queue: what came of its own writers, the most urgent first, and    *)
(* otherwise in the order in which it was written.                         *)
QueueInv == \A c \in Queue :
    /\ \A i \in 1..Len(q[c]) : q[c][i] \in Mail /\ wq[q[c][i].from] = c
    /\ \A i, j \in 1..Len(q[c]) : i < j =>
          q[c][i].prio >= q[c][j].prio /\ Newer(q[c][i], q[c][j])

(* What has been shown is older than what waits anywhere.                  *)
SeenInv ==
    /\ \A u \in Users :
          /\ \A i \in 1..Len(seen[u]) :
                seen[u][i] \in Mail /\ (seen[u][i].prio = 2 => i = Len(seen[u]) /\ Stopped(u))
          /\ \A i, j \in 1..Len(seen[u]) : i < j => Newer(seen[u][i], seen[u][j])
    /\ \A u \in Users, c \in Queue : \A i \in 1..Len(seen[u]), j \in 1..Len(q[c]) :
          Newer(seen[u][i], q[c][j])

(* What was sent is there.                                                 *)
SentInv == \A u \in Users :
    /\ \A n \in Nat : n > 0 /\ n <= Sent(u) => There(Text(u, n))
    /\ Parted(u) => There(Goodbye(u))

(* What is lost was in a queue that is gone, and is newer than what was    *)
(* shown.                                                                  *)
LostInv == \A m \in lost :
    /\ m \in Mail /\ wq[m.from] \in Queue /\ ~Alive(wq[m.from])
    /\ \A u \in Users : \A i \in 1..Len(seen[u]) : Newer(seen[u][i], m)

(* A queue that is gone holds nothing.                                     *)
EmptyInv == \A c \in Queue : ~Alive(c) => q[c] = <<>>

MailInv == QueueInv /\ SeenInv /\ SentInv /\ LostInv /\ EmptyInv /\ Once
MqInv == OwnerInv /\ Wired /\ MailInv

-----------------------------------------------------------------------------
(* Where a message goes in a queue.                                        *)

LEMMA Beginning ==
    ASSUME NEW n \in Nat, NEW S \in SUBSET (1..n), \A i \in S, j \in 1..n : j < i => j \in S
    PROVE  Cardinality(S) \in 0..n /\ S = 1..Cardinality(S)
  <1>1. ASSUME NEW k \in 0..n, S = 1..k PROVE Cardinality(S) = k
    BY <1>1, FS_Interval
  <1>2. CASE S = 1..n
    BY <1>1, <1>2
  <1>3. CASE S # 1..n
    <2> DEFINE T == (1..n) \ S
    <2>0. \E x \in 1..n : x \notin S
      BY <1>3
    <2>1. T # {} /\ T \in SUBSET Nat
      BY <2>0
    <2>2. PICK x \in T : \A y \in T : ~(<<y, x>> \in OpToRel(<, Nat))
      BY <2>1, WFMin, NatLessThanWellFounded
    <2>3. \A y \in T : x <= y
      <3> SUFFICES ASSUME NEW y \in T, ~(x <= y) PROVE FALSE
        OBVIOUS
      <3>1. y < x /\ y \in Nat /\ x \in Nat
        BY <2>1
      <3>2. <<y, x>> \in OpToRel(<, Nat)
        BY <3>1 DEF OpToRel
      <3> QED
        BY <2>2, <3>2
    <2>4. S = 1..x - 1
      <3>1. \A i \in S : i < x
        <4> SUFFICES ASSUME NEW i \in S, ~(i < x) PROVE FALSE
          OBVIOUS
        <4>1. x \in 1..n /\ x \notin S /\ i \in 1..n
          OBVIOUS
        <4>2. x < i
          BY <4>1
        <4> QED
          BY <4>1, <4>2
      <3>2. \A j \in 1..n : j < x => j \in S
        BY <2>3
      <3>3. x \in 1..n /\ \A i \in S : i \in 1..n
        OBVIOUS
      <3> HIDE DEF T
      <3>4. \A i \in S : i \in 1..x - 1
        BY <3>1, <3>3
      <3>5. \A i \in 1..x - 1 : i \in 1..n /\ i < x
        BY <3>3
      <3> QED
        BY <3>2, <3>4, <3>5
    <2>5. x - 1 \in 0..n
      OBVIOUS
    <2> QED
      BY <1>1, <2>4, <2>5
  <1> QED
    BY <1>2, <1>3

(* mq_send puts a message behind all that is as urgent.                    *)
LEMMA InsertFacts ==
    ASSUME NEW s \in Seq(Message), NEW m \in Message,
           \A i, j \in 1..Len(s) : i < j => s[i].prio >= s[j].prio
    PROVE  /\ Insert(s, m) \in Seq(Message) /\ Len(Insert(s, m)) = Len(s) + 1
           /\ \E k \in 0..Len(s) :
                /\ \A i \in 1..k : Insert(s, m)[i] = s[i] /\ s[i].prio >= m.prio
                /\ Insert(s, m)[k + 1] = m
                /\ \A i \in k + 1..Len(s) : Insert(s, m)[i + 1] = s[i] /\ s[i].prio < m.prio
  <1> DEFINE before == {i \in DOMAIN s : s[i].prio >= m.prio}
             k == Cardinality(before)
  <1>1. Len(s) \in Nat /\ DOMAIN s = 1..Len(s) /\ \A i \in 1..Len(s) : s[i].prio \in Nat
    <2>1. \A x \in Message : x.prio \in Nat
      BY DEF Message
    <2>2. \A i \in 1..Len(s) : s[i] \in Message
      OBVIOUS
    <2> QED
      BY <2>1, <2>2
  <1>2. m.prio \in Nat
    BY DEF Message
  <1>3. before \in SUBSET (1..Len(s))
        /\ \A i \in before, j \in 1..Len(s) : j < i => j \in before
    BY <1>1, <1>2
  <1>4. k \in 0..Len(s) /\ before = 1..k
    BY <1>1, <1>3, Beginning
  <1>5. \A i \in 1..Len(s) : s[i].prio >= m.prio <=> i <= k
    BY <1>1, <1>4
  <1>6. Insert(s, m) = SubSeq(s, 1, k) \o <<m>> \o SubSeq(s, k + 1, Len(s))
    <2>1. Insert(s, m) = InsertAt(s, k + 1, m)
      BY DEF Insert
    <2> DEFINE j == k + 1
    <2>2. j - 1 = k
      BY <1>4
    <2> HIDE DEF k, j
    <2>3. InsertAt(s, j, m) = SubSeq(s, 1, k) \o <<m>> \o SubSeq(s, j, Len(s))
      BY <2>2, Zenon DEF InsertAt
    <2> QED
      BY <2>1, <2>3 DEF j
  <1> HIDE DEF before, k
  <1> DEFINE a == SubSeq(s, 1, k)
             b == SubSeq(s, k + 1, Len(s))
  <1>7. a \in Seq(Message) /\ Len(a) = k /\ \A i \in 1..k : a[i] = s[i]
    <2>1. \A i \in 1..k : s[i] \in Message
      BY <1>1, <1>4
    <2>2. /\ a \in Seq(Message) /\ Len(a) = IF 1 <= k THEN k - 1 + 1 ELSE 0
          /\ \A i \in 1..k - 1 + 1 : a[i] = s[1 + i - 1]
      BY <1>1, <1>4, <2>1, SubSeqProperties
    <2> QED
      BY <1>4, <2>2
  <1>8. b \in Seq(Message) /\ Len(b) = Len(s) - k /\ \A i \in 1..Len(s) - k : b[i] = s[k + i]
    <2>1. \A i \in k + 1..Len(s) : s[i] \in Message
      BY <1>1, <1>4
    <2>2. /\ b \in Seq(Message) /\ Len(b) = IF k + 1 <= Len(s) THEN Len(s) - (k + 1) + 1 ELSE 0
          /\ \A i \in 1..Len(s) - (k + 1) + 1 : b[i] = s[k + 1 + i - 1]
      BY <1>1, <1>4, <2>1, SubSeqProperties
    <2>3. Len(b) = Len(s) - k
      <3>1. k \in Nat /\ Len(s) \in Nat /\ k <= Len(s)
        BY <1>4
      <3>2. CASE k + 1 <= Len(s)
        BY <1>1, <2>2, <3>1, <3>2
      <3>3. CASE ~(k + 1 <= Len(s))
        <4>1. Len(s) - k = 0
          BY <3>1, <3>3
        <4> QED
          BY <2>2, <3>3, <4>1
      <3> QED
        BY <3>2, <3>3
    <2>4. ASSUME NEW i \in 1..Len(s) - k PROVE b[i] = s[k + i]
      <3>1. i \in 1..Len(s) - (k + 1) + 1 /\ k + 1 + i - 1 = k + i
        BY <1>1, <1>4
      <3> QED
        BY <2>2, <3>1
    <2> QED
      BY <2>2, <2>3, <2>4
  <1> HIDE DEF a, b
  <1> DEFINE t == a \o <<m>> \o b
  <1>9. /\ t \in Seq(Message) /\ Len(t) = Len(s) + 1
        /\ \A i \in 1..k : t[i] = a[i]
        /\ t[k + 1] = m
        /\ \A i \in 1..Len(s) - k : t[k + 1 + i] = b[i]
    BY <1>1, <1>4, <1>7, <1>8
  <1> HIDE DEF t
  <1>10. Insert(s, m) = t
    BY <1>6 DEF t, a, b
  <1>11. \A i \in 1..k : t[i] = s[i] /\ s[i].prio >= m.prio
    BY <1>1, <1>4, <1>5, <1>7, <1>9
  <1>12. ASSUME NEW i \in k + 1..Len(s) PROVE t[i + 1] = s[i] /\ s[i].prio < m.prio
    <2>1. i - k \in 1..Len(s) - k /\ k + 1 + (i - k) = i + 1 /\ k + (i - k) = i /\ i \in 1..Len(s)
          /\ ~(i <= k)
      BY <1>1, <1>4
    <2>2. t[i + 1] = b[i - k] /\ b[i - k] = s[i]
      BY <1>8, <1>9, <2>1
    <2>3. ~(s[i].prio >= m.prio)
      BY <1>5, <2>1
    <2> QED
      BY <1>1, <1>2, <2>1, <2>2, <2>3
  <1>13. \A i \in k + 1..Len(s) : t[i + 1] = s[i] /\ s[i].prio < m.prio
    BY <1>12
  <1>14. /\ t \in Seq(Message) /\ Len(t) = Len(s) + 1 /\ t[k + 1] = m
         /\ k \in 0..Len(s)
    BY <1>4, <1>9
  <1> QED
    BY <1>10, <1>11, <1>13, <1>14, Zenon
-----------------------------------------------------------------------------
(* A message is sent.                                                      *)
LEMMA Sending ==
    ASSUME Wired, QueueInv, SeenInv, Once, NEW u \in Users, NEW m \in Message,
           m.from = u, wq[u] \in Queue, ~There(m),
           q' = [q EXCEPT ![wq[u]] = Insert(@, m)], UNCHANGED <<seen, reader, wq, lost>>,
           m \in Mail', Mail \subseteq Mail', \A x \in Mail : Newer(x, m)
    PROVE  /\ q' \in [Queue -> Seq(Message)]
           /\ \A d \in Queue : Len(q'[d]) = IF d = wq[u] THEN Len(q[d]) + 1 ELSE Len(q[d])
           /\ QueueInv' /\ SeenInv' /\ Once'
           /\ \A x : There(x)' <=> There(x) \/ x = m
  <1> DEFINE c == wq[u]
             s == q[c]
             t == Insert(s, m)
  <1>1. s \in Seq(Message) /\ Len(s) \in Nat /\ q \in [Queue -> Seq(Message)]
        /\ seen \in [Users -> Seq(Message)]
    BY DEF Wired
  <1>2. \A i, j \in 1..Len(s) : i < j => s[i].prio >= s[j].prio
    BY DEF QueueInv
  <1>3. /\ t \in Seq(Message) /\ Len(t) = Len(s) + 1
        /\ \E k \in 0..Len(s) :
             /\ \A i \in 1..k : t[i] = s[i] /\ s[i].prio >= m.prio
             /\ t[k + 1] = m
             /\ \A i \in k + 1..Len(s) : t[i + 1] = s[i] /\ s[i].prio < m.prio
    BY <1>1, <1>2, InsertFacts
  <1>4. /\ q' \in [Queue -> Seq(Message)] /\ q'[c] = t
        /\ \A d \in Queue : d # c => q'[d] = q[d]
    BY <1>1, <1>3
  <1>c. c \in Queue
    OBVIOUS
  <1> HIDE DEF t
  <1>5. PICK k \in 0..Len(s) :
             /\ \A i \in 1..k : t[i] = s[i] /\ s[i].prio >= m.prio
             /\ t[k + 1] = m
             /\ \A i \in k + 1..Len(s) : t[i + 1] = s[i] /\ s[i].prio < m.prio
    BY <1>3
  <1> HIDE DEF s, c
  <1> DEFINE old(i) == IF i <= k THEN i ELSE i - 1
             new(i) == IF i <= k THEN i ELSE i + 1
  <1>6. \A i \in 1..Len(t) : i # k + 1 =>
           /\ old(i) \in 1..Len(s) /\ t[i] = s[old(i)]
           /\ i <= k => s[old(i)].prio >= m.prio
           /\ i > k => s[old(i)].prio < m.prio
    <2> TAKE i \in 1..Len(t)
    <2>1. CASE i <= k
      BY <1>1, <1>3, <1>5, <2>1
    <2>2. CASE i > k + 1
      <3>1. i - 1 \in k + 1..Len(s) /\ i - 1 \in 1..Len(s) /\ i - 1 + 1 = i /\ ~(i <= k)
        BY <1>1, <1>3, <2>2
      <3> QED
        BY <1>5, <3>1
    <2> QED
      BY <1>1, <1>3, <2>1, <2>2
  <1>7. \A i, j \in 1..Len(t) : i # k + 1 /\ j # k + 1 /\ i < j => old(i) < old(j)
    BY <1>1, <1>3
  <1>8. \A i \in 1..Len(s) : new(i) \in 1..Len(t) /\ t[new(i)] = s[i]
    <2> TAKE i \in 1..Len(s)
    <2>1. CASE i <= k
      BY <1>1, <1>3, <1>5, <2>1
    <2>2. CASE ~(i <= k)
      <3>1. i \in k + 1..Len(s) /\ i + 1 \in 1..Len(t)
        BY <1>1, <1>3, <2>2
      <3> QED
        BY <1>5, <2>2, <3>1
    <2> QED
      BY <2>1, <2>2
  <1> HIDE DEF old, new
  <1>9. k + 1 \in 1..Len(t) /\ t[k + 1] = m
    BY <1>1, <1>3, <1>5
  <1>d. DOMAIN t = 1..Len(t) /\ DOMAIN s = 1..Len(s)
        /\ \A d \in Queue : DOMAIN q[d] = 1..Len(q[d])
        /\ \A w \in Users : DOMAIN seen[w] = 1..Len(seen[w])
    BY <1>1, <1>3
  <1>s. q[c] = s /\ c = wq[u]
    BY DEF s, c
  <1>n. /\ \A d \in Queue : \A i \in 1..Len(q[d]) : q[d][i] # m
        /\ \A w \in Users : \A i \in 1..Len(seen[w]) : seen[w][i] # m
    BY <1>d DEF There, Shown
  <1>m. /\ \A d \in Queue : \A i \in 1..Len(q[d]) : q[d][i] \in Message
        /\ \A w \in Users : \A i \in 1..Len(seen[w]) : seen[w][i] \in Message
    BY <1>1
  <1>u. UNCHANGED <<wq, seen, reader, lost>> /\ m \notin lost
    BY DEF There
  <1>10. QueueInv'
    <2>1. ASSUME NEW i \in 1..Len(t) PROVE t[i] \in Mail' /\ wq[t[i].from] = c
      <3>1. CASE i = k + 1
        BY <1>9, <1>s, <3>1
      <3>2. CASE i # k + 1
        <4>1. old(i) \in 1..Len(s) /\ t[i] = s[old(i)]
          BY <1>6, <3>2
        <4>2. s[old(i)] \in Mail /\ wq[s[old(i)].from] = c /\ s[old(i)] \in Message
          BY <1>c, <1>m, <1>s, <4>1 DEF QueueInv
        <4> QED
          BY <4>1, <4>2
      <3> QED
        BY <3>1, <3>2
    <2>2. ASSUME NEW i \in 1..Len(t), NEW j \in 1..Len(t), i < j
          PROVE  t[i].prio >= t[j].prio /\ Newer(t[i], t[j])
      <3>1. CASE i # k + 1 /\ j # k + 1
        <4>1. /\ old(i) \in 1..Len(s) /\ t[i] = s[old(i)]
              /\ old(j) \in 1..Len(s) /\ t[j] = s[old(j)] /\ old(i) < old(j)
          BY <1>6, <1>7, <2>2, <3>1
        <4> QED
          BY <1>c, <1>s, <4>1 DEF QueueInv
      <3>2. CASE j = k + 1
        <4>1. i <= k /\ i # k + 1
          BY <1>1, <2>2, <3>2
        <4>2. old(i) \in 1..Len(s) /\ t[i] = s[old(i)] /\ s[old(i)].prio >= m.prio
          BY <1>6, <4>1
        <4>3. s[old(i)] \in Mail /\ s[old(i)] \in Message
          BY <1>c, <1>m, <1>s, <4>2 DEF QueueInv
        <4> QED
          BY <1>9, <3>2, <4>2, <4>3
      <3>3. CASE i = k + 1
        <4>1. j > k /\ j # k + 1
          BY <1>1, <2>2, <3>3
        <4>2. old(j) \in 1..Len(s) /\ t[j] = s[old(j)] /\ s[old(j)].prio < m.prio
          BY <1>6, <4>1
        <4>3. s[old(j)].prio \in {1, 2} /\ m.prio \in {1, 2}
          BY <1>c, <1>m, <1>s, <4>2 DEF Message
        <4>4. s[old(j)].prio = 1 /\ m.prio = 2
          BY <4>2, <4>3
        <4> QED
          BY <1>9, <3>3, <4>2, <4>4 DEF Newer
      <3> QED
        BY <3>1, <3>2, <3>3
    <2>3. ASSUME NEW d \in Queue, d # c
          PROVE  /\ q'[d] = q[d]
                 /\ \A i \in 1..Len(q[d]) : q[d][i] \in Mail' /\ wq[q[d][i].from] = d
                 /\ \A i, j \in 1..Len(q[d]) : i < j =>
                      q[d][i].prio >= q[d][j].prio /\ Newer(q[d][i], q[d][j])
      <3>1. q'[d] = q[d]
        BY <1>4, <2>3
      <3>2. \A i \in 1..Len(q[d]) : q[d][i] \in Mail /\ q[d][i] \in Message /\ wq[q[d][i].from] = d
        BY <1>m DEF QueueInv
      <3> QED
        BY <3>1, <3>2 DEF QueueInv
    <2> QED
      BY <1>4, <1>u, <2>1, <2>2, <2>3 DEF QueueInv, Newer
  <1>e. \A d \in Queue : \A i \in 1..Len(q'[d]) :
           \/ d = c /\ i = k + 1 /\ q'[d][i] = m
           \/ d # c /\ i \in 1..Len(q[d]) /\ q'[d][i] = q[d][i]
           \/ d = c /\ i # k + 1 /\ old(i) \in 1..Len(q[d]) /\ q'[d][i] = q[d][old(i)]
    BY <1>4, <1>6, <1>9, <1>s
  <1>f. \A d \in Queue : \A i \in 1..Len(q'[d]) :
           q'[d][i] = m \/ \E j \in 1..Len(q[d]) : q'[d][i] = q[d][j]
    BY <1>e
  <1>11. SeenInv'
    <2>1. \A w \in Users : \A i \in 1..Len(seen[w]) : seen[w][i] \in Mail
      BY DEF SeenInv
    <2>2. ASSUME NEW w \in Users, NEW d \in Queue, NEW i \in 1..Len(seen[w]), NEW j \in 1..Len(q'[d])
          PROVE  Newer(seen[w][i], q'[d][j])
      <3>1. CASE q'[d][j] = m
        BY <2>1, <3>1
      <3>2. CASE \E l \in 1..Len(q[d]) : q'[d][j] = q[d][l]
        BY <3>2 DEF SeenInv
      <3> QED
        BY <1>f, <3>1, <3>2
    <2>3. \A w \in Users : \A i \in 1..Len(seen[w]) : seen[w][i] \in Mail'
      BY <2>1
    <2>4. seen' = seen /\ reader' = reader
      BY <1>u
    <2> QED
      BY <2>2, <2>3, <2>4 DEF SeenInv, Newer, Stopped
  <1>12. Once'
    <2>1. /\ \A d, e \in Queue : \A i \in 1..Len(q[d]), j \in 1..Len(q[e]) :
                q[d][i] = q[e][j] => d = e /\ i = j
          /\ \A v, w \in Users : \A i \in 1..Len(seen[v]), j \in 1..Len(seen[w]) :
                seen[v][i] = seen[w][j] => v = w /\ i = j
          /\ \A d \in Queue, w \in Users : \A i \in 1..Len(q[d]), j \in 1..Len(seen[w]) :
                q[d][i] # seen[w][j]
      BY <1>d DEF Once
    <2>2. ASSUME NEW i \in 1..Len(t), NEW j \in 1..Len(t), i # k + 1, j # k + 1, old(i) = old(j)
          PROVE  i = j
      <3>1. i < j \/ j < i \/ i = j
        BY <1>1, <1>3
      <3>2. old(i) \in 1..Len(s) /\ old(j) \in 1..Len(s)
        BY <1>6, <2>2
      <3> QED
        BY <1>7, <2>2, <3>1, <3>2
    <2>3. ASSUME NEW d \in Queue, NEW e \in Queue, NEW i \in 1..Len(q'[d]), NEW j \in 1..Len(q'[e]),
                 q'[d][i] = q'[e][j]
          PROVE  d = e /\ i = j
      <3>1. CASE q'[d][i] = m \/ q'[e][j] = m
        BY <1>e, <1>n, <2>3, <3>1
      <3>2. CASE q'[d][i] # m /\ q'[e][j] # m
        <4>1. CASE d = c /\ e = c
          <5>1. /\ i # k + 1 /\ old(i) \in 1..Len(s) /\ q'[d][i] = s[old(i)]
                /\ j # k + 1 /\ old(j) \in 1..Len(s) /\ q'[e][j] = s[old(j)]
                /\ i \in 1..Len(t) /\ j \in 1..Len(t)
            BY <1>e, <1>4, <1>s, <3>2, <4>1
          <5>2. old(i) = old(j)
            BY <1>c, <1>s, <2>1, <2>3, <5>1
          <5> QED
            BY <2>2, <4>1, <5>1, <5>2
        <4>2. CASE d # c /\ e # c
          BY <1>e, <2>1, <2>3, <4>2
        <4>3. CASE d = c /\ e # c
          <5>1. old(i) \in 1..Len(q[d]) /\ q'[d][i] = q[d][old(i)]
            BY <1>e, <3>2, <4>3
          <5>2. j \in 1..Len(q[e]) /\ q'[e][j] = q[e][j]
            BY <1>e, <4>3
          <5>3. q[d][old(i)] = q[e][j]
            BY <2>3, <5>1, <5>2
          <5>4. d = e
            BY <2>1, <5>1, <5>2, <5>3
          <5> QED
            BY <4>3, <5>4
        <4>4. CASE d # c /\ e = c
          <5>1. old(j) \in 1..Len(q[e]) /\ q'[e][j] = q[e][old(j)]
            BY <1>e, <3>2, <4>4
          <5>2. i \in 1..Len(q[d]) /\ q'[d][i] = q[d][i]
            BY <1>e, <4>4
          <5>3. q[d][i] = q[e][old(j)]
            BY <2>3, <5>1, <5>2
          <5>4. d = e
            BY <2>1, <5>1, <5>2, <5>3
          <5> QED
            BY <4>4, <5>4
        <4> QED
          BY <4>1, <4>2, <4>3, <4>4
      <3> QED
        BY <3>1, <3>2
    <2>4. ASSUME NEW d \in Queue, NEW w \in Users, NEW i \in 1..Len(q'[d]), NEW j \in 1..Len(seen[w])
          PROVE  q'[d][i] # seen[w][j]
      <3>1. CASE q'[d][i] = m
        BY <1>n, <3>1
      <3>2. CASE \E l \in 1..Len(q[d]) : q'[d][i] = q[d][l]
        <4>1. PICK l \in 1..Len(q[d]) : q'[d][i] = q[d][l]
          BY <3>2
        <4>2. q[d][l] # seen[w][j]
          BY <2>1
        <4> QED
          BY <4>1, <4>2
      <3> QED
        BY <1>f, <3>1, <3>2
    <2>5. \A d \in Queue : DOMAIN q'[d] = 1..Len(q'[d])
      BY <1>4
    <2>6. ASSUME NEW d \in Queue, NEW e \in Queue, NEW i \in DOMAIN q'[d], NEW j \in DOMAIN q'[e],
                 q'[d][i] = q'[e][j]
          PROVE  d = e /\ i = j
      <3>1. i \in 1..Len(q'[d]) /\ j \in 1..Len(q'[e])
        BY <2>5
      <3> QED
        BY <2>3, <2>6, <3>1
    <2>7. \A v, w \in Users : \A i \in DOMAIN seen[v], j \in DOMAIN seen[w] :
            seen[v][i] = seen[w][j] => v = w /\ i = j
      BY DEF Once
    <2>8. ASSUME NEW d \in Queue, NEW w \in Users, NEW i \in DOMAIN q'[d], NEW j \in DOMAIN seen[w]
          PROVE  q'[d][i] # seen[w][j]
      <3>1. i \in 1..Len(q'[d]) /\ j \in 1..Len(seen[w])
        BY <1>d, <2>5
      <3> QED
        BY <2>4, <3>1
    <2>9. seen' = seen /\ lost' = lost
      BY <1>u
    <2>10. ASSUME NEW d \in Queue, NEW i \in DOMAIN q'[d] PROVE q'[d][i] \notin lost
      <3>1. i \in 1..Len(q'[d])
        BY <2>5
      <3>2. CASE \E l \in 1..Len(q[d]) : q'[d][i] = q[d][l]
        BY <1>d, <3>2 DEF Once
      <3> QED
        BY <1>f, <1>u, <3>1, <3>2
    <2>11. \A w \in Users : \A i \in DOMAIN seen[w] : seen[w][i] \notin lost
      BY DEF Once
    <2> QED
      BY <2>6, <2>7, <2>8, <2>9, <2>10, <2>11 DEF Once
  <1>13. ASSUME NEW x PROVE There(x)' <=> There(x) \/ x = m
    <2>0. \A d \in Queue : DOMAIN q'[d] = 1..Len(q'[d])
      BY <1>4
    <2>1. ASSUME There(x)' PROVE There(x) \/ x = m
      <3>1. ASSUME NEW d \in Queue, NEW i \in DOMAIN q'[d], q'[d][i] = x PROVE There(x) \/ x = m
        <4>1. CASE \E l \in 1..Len(q[d]) : q'[d][i] = q[d][l]
          BY <1>d, <3>1, <4>1 DEF There
        <4> QED
          BY <1>f, <2>0, <3>1, <4>1
      <3>2. ASSUME NEW w \in Users, NEW i \in DOMAIN seen[w], seen[w][i] = x PROVE There(x)
        BY <3>2 DEF There, Shown
      <3>3. x \in lost => There(x)
        BY DEF There
      <3> QED
        BY <1>u, <2>1, <3>1, <3>2, <3>3 DEF There, Shown
    <2>2. ASSUME There(x) PROVE There(x)'
      <3>1. ASSUME NEW d \in Queue, NEW i \in 1..Len(q[d]), q[d][i] = x
            PROVE  \E e \in Queue : \E j \in 1..Len(q'[e]) : q'[e][j] = x
        <4>1. CASE d # c
          BY <1>4, <3>1, <4>1
        <4>2. CASE d = c
          BY <1>4, <1>8, <1>s, <3>1, <4>2
        <4> QED
          BY <4>1, <4>2
      <3> QED
        BY <1>d, <1>u, <2>0, <2>2, <3>1 DEF There, Shown
    <2>3. There(m)'
      <3>1. k + 1 \in 1..Len(q'[c]) /\ q'[c][k + 1] = m
        BY <1>4, <1>9
      <3> QED
        BY <1>c, <2>0, <3>1 DEF There
    <2> QED
      BY <2>1, <2>2, <2>3
  <1> QED
    BY <1>3, <1>4, <1>10, <1>11, <1>12, <1>13, <1>s
-----------------------------------------------------------------------------
(* A message is shown.                                                     *)
LEMMA Receiving ==
    ASSUME Wired, QueueInv, SeenInv, Once, NEW u \in Users, rq[u] \in Queue,
           reader[u] = "poll", q[rq[u]] # <<>>,
           seen' = [seen EXCEPT ![u] = Append(@, Head(q[rq[u]]))],
           q' = [q EXCEPT ![rq[u]] = Tail(@)],
           reader' = Set(reader, u, IF Head(q[rq[u]]).prio = 1 THEN "loop" ELSE "close"),
           UNCHANGED <<wq, writer, typed, lost>>
    PROVE  /\ q' \in [Queue -> Seq(Message)] /\ seen' \in [Users -> Seq(Message)]
           /\ \A d \in Queue : Len(q'[d]) <= Len(q[d])
           /\ QueueInv' /\ SeenInv' /\ Once'
           /\ \A x : There(x)' <=> There(x)
  <1> DEFINE c == rq[u]
             s == q[c]
             m == Head(s)
             t == Tail(s)
             r == seen[u]
             shift(d) == IF d = c THEN 1 ELSE 0
  <1>c. c \in Queue
    OBVIOUS
  <1>1. /\ q \in [Queue -> Seq(Message)] /\ seen \in [Users -> Seq(Message)]
        /\ reader \in [Users -> {"off", "loop", "poll", "close", "done"}]
    BY DEF Wired
  <1>2. /\ s \in Seq(Message) /\ Len(s) \in Nat /\ Len(s) >= 1 /\ m = s[1] /\ m \in Message
        /\ t \in Seq(Message) /\ Len(t) = Len(s) - 1
        /\ \A i \in 1..Len(s) - 1 : t[i] = s[i + 1]
    BY <1>1
  <1>3. /\ r \in Seq(Message) /\ Len(r) \in Nat
        /\ Append(r, m) \in Seq(Message) /\ Len(Append(r, m)) = Len(r) + 1
        /\ Append(r, m)[Len(r) + 1] = m /\ \A i \in 1..Len(r) : Append(r, m)[i] = r[i]
    BY <1>1, <1>2
  <1>4. /\ q' \in [Queue -> Seq(Message)] /\ q'[c] = t
        /\ \A d \in Queue : d # c => q'[d] = q[d]
    BY <1>1, <1>2
  <1>5. /\ seen' \in [Users -> Seq(Message)] /\ seen'[u] = Append(r, m)
        /\ \A w \in Users : w # u => seen'[w] = seen[w]
    BY <1>1, <1>3
  <1>r. /\ reader'[u] = IF m.prio = 1 THEN "loop" ELSE "close"
        /\ \A w \in Users : w # u => reader'[w] = reader[w]
    BY <1>1 DEF Set
  <1>s. s = q[c] /\ r = seen[u]
    OBVIOUS
  <1>w. Mail' = Mail /\ wq' = wq /\ lost' = lost
    BY DEF Mail, Sent, Parted
  <1> HIDE DEF c, s, m, t, r
  <1>6. \A d \in Queue : shift(d) \in {0, 1} /\ (d = c <=> shift(d) = 1) /\ Len(q[d]) \in Nat
    BY <1>1
  <1> HIDE DEF shift
  <1>7. ASSUME NEW d \in Queue
        PROVE  /\ Len(q'[d]) \in Nat /\ Len(q'[d]) = Len(q[d]) - shift(d)
               /\ \A i \in 1..Len(q'[d]) :
                    i + shift(d) \in 1..Len(q[d]) /\ q'[d][i] = q[d][i + shift(d)]
    <2>1. CASE d = c
      <3> DEFINE n == Len(s)
      <3>1. shift(d) = 1 /\ q[d] = s /\ q'[d] = t /\ n \in Nat /\ n >= 1 /\ Len(t) = n - 1
        BY <1>2, <1>4, <1>6, <1>s, <2>1
      <3>2. \A i \in 1..n - 1 : t[i] = s[i + 1] /\ i + 1 \in 1..n
        BY <1>2
      <3>3. Len(q[d]) = n
        BY <3>1
      <3> HIDE DEF n
      <3> QED
        BY <3>1, <3>2, <3>3
    <2>2. CASE d # c
      <3>1. q'[d] = q[d] /\ shift(d) = 0 /\ Len(q[d]) \in Nat
        BY <1>1, <1>4, <1>6, <2>2
      <3>2. /\ Len(q[d]) - 0 = Len(q[d])
            /\ \A i \in 1..Len(q[d]) : i + 0 = i /\ i + 0 \in 1..Len(q[d])
        BY <3>1
      <3> QED
        BY <3>1, <3>2
    <2> QED
      BY <2>1, <2>2
  <1>8. \A w \in Users : \A i \in 1..Len(seen'[w]) :
           \/ w = u /\ i = Len(r) + 1 /\ seen'[w][i] = m
           \/ i \in 1..Len(seen[w]) /\ seen'[w][i] = seen[w][i]
    <2> TAKE w \in Users
    <2>1. CASE w = u
      BY <1>3, <1>5, <1>s, <2>1
    <2>2. CASE w # u
      BY <1>5, <2>2
    <2> QED
      BY <2>1, <2>2
  <1>m. /\ m \in Mail /\ wq[m.from] = c
        /\ 1 \in 1..Len(q[c]) /\ m = q[c][1]
    BY <1>c, <1>2, <1>s DEF QueueInv
  <1>9. QueueInv'
    <2> SUFFICES ASSUME NEW d \in Queue
                 PROVE  /\ \A i \in 1..Len(q'[d]) : q'[d][i] \in Mail /\ wq[q'[d][i].from] = d
                        /\ \A i, j \in 1..Len(q'[d]) : i < j =>
                              q'[d][i].prio >= q'[d][j].prio /\ Newer(q'[d][i], q'[d][j])
      BY <1>w DEF QueueInv, Newer
    <2>1. \A i \in 1..Len(q'[d]) : q'[d][i] \in Mail /\ wq[q'[d][i].from] = d
      BY <1>7 DEF QueueInv
    <2>2. ASSUME NEW i \in 1..Len(q'[d]), NEW j \in 1..Len(q'[d]), i < j
          PROVE  q'[d][i].prio >= q'[d][j].prio /\ Newer(q'[d][i], q'[d][j])
      <3> DEFINE k == i + shift(d)
                 l == j + shift(d)
      <3>1. k < l
        BY <1>6, <1>7, <2>2
      <3>2. k \in 1..Len(q[d]) /\ q'[d][i] = q[d][k] /\ l \in 1..Len(q[d]) /\ q'[d][j] = q[d][l]
        BY <1>7
      <3> HIDE DEF k, l
      <3> QED
        BY <3>1, <3>2 DEF QueueInv
    <2> QED
      BY <2>1, <2>2
  <1>10. SeenInv'
    <2>0. \A i \in 1..Len(r) : r[i].prio = 1 /\ r[i] \in Message /\ r[i] \in Mail
      <3>1. ASSUME NEW i \in 1..Len(r) PROVE r[i].prio = 1 /\ r[i] \in Message /\ r[i] \in Mail
        <4>1. r[i] \in Mail /\ (r[i].prio = 2 => Stopped(u)) /\ ~Stopped(u)
          BY <1>s DEF SeenInv, Stopped
        <4>2. r[i] \in Message
          BY <4>1 DEF Mail
        <4>3. r[i].prio \in {1, 2}
          BY <4>2 DEF Message
        <4> QED
          BY <4>1, <4>2, <4>3
      <3> QED
        BY <3>1
    <2>1. ASSUME NEW w \in Users, NEW i \in 1..Len(seen'[w])
          PROVE  seen'[w][i] \in Mail
                 /\ (seen'[w][i].prio = 2 => i = Len(seen'[w]) /\ Stopped(w)')
      <3>1. CASE w = u /\ i = Len(r) + 1 /\ seen'[w][i] = m
        BY <1>3, <1>5, <1>m, <1>r, <3>1 DEF Stopped
      <3>2. CASE i \in 1..Len(seen[w]) /\ seen'[w][i] = seen[w][i]
        <4>1. CASE w = u
          BY <1>s, <2>0, <3>2, <4>1
        <4>2. CASE w # u
          <5>1. seen'[w] = seen[w] /\ reader'[w] = reader[w]
            BY <1>5, <1>r, <4>2
          <5> QED
            BY <5>1 DEF SeenInv, Stopped
        <4> QED
          BY <4>1, <4>2
      <3> QED
        BY <1>8, <3>1, <3>2
    <2>2. ASSUME NEW w \in Users, NEW i \in 1..Len(seen'[w]), NEW j \in 1..Len(seen'[w]), i < j
          PROVE  Newer(seen'[w][i], seen'[w][j])
      <3>1. CASE w = u /\ j = Len(r) + 1 /\ seen'[w][j] = m
        <4>1. i \in 1..Len(r) /\ seen'[w][i] = r[i]
          BY <1>3, <1>5, <1>s, <2>2, <3>1
        <4>2. Newer(seen[u][i], q[c][1])
          BY <1>c, <1>m, <1>s, <4>1 DEF SeenInv
        <4> QED
          BY <1>m, <1>s, <3>1, <4>1, <4>2
      <3>2. CASE j \in 1..Len(seen[w]) /\ seen'[w][j] = seen[w][j]
        <4>1. i \in 1..Len(seen[w])
          BY <1>1, <2>2, <3>2
        <4>2. seen'[w][i] = seen[w][i]
          BY <1>3, <1>5, <1>s, <4>1
        <4> QED
          BY <2>2, <3>2, <4>1, <4>2 DEF SeenInv
      <3> QED
        BY <1>8, <3>1, <3>2
    <2>3. ASSUME NEW w \in Users, NEW d \in Queue, NEW i \in 1..Len(seen'[w]), NEW j \in 1..Len(q'[d])
          PROVE  Newer(seen'[w][i], q'[d][j])
      <3> DEFINE l == j + shift(d)
      <3>0. l \in 1..Len(q[d]) /\ q'[d][j] = q[d][l] /\ (d = c => 1 < l)
        BY <1>6, <1>7
      <3> HIDE DEF l
      <3>1. CASE seen'[w][i] = m
        <4>1. CASE d = c
          BY <1>c, <1>m, <3>0, <3>1, <4>1 DEF QueueInv
        <4>2. CASE d # c
          <5>1. wq[q[d][l].from] = d
            BY <3>0 DEF QueueInv
          <5>2. q[d][l].from # m.from
            BY <1>m, <4>2, <5>1
          <5> QED
            BY <3>0, <3>1, <5>2 DEF Newer
        <4> QED
          BY <4>1, <4>2
      <3>2. CASE i \in 1..Len(seen[w]) /\ seen'[w][i] = seen[w][i]
        BY <3>0, <3>2 DEF SeenInv
      <3> QED
        BY <1>8, <3>1, <3>2
    <2> QED
      BY <1>w, <2>1, <2>2, <2>3 DEF SeenInv, Newer
  <1>d. /\ \A d \in Queue : DOMAIN q[d] = 1..Len(q[d]) /\ DOMAIN q'[d] = 1..Len(q'[d])
        /\ \A w \in Users : DOMAIN seen[w] = 1..Len(seen[w]) /\ DOMAIN seen'[w] = 1..Len(seen'[w])
    BY <1>1, <1>4, <1>5
  <1>o. /\ \A d, e \in Queue : \A i \in 1..Len(q[d]), j \in 1..Len(q[e]) :
              q[d][i] = q[e][j] => d = e /\ i = j
        /\ \A v, w \in Users : \A i \in 1..Len(seen[v]), j \in 1..Len(seen[w]) :
              seen[v][i] = seen[w][j] => v = w /\ i = j
        /\ \A d \in Queue, w \in Users : \A i \in 1..Len(q[d]), j \in 1..Len(seen[w]) :
              q[d][i] # seen[w][j]
        /\ \A d \in Queue : \A i \in 1..Len(q[d]) : q[d][i] \notin lost
        /\ \A w \in Users : \A i \in 1..Len(seen[w]) : seen[w][i] \notin lost
    BY <1>d DEF Once
  <1>11. Once'
    <2>1. ASSUME NEW d \in Queue, NEW e \in Queue, NEW i \in DOMAIN q'[d], NEW j \in DOMAIN q'[e],
                 q'[d][i] = q'[e][j]
          PROVE  d = e /\ i = j
      <3> DEFINE k == i + shift(d)
                 l == j + shift(e)
      <3>0. i \in 1..Len(q'[d]) /\ j \in 1..Len(q'[e])
        BY <1>d
      <3>1. k \in 1..Len(q[d]) /\ q'[d][i] = q[d][k] /\ l \in 1..Len(q[e]) /\ q'[e][j] = q[e][l]
        BY <1>7, <3>0
      <3>2. shift(d) \in {0, 1} /\ shift(e) \in {0, 1} /\ i \in Nat /\ j \in Nat
        BY <1>6, <3>0
      <3> HIDE DEF k, l
      <3>3. d = e /\ k = l
        BY <1>o, <2>1, <3>1
      <3> QED
        BY <3>2, <3>3 DEF k, l
    <2>2. ASSUME NEW v \in Users, NEW w \in Users, NEW i \in DOMAIN seen'[v], NEW j \in DOMAIN seen'[w],
                 seen'[v][i] = seen'[w][j]
          PROVE  v = w /\ i = j
      <3>0. i \in 1..Len(seen'[v]) /\ j \in 1..Len(seen'[w])
        BY <1>d
      <3>1. \A x \in Users : \A n \in 1..Len(seen[x]) : seen[x][n] # m
        BY <1>c, <1>m, <1>o
      <3>2. CASE seen'[v][i] = m
        BY <1>8, <2>2, <3>0, <3>1, <3>2
      <3>3. CASE seen'[v][i] # m
        <4>1. i \in 1..Len(seen[v]) /\ seen'[v][i] = seen[v][i]
          BY <1>8, <3>0, <3>3
        <4>2. j \in 1..Len(seen[w]) /\ seen'[w][j] = seen[w][j]
          BY <1>8, <2>2, <3>0, <3>3
        <4> QED
          BY <1>o, <2>2, <4>1, <4>2
      <3> QED
        BY <3>2, <3>3
    <2>3. ASSUME NEW d \in Queue, NEW w \in Users, NEW i \in DOMAIN q'[d], NEW j \in DOMAIN seen'[w],
                 q'[d][i] = seen'[w][j]
          PROVE  FALSE
      <3> DEFINE k == i + shift(d)
      <3>0. i \in 1..Len(q'[d]) /\ j \in 1..Len(seen'[w])
        BY <1>d
      <3>1. k \in 1..Len(q[d]) /\ q'[d][i] = q[d][k] /\ (d = c => 1 < k)
        BY <1>6, <1>7, <3>0
      <3> HIDE DEF k
      <3>2. CASE seen'[w][j] = m
        <4>1. q[d][k] = q[c][1]
          BY <1>m, <2>3, <3>1, <3>2
        <4>2. d = c /\ k = 1
          BY <1>c, <1>m, <1>o, <3>1, <4>1
        <4> QED
          BY <3>1, <4>2
      <3>3. CASE j \in 1..Len(seen[w]) /\ seen'[w][j] = seen[w][j]
        BY <1>o, <2>3, <3>1, <3>3
      <3> QED
        BY <1>8, <3>0, <3>2, <3>3
    <2>4. ASSUME NEW d \in Queue, NEW i \in DOMAIN q'[d] PROVE q'[d][i] \notin lost
      <3>1. i \in 1..Len(q'[d])
        BY <1>d
      <3> QED
        BY <1>7, <1>o, <3>1
    <2>5. ASSUME NEW w \in Users, NEW i \in DOMAIN seen'[w] PROVE seen'[w][i] \notin lost
      <3>1. i \in 1..Len(seen'[w])
        BY <1>d
      <3>2. m \notin lost
        BY <1>c, <1>m, <1>o
      <3> QED
        BY <1>8, <1>o, <3>1, <3>2
    <2> QED
      BY <1>w, <2>1, <2>2, <2>3, <2>4, <2>5 DEF Once
  <1>12. ASSUME NEW x PROVE There(x)' <=> There(x)
    <2>1. ASSUME There(x)' PROVE There(x)
      <3>1. ASSUME NEW d \in Queue, NEW i \in 1..Len(q'[d]), q'[d][i] = x PROVE There(x)
        <4>1. i + shift(d) \in DOMAIN q[d] /\ q[d][i + shift(d)] = x
          BY <1>7, <1>d, <3>1
        <4> QED
          BY <4>1 DEF There, Shown
      <3>2. ASSUME NEW w \in Users, NEW i \in 1..Len(seen'[w]), seen'[w][i] = x PROVE There(x)
        <4>1. CASE x = m
          <5>1. 1 \in DOMAIN q[c] /\ q[c][1] = x
            BY <1>c, <1>d, <1>m, <4>1
          <5> QED
            BY <1>c, <5>1 DEF There, Shown
        <4>2. CASE x # m
          <5>1. i \in DOMAIN seen[w] /\ seen[w][i] = x
            BY <1>8, <1>d, <3>2, <4>2
          <5> QED
            BY <5>1 DEF There, Shown
        <4> QED
          BY <4>1, <4>2
      <3>3. x \in lost => There(x)
        BY DEF There
      <3> QED
        BY <1>d, <1>w, <2>1, <3>1, <3>2, <3>3 DEF There, Shown
    <2>2. ASSUME There(x) PROVE There(x)'
      <3>1. \A w \in Users : \A i \in 1..Len(seen[w]) :
               i \in 1..Len(seen'[w]) /\ seen'[w][i] = seen[w][i]
        <4> TAKE w \in Users
        <4>1. CASE w = u
          BY <1>3, <1>5, <1>s, <4>1
        <4>2. CASE w # u
          BY <1>5, <4>2
        <4> QED
          BY <4>1, <4>2
      <3>2. Len(r) + 1 \in 1..Len(seen'[u]) /\ seen'[u][Len(r) + 1] = m
        BY <1>3, <1>5
      <3>3. ASSUME NEW d \in Queue, NEW i \in 1..Len(q[d]), q[d][i] = x PROVE There(x)'
        <4>1. CASE d = c /\ i = 1
          <5>1. x = m
            BY <1>m, <3>3, <4>1
          <5> QED
            BY <1>d, <3>2, <5>1 DEF There, Shown
        <4>2. CASE d = c /\ i # 1
          <5> DEFINE k == i - 1
          <5>1. k \in 1..Len(s) - 1 /\ k + 1 = i
            BY <1>2, <1>s, <4>2
          <5>2. s[i] = x
            BY <1>s, <3>3, <4>2
          <5> HIDE DEF k
          <5>3. k \in 1..Len(q'[c]) /\ q'[c][k] = x
            BY <1>2, <1>4, <5>1, <5>2
          <5> QED
            BY <1>c, <1>d, <5>3 DEF There, Shown
        <4>3. CASE d # c
          <5>1. i \in DOMAIN q'[d] /\ q'[d][i] = x
            BY <1>4, <1>d, <3>3, <4>3
          <5> QED
            BY <5>1 DEF There, Shown
        <4> QED
          BY <4>1, <4>2, <4>3
      <3>4. ASSUME NEW w \in Users, NEW i \in 1..Len(seen[w]), seen[w][i] = x PROVE There(x)'
        <4>1. i \in DOMAIN seen'[w] /\ seen'[w][i] = x
          BY <1>d, <3>1, <3>4
        <4> QED
          BY <4>1 DEF There, Shown
      <3>5. x \in lost => There(x)'
        BY <1>w DEF There
      <3> QED
        BY <1>d, <2>2, <3>3, <3>4, <3>5 DEF There, Shown
    <2> QED
      BY <2>1, <2>2
  <1>13. \A d \in Queue : Len(q'[d]) <= Len(q[d])
    BY <1>6, <1>7
  <1> QED
    BY <1>4, <1>5, <1>9, <1>10, <1>11, <1>12, <1>13
-----------------------------------------------------------------------------
(* Which queues are there.                                                 *)

(* A queue that is gone does not come back: its name is given to another,  *)
(* and only by its name is it opened.                                      *)
LEMMA GoneForGood ==
    ASSUME OwnerInv, Wired, Next, NEW c \in Queue, Made(c), ~Alive(c)
    PROVE  ~Alive(c)'
  <1> USE ChatAssumption DEF Alive, Holds, Ended, Made
  <1>0. /\ \A w \in Users : Ready(w) /\ w \in Users
        /\ c[1] \in Users /\ c[2] \in {1, 2} /\ c = <<c[1], c[2]>> /\ c # None
        /\ name[c[2]] # c /\ \A w \in Users : ~Holds(w, c)
        /\ DOMAIN main = Users /\ DOMAIN writer = Users /\ DOMAIN reader = Users
        /\ DOMAIN wq = Users /\ DOMAIN rq = Users /\ DOMAIN name = {1, 2}
    BY DEF OwnerInv, Wired, Queue
  <1>1. ASSUME NEW u \in Users, OpenFirst(u) PROVE ~Alive(c)'
    BY <1>0, <1>1 DEF OpenFirst, Set, chatVars, Ready
  <1>2. ASSUME NEW u \in Users, CreateSecond(u) PROVE ~Alive(c)'
    BY <1>0, <1>2 DEF CreateSecond, StartThreads, Set, chatVars, Ready
  <1>3. ASSUME NEW u \in Users, OpenToWrite(u) PROVE ~Alive(c)'
    BY <1>0, <1>3 DEF OpenToWrite, Set, chatVars, OwnerInv, Queue
  <1>4. ASSUME NEW u \in Users, OpenToRead(u) PROVE ~Alive(c)'
    BY <1>0, <1>4 DEF OpenToRead, StartThreads, Set, chatVars, OwnerInv, Queue, Ready
  <1>5. ASSUME NEW u \in Users, GiveUp(u) \/ Join(u) \/ Unlink(u) PROVE ~Alive(c)'
    BY <1>0, <1>5 DEF GiveUp, Join, Unlink, Set, openVars
  <1>6. ASSUME NEW u \in Users, Writer(u) \/ Reader(u) \/ Type(u) \/ Interrupt(u)
        PROVE  ~Alive(c)'
    <2>1. UNCHANGED <<main, name, wq, rq>>
      BY <1>6 DEF Writer, WriterLoop, SendText, SayGoodbye, CloseWrite, Reader, ReaderLoop,
                  PollEmpty, Receive, CloseRead, Type, Interrupt, openVars
    <2>2. \A w \in Users :
             /\ writer[w] = "done" => writer'[w] = "done"
             /\ reader[w] = "done" => reader'[w] = "done"
      BY <1>0, <1>6 DEF Writer, WriterLoop, SendText, SayGoodbye, CloseWrite, Reader,
                  ReaderLoop, PollEmpty, Receive, CloseRead, Type, Interrupt, Set
    <2> QED
      BY <1>0, <2>1, <2>2
  <1> QED
    BY <1>1, <1>2, <1>3, <1>4, <1>5, <1>6 DEF Next, Main, Opening

(* Who can still send to a queue, or read it, keeps it.                    *)
LEMMA InUse ==
    ASSUME Wired, NEW u \in Users
    PROVE  /\ writer[u] \notin {"off", "done"} => Alive(wq[u])
           /\ reader[u] \notin {"off", "done"} => Alive(rq[u])
  BY DEF Wired, Ready, Alive, Holds, Ended

-----------------------------------------------------------------------------
(* The rest leaves the messages where they are, or destroys them.          *)
Aside ==
    /\ seen' = seen
    /\ \A w \in Users :
          /\ Sent(w)' = Sent(w) /\ (Parted(w)' <=> Parted(w))
          /\ writer[w] # "off" => wq'[w] = wq[w]
          /\ Stopped(w) => Stopped(w)'

LEMMA MailStays ==
    ASSUME MqInv, Aside
    PROVE  \A x \in Mail : x \in Mail' /\ x \in Message /\ x.from \in Users
                           /\ wq'[x.from] = wq[x.from]
  <1>1. \A x \in Mail : x \in Mail' /\ x \in Message /\ x.from \in Users
    BY DEF Mail, Message, Aside
  <1>2. ASSUME NEW x \in Mail PROVE wq'[x.from] = wq[x.from]
    <2> DEFINE w == x.from
    <2>1. w \in Users
      BY <1>1
    <2>2. (x.n \in Nat /\ x.n > 0 /\ x.n <= Sent(w)) \/ writer[w] # "off"
      BY DEF Mail, Message, Parted
    <2>3. (writer[w] = "off" => typed[w] = 0) /\ (writer[w] = "off" => Sent(w) = typed[w])
      BY <2>1 DEF MqInv, Wired, Ready, Sent
    <2> HIDE DEF w
    <2>4. writer[w] # "off"
      BY <2>2, <2>3
    <2> QED
      BY <2>1, <2>4 DEF w, Aside
  <1> QED
    BY <1>1, <1>2

LEMMA NothingMoved ==
    ASSUME MqInv, Next, Aside, UNCHANGED <<q, lost>>,
           \A c \in Queue : Alive(c) => Alive(c)'
    PROVE  MailInv'
  <1>1. \A x \in Mail : x \in Mail' /\ x \in Message /\ x.from \in Users
                        /\ wq'[x.from] = wq[x.from]
    BY MailStays
  <1>3. q' = q /\ seen' = seen /\ lost' = lost
    BY DEF Aside
  <1>4. QueueInv'
    BY <1>1, <1>3 DEF MqInv, MailInv, QueueInv, Newer
  <1>5. SeenInv'
    <2>1. \A u \in Users : \A i \in 1..Len(seen[u]) :
             seen[u][i] \in Mail' /\ (seen[u][i].prio = 2 => i = Len(seen[u]) /\ Stopped(u)')
      BY <1>1 DEF MqInv, MailInv, SeenInv, Aside
    <2> QED
      BY <1>3, <2>1 DEF MqInv, MailInv, SeenInv, Newer
  <1>6. \A x : There(x)' <=> There(x)
    BY <1>3 DEF There, Shown
  <1>7. SentInv'
    BY <1>6 DEF MqInv, MailInv, SentInv, Aside
  <1>8. Once'
    BY <1>3 DEF MqInv, MailInv, Once
  <1>9. LostInv'
    <2> SUFFICES ASSUME NEW x \in lost
                 PROVE  /\ x \in Mail' /\ wq'[x.from] \in Queue /\ ~Alive(wq[x.from])'
                        /\ \A u \in Users : \A i \in 1..Len(seen[u]) : Newer(seen[u][i], x)
      BY <1>3 DEF LostInv, Newer
    <2>1. /\ x \in Mail /\ wq[x.from] \in Queue /\ ~Alive(wq[x.from])
          /\ \A u \in Users : \A i \in 1..Len(seen[u]) : Newer(seen[u][i], x)
      BY DEF MqInv, MailInv, LostInv
    <2>2. x.from \in Users /\ wq[x.from] # None /\ wq'[x.from] = wq[x.from] /\ x \in Mail'
      BY <1>1, <2>1, ChatAssumption DEF Queue
    <2>3. Made(wq[x.from])
      BY <2>2 DEF MqInv, Wired
    <2> DEFINE c == wq[x.from]
    <2>4. PICK d \in Queue : d = c
      BY <2>1
    <2>5. ~Alive(d)'
      BY <2>1, <2>3, <2>4, GoneForGood DEF MqInv
    <2>6. wq'[x.from] = d
      BY <2>2, <2>4
    <2>7. ~Alive(wq[x.from])'
      BY <2>5, <2>6 DEF Alive, Holds
    <2> QED
      BY <2>1, <2>2, <2>7
  <1>10. EmptyInv'
    BY <1>3 DEF MqInv, MailInv, EmptyInv
  <1> QED
    BY <1>4, <1>5, <1>7, <1>8, <1>9, <1>10 DEF MailInv

(* What a queue held is lost with it.                                      *)
LEMMA Discarded ==
    ASSUME MqInv, Next, Aside, Discard
    PROVE  MailInv' /\ q' \in [Queue -> Seq(Message)]
           /\ \A c \in Queue : Len(q'[c]) \in Nat /\ Len(q'[c]) <= Len(q[c])
  <1>0. /\ q \in [Queue -> Seq(Message)] /\ seen \in [Users -> Seq(Message)]
        /\ QueueInv /\ SeenInv /\ SentInv /\ LostInv /\ EmptyInv /\ Once
    BY DEF MqInv, MailInv, Wired
  <1>1. \A x \in Mail : x \in Mail' /\ x \in Message /\ x.from \in Users
                        /\ wq'[x.from] = wq[x.from]
    BY MailStays
  <1> DEFINE gone == {c \in Queue : ~Alive(c)'}
  <1>2. /\ q' \in [Queue -> Seq(Message)]
        /\ \A c \in Queue : q'[c] = IF c \in gone THEN <<>> ELSE q[c]
        /\ seen' = seen
    BY <1>0 DEF Discard, Aside
  <1>3. \A x : x \in lost' <=> x \in lost \/ \E c \in gone : x \in Range(q[c])
    BY Zenon DEF Discard
  <1>g. \A c \in Queue : c \in gone <=> ~Alive(c)'
    OBVIOUS
  <1> HIDE DEF gone
  <1>d. /\ \A c \in Queue : DOMAIN q[c] = 1..Len(q[c]) /\ DOMAIN q'[c] = 1..Len(q'[c])
        /\ \A c \in Queue : Len(q[c]) \in Nat /\ Len(q'[c]) \in Nat
        /\ \A w \in Users : DOMAIN seen[w] = 1..Len(seen[w])
        /\ gone \subseteq Queue
    BY <1>0, <1>2 DEF gone
  <1>4. \A x : x \in lost' <=> x \in lost \/ \E c \in gone : \E i \in 1..Len(q[c]) : x = q[c][i]
    BY <1>3, <1>d DEF Range
  <1>5. \A c \in Queue : \A i \in 1..Len(q'[c]) :
           c \notin gone /\ q'[c] = q[c] /\ i \in 1..Len(q[c]) /\ q'[c][i] = q[c][i]
    BY <1>2
  <1>6. \A c \in Queue : Len(q'[c]) <= Len(q[c])
    <2> TAKE c \in Queue
    <2>1. CASE c \in gone
      BY <1>2, <1>d, <2>1
    <2>2. CASE c \notin gone
      BY <1>2, <1>d, <2>2
    <2> QED
      BY <2>1, <2>2
  <1>7. QueueInv'
    <2> SUFFICES ASSUME NEW c \in Queue
                 PROVE  /\ \A i \in 1..Len(q'[c]) : q'[c][i] \in Mail' /\ wq'[q'[c][i].from] = c
                        /\ \A i, j \in 1..Len(q'[c]) : i < j =>
                              q'[c][i].prio >= q'[c][j].prio /\ Newer(q'[c][i], q'[c][j])
      BY DEF QueueInv, Newer
    <2>1. \A i \in 1..Len(q[c]) : q[c][i] \in Mail /\ wq[q[c][i].from] = c
      BY <1>0 DEF QueueInv
    <2>2. \A i \in 1..Len(q'[c]) : q'[c][i] \in Mail' /\ wq'[q'[c][i].from] = c
      BY <1>1, <1>5, <2>1
    <2>3. \A i, j \in 1..Len(q'[c]) : i < j =>
             q'[c][i].prio >= q'[c][j].prio /\ Newer(q'[c][i], q'[c][j])
      BY <1>0, <1>5 DEF QueueInv
    <2> QED
      BY <2>2, <2>3
  <1>8. SeenInv'
    <2>1. \A u \in Users : \A i \in 1..Len(seen[u]) :
             seen[u][i] \in Mail' /\ (seen[u][i].prio = 2 => i = Len(seen[u]) /\ Stopped(u)')
      BY <1>0, <1>1 DEF SeenInv, Aside
    <2>2. \A w \in Users, c \in Queue : \A i \in 1..Len(seen[w]), j \in 1..Len(q'[c]) :
             Newer(seen[w][i], q'[c][j])
      BY <1>0, <1>5 DEF SeenInv
    <2>3. \A w \in Users : \A i, j \in 1..Len(seen[w]) : i < j => Newer(seen[w][i], seen[w][j])
      BY <1>0 DEF SeenInv
    <2> QED
      BY <1>2, <2>1, <2>2, <2>3 DEF SeenInv, Newer
  <1>9. ASSUME NEW x, There(x) PROVE There(x)'
    <2>1. ASSUME NEW c \in Queue, NEW i \in 1..Len(q[c]), q[c][i] = x PROVE There(x)'
      <3>1. CASE c \in gone
        <4>1. x \in lost'
          BY <1>4, <2>1, <3>1
        <4> QED
          BY <4>1 DEF There
      <3>2. CASE c \notin gone
        <4>1. i \in DOMAIN q'[c] /\ q'[c][i] = x
          BY <1>2, <1>d, <2>1, <3>2
        <4> QED
          BY <4>1 DEF There
      <3> QED
        BY <3>1, <3>2
    <2>2. Shown(x) => There(x)'
      BY <1>2 DEF There, Shown
    <2>3. x \in lost => There(x)'
      BY <1>4 DEF There
    <2> QED
      BY <1>9, <1>d, <2>1, <2>2, <2>3 DEF There
  <1>10. SentInv'
    <2> SUFFICES ASSUME NEW w \in Users
                 PROVE  /\ \A n \in Nat : n > 0 /\ n <= Sent(w)' => There(Text(w, n))'
                        /\ Parted(w)' => There(Goodbye(w))'
      BY DEF SentInv
    <2>1. /\ \A n \in Nat : n > 0 /\ n <= Sent(w) => There(Text(w, n))
          /\ Parted(w) => There(Goodbye(w))
      BY <1>0 DEF SentInv
    <2>2. Sent(w)' = Sent(w) /\ (Parted(w)' <=> Parted(w))
      BY DEF Aside
    <2> QED
      BY <1>9, <2>1, <2>2
  <1>11. LostInv'
    <2> SUFFICES ASSUME NEW x \in lost'
                 PROVE  /\ x \in Mail' /\ wq'[x.from] \in Queue /\ ~Alive(wq[x.from])'
                        /\ \A u \in Users : \A i \in 1..Len(seen[u]) : Newer(seen[u][i], x)
      BY <1>2 DEF LostInv, Newer
    <2>1. PICK d \in Queue : /\ d = wq[x.from] /\ ~Alive(d)' /\ x \in Mail
                             /\ \A u \in Users : \A i \in 1..Len(seen[u]) : Newer(seen[u][i], x)
      <3>1. CASE x \in lost
        <4>1. /\ x \in Mail /\ wq[x.from] \in Queue /\ ~Alive(wq[x.from])
              /\ \A u \in Users : \A i \in 1..Len(seen[u]) : Newer(seen[u][i], x)
          BY <1>0, <3>1 DEF LostInv
        <4>2. Made(wq[x.from])
          BY <1>1, <4>1, ChatAssumption DEF MqInv, Wired, Queue
        <4>3. PICK d \in Queue : d = wq[x.from]
          BY <4>1
        <4>4. ~Alive(d)'
          BY <4>1, <4>2, <4>3, GoneForGood DEF MqInv
        <4> QED
          BY <4>1, <4>3, <4>4
      <3>2. CASE x \notin lost
        <4>1. PICK d \in gone : \E i \in 1..Len(q[d]) : x = q[d][i]
          BY <1>4, <3>2
        <4>2. d \in Queue /\ ~Alive(d)'
          BY <1>d, <1>g, <4>1
        <4>3. x \in Mail /\ wq[x.from] = d
          BY <1>0, <4>1, <4>2 DEF QueueInv
        <4>4. \A u \in Users : \A i \in 1..Len(seen[u]) : Newer(seen[u][i], x)
          BY <1>0, <4>1, <4>2 DEF SeenInv
        <4> QED
          BY <4>2, <4>3, <4>4
      <3> QED
        BY <3>1, <3>2
    <2>2. wq'[x.from] = d /\ x \in Mail'
      BY <1>1, <2>1
    <2>3. ~Alive(wq[x.from])'
      BY <2>1, <2>2 DEF Alive, Holds
    <2> QED
      BY <2>1, <2>2, <2>3
  <1>12. EmptyInv'
    BY <1>2, <1>g DEF EmptyInv
  <1>13. Once'
    <2>0. /\ \A c, d \in Queue : \A i \in 1..Len(q[c]), j \in 1..Len(q[d]) :
                q[c][i] = q[d][j] => c = d /\ i = j
          /\ \A c \in Queue, w \in Users : \A i \in 1..Len(q[c]), j \in 1..Len(seen[w]) :
                q[c][i] # seen[w][j]
          /\ \A c \in Queue : \A i \in 1..Len(q[c]) : q[c][i] \notin lost
          /\ \A w \in Users : \A i \in 1..Len(seen[w]) : seen[w][i] \notin lost
      BY <1>0, <1>d DEF Once
    <2>1. \A c, d \in Queue : \A i \in DOMAIN q'[c], j \in DOMAIN q'[d] :
             q'[c][i] = q'[d][j] => c = d /\ i = j
      <3> SUFFICES ASSUME NEW c \in Queue, NEW d \in Queue,
                          NEW i \in DOMAIN q'[c], NEW j \in DOMAIN q'[d], q'[c][i] = q'[d][j]
                   PROVE  c = d /\ i = j
        OBVIOUS
      <3>1. i \in 1..Len(q'[c]) /\ j \in 1..Len(q'[d])
        BY <1>d
      <3>2. /\ i \in 1..Len(q[c]) /\ q'[c][i] = q[c][i]
            /\ j \in 1..Len(q[d]) /\ q'[d][j] = q[d][j]
        BY <1>5, <3>1
      <3>3. q[c][i] = q[d][j]
        BY <3>2
      <3> QED
        BY <2>0, <3>2, <3>3
    <2>2. \A u, w \in Users : \A i \in DOMAIN seen[u], j \in DOMAIN seen[w] :
             seen[u][i] = seen[w][j] => u = w /\ i = j
      BY <1>0 DEF Once
    <2>3. \A c \in Queue, w \in Users : \A i \in DOMAIN q'[c], j \in DOMAIN seen[w] :
             q'[c][i] # seen[w][j]
      BY <1>5, <1>d, <2>0
    <2>4. \A c \in Queue : \A i \in DOMAIN q'[c] : q'[c][i] \notin lost'
      BY <1>4, <1>5, <1>d, <2>0
    <2>5. \A w \in Users : \A i \in DOMAIN seen[w] : seen[w][i] \notin lost'
      BY <1>4, <1>d, <2>0
    <2> QED
      BY <1>2, <2>1, <2>2, <2>3, <2>4, <2>5 DEF Once
  <1> QED
    BY <1>2, <1>6, <1>7, <1>8, <1>10, <1>11, <1>12, <1>13, <1>d DEF MailInv

(* What is anywhere has been sent.                                         *)
LEMMA ThereIsMail ==
    ASSUME Wired, QueueInv, SeenInv, LostInv, NEW x, There(x)
    PROVE  x \in Mail
  <1>1. /\ \A d \in Queue : DOMAIN q[d] = 1..Len(q[d])
        /\ \A w \in Users : DOMAIN seen[w] = 1..Len(seen[w])
    BY DEF Wired
  <1>2. ASSUME NEW d \in Queue, NEW i \in DOMAIN q[d], q[d][i] = x PROVE x \in Mail
    BY <1>1, <1>2 DEF QueueInv
  <1>3. ASSUME NEW w \in Users, NEW i \in DOMAIN seen[w], seen[w][i] = x PROVE x \in Mail
    BY <1>1, <1>3 DEF SeenInv
  <1>4. x \in lost => x \in Mail
    BY DEF LostInv
  <1> QED
    BY <1>2, <1>3, <1>4 DEF There, Shown

(* A send or a receive disturbs neither what is lost nor what is gone.     *)
LEMMA SameLives ==
    ASSUME MqInv, UNCHANGED <<main, name, wq, rq, lost>>, Mail \subseteq Mail',
           \A w \in Users : /\ writer'[w] = "done" <=> writer[w] = "done"
                            /\ reader'[w] = "done" <=> reader[w] = "done"
    PROVE  /\ \A c : Alive(c)' <=> Alive(c)
           /\ \A m \in lost : m \in Mail' /\ wq'[m.from] \in Queue /\ ~Alive(wq[m.from])'
  <1>1. \A c : Alive(c)' <=> Alive(c)
    BY DEF Alive, Holds, Ended
  <1>2. \A m \in lost : m \in Mail' /\ wq[m.from] \in Queue /\ ~Alive(wq[m.from])'
    BY <1>1 DEF MqInv, MailInv, LostInv
  <1>3. \A m \in lost : ~Alive(wq[m.from])'
    BY <1>2 DEF Alive, Holds, Ended
  <1> QED
    BY <1>1, <1>2, <1>3

LEMMA TextSent ==
    ASSUME MqInv, NEW u \in Users, SendText(u)
    PROVE  Wired' /\ MailInv'
  <1> DEFINE m == Text(u, typed[u])
  <1>0. Wired /\ QueueInv /\ SeenInv /\ SentInv /\ LostInv /\ EmptyInv /\ Once
    BY DEF MqInv, MailInv
  <1>1. /\ writer[u] = "send" /\ ~Full(wq[u]) /\ q' = [q EXCEPT ![wq[u]] = Insert(@, m)]
        /\ writer' = [writer EXCEPT ![u] = "loop"]
        /\ UNCHANGED <<main, reader, running, name, wq, rq, typed, seen, lost>>
    BY DEF SendText, Send, Set, openVars
  <1>2. /\ typed[u] \in Nat /\ typed[u] > 0 /\ wq[u] \in Queue
        /\ writer \in [Users -> {"off", "loop", "fgets", "send", "bye", "close", "done"}]
        /\ typed \in [Users -> Nat]
    BY <1>0, <1>1 DEF Wired, Ready
  <1>3. m \in Message /\ m.from = u /\ m.n = typed[u] /\ m.prio = 1
    BY <1>2 DEF Text, Message
  <1>4. /\ writer'[u] = "loop" /\ \A w \in Users : w # u => writer'[w] = writer[w]
        /\ typed' = typed
    BY <1>1, <1>2
  <1>5. /\ Sent(u) = typed[u] - 1 /\ Sent(u)' = typed[u]
        /\ \A w \in Users : w # u => Sent(w)' = Sent(w)
    BY <1>1, <1>4 DEF Sent
  <1>6. \A w \in Users : Parted(w)' <=> Parted(w)
    BY <1>1, <1>4 DEF Parted
  <1>7. ASSUME NEW x \in Mail PROVE x \in Mail' /\ Newer(x, m) /\ x # m
    <2>0. x \in Message /\ x.from \in Users /\ x.n \in Nat
      BY DEF Mail, Message
    <2>1. CASE x = Text(x.from, x.n) /\ x.n > 0 /\ x.n <= Sent(x.from)
      <3>1. x.n <= Sent(x.from)'
        BY <1>2, <1>5, <2>0, <2>1
      <3>2. x.from = u => x.n < typed[u]
        BY <1>2, <1>5, <2>0, <2>1
      <3>3. x \in Mail'
        BY <2>0, <2>1, <3>1 DEF Mail, Text
      <3>4. Newer(x, m) /\ x # m
        BY <1>2, <1>3, <3>2 DEF Newer
      <3> QED
        BY <3>3, <3>4
    <2>2. CASE x = Goodbye(x.from) /\ Parted(x.from)
      <3>1. x.prio = 2
        BY <2>2 DEF Goodbye
      <3>2. x \in Mail'
        BY <1>6, <2>0, <2>2 DEF Mail, Goodbye
      <3> QED
        BY <1>3, <3>1, <3>2 DEF Newer
    <2> QED
      BY <2>1, <2>2 DEF Mail
  <1>8. m \in Mail'
    <2>1. m = Text(m.from, m.n) /\ m.n > 0
      BY <1>2, <1>3
    <2>2. m.n <= Sent(u)' /\ m.from = u
      BY <1>2, <1>3, <1>5
    <2> QED
      BY <1>3, <2>1, <2>2 DEF Mail, Text
  <1>9. ~There(m)
    BY <1>0, <1>7, ThereIsMail
  <1> HIDE DEF m
  <1>10. /\ q' \in [Queue -> Seq(Message)]
         /\ \A d \in Queue : Len(q'[d]) = IF d = wq[u] THEN Len(q[d]) + 1 ELSE Len(q[d])
         /\ QueueInv' /\ SeenInv' /\ Once'
         /\ \A x : There(x)' <=> There(x) \/ x = m
    BY <1>0, <1>1, <1>2, <1>3, <1>7, <1>8, <1>9, Sending
  <1>11. SentInv'
    <2> SUFFICES ASSUME NEW w \in Users
                 PROVE  /\ \A n \in Nat : n > 0 /\ n <= Sent(w)' => There(Text(w, n))'
                        /\ Parted(w)' => There(Goodbye(w))'
      BY DEF SentInv
    <2>1. ASSUME NEW n \in Nat, n > 0, n <= Sent(w)' PROVE There(Text(w, n))'
      <3>1. CASE w = u /\ n = typed[u]
        BY <1>10, <3>1 DEF m
      <3>2. CASE ~(w = u /\ n = typed[u])
        <4>1. n <= Sent(w)
          BY <1>2, <1>5, <2>1, <3>2
        <4>2. There(Text(w, n))
          BY <1>0, <2>1, <4>1 DEF SentInv
        <4> QED
          BY <1>10, <4>2
      <3> QED
        BY <3>1, <3>2
    <2>2. ASSUME Parted(w)' PROVE There(Goodbye(w))'
      BY <1>0, <1>6, <1>10, <2>2 DEF SentInv
    <2> QED
      BY <2>1, <2>2
  <1>12. Wired'
    <2>1. \A d \in Queue : Len(q'[d]) <= MaxMsg
      <3>1. \A d \in Queue : Len(q[d]) <= MaxMsg /\ Len(q[d]) \in Nat
        BY <1>0 DEF Wired
      <3>2. Len(q[wq[u]]) < MaxMsg
        BY <1>1, <1>2, <3>1, ChatAssumption DEF Full
      <3> QED
        BY <1>2, <1>10, <3>1, <3>2, ChatAssumption
    <2> QED
      BY <1>0, <1>1, <1>2, <1>4, <1>10, <2>1 DEF Wired, Ready, Made
  <1>13. LostInv' /\ EmptyInv'
    <2>1. /\ \A d : Alive(d)' <=> Alive(d)
          /\ \A x \in lost : x \in Mail' /\ wq'[x.from] \in Queue /\ ~Alive(wq[x.from])'
      <3>1. /\ UNCHANGED <<main, name, wq, rq, lost>> /\ Mail \subseteq Mail'
            /\ \A w \in Users : /\ writer'[w] = "done" <=> writer[w] = "done"
                                /\ reader'[w] = "done" <=> reader[w] = "done"
        BY <1>1, <1>4, <1>7
      <3> QED
        BY <3>1, SameLives
    <2>2. Alive(wq[u])
      BY <1>0, <1>1, InUse
    <2>3. \A d \in Queue : d # wq[u] => q'[d] = q[d]
      BY <1>0, <1>1 DEF Wired
    <2>4. EmptyInv'
      BY <1>0, <2>1, <2>2, <2>3 DEF EmptyInv
    <2>5. LostInv'
      BY <1>0, <1>1, <2>1 DEF LostInv, Newer
    <2> QED
      BY <2>4, <2>5
  <1> QED
    BY <1>10, <1>11, <1>12, <1>13 DEF MailInv

LEMMA GoodbyeSaid ==
    ASSUME MqInv, NEW u \in Users, SayGoodbye(u)
    PROVE  Wired' /\ MailInv'
  <1> DEFINE m == Goodbye(u)
  <1>0. Wired /\ QueueInv /\ SeenInv /\ SentInv /\ LostInv /\ EmptyInv /\ Once
    BY DEF MqInv, MailInv
  <1>1. /\ writer[u] = "bye" /\ ~Full(wq[u]) /\ q' = [q EXCEPT ![wq[u]] = Insert(@, m)]
        /\ writer' = [writer EXCEPT ![u] = "close"]
        /\ UNCHANGED <<main, reader, running, name, wq, rq, typed, seen, lost>>
    BY DEF SayGoodbye, Send, Set, openVars
  <1>2. /\ wq[u] \in Queue
        /\ writer \in [Users -> {"off", "loop", "fgets", "send", "bye", "close", "done"}]
    BY <1>0, <1>1 DEF Wired, Ready
  <1>3. m \in Message /\ m.from = u /\ m.prio = 2
    BY DEF Goodbye, Message
  <1>4. /\ writer'[u] = "close" /\ \A w \in Users : w # u => writer'[w] = writer[w]
        /\ typed' = typed
    BY <1>1, <1>2
  <1>5. \A w \in Users : Sent(w)' = Sent(w)
    BY <1>1, <1>4 DEF Sent
  <1>7. ASSUME NEW x \in Mail PROVE x \in Mail' /\ Newer(x, m) /\ x # m
    <2>0. x \in Message /\ x.from \in Users
      BY DEF Mail, Message
    <2>1. CASE x = Text(x.from, x.n) /\ x.n > 0 /\ x.n <= Sent(x.from)
      <3>1. x.prio = 1
        BY <2>1 DEF Text
      <3>2. x \in Mail'
        BY <1>5, <2>0, <2>1 DEF Mail, Text
      <3> QED
        BY <1>3, <3>1, <3>2 DEF Newer
    <2>2. CASE x = Goodbye(x.from) /\ Parted(x.from)
      <3>1. x.from # u
        BY <1>1, <2>2 DEF Parted
      <3>2. Parted(x.from)'
        BY <1>4, <2>0, <2>2, <3>1 DEF Parted
      <3>3. x \in Mail'
        BY <2>0, <2>2, <3>2 DEF Mail, Goodbye
      <3> QED
        BY <3>1, <3>3, <1>3 DEF Newer
    <2> QED
      BY <2>1, <2>2 DEF Mail
  <1>8. m \in Mail'
    BY <1>3, <1>4 DEF Mail, Goodbye, Parted
  <1>9. ~There(m)
    BY <1>0, <1>7, ThereIsMail
  <1> HIDE DEF m
  <1>10. /\ q' \in [Queue -> Seq(Message)]
         /\ \A d \in Queue : Len(q'[d]) = IF d = wq[u] THEN Len(q[d]) + 1 ELSE Len(q[d])
         /\ QueueInv' /\ SeenInv' /\ Once'
         /\ \A x : There(x)' <=> There(x) \/ x = m
    BY <1>0, <1>1, <1>2, <1>3, <1>7, <1>8, <1>9, Sending
  <1>11. SentInv'
    <2> SUFFICES ASSUME NEW w \in Users
                 PROVE  /\ \A n \in Nat : n > 0 /\ n <= Sent(w)' => There(Text(w, n))'
                        /\ Parted(w)' => There(Goodbye(w))'
      BY DEF SentInv
    <2>1. ASSUME NEW n \in Nat, n > 0, n <= Sent(w)' PROVE There(Text(w, n))'
      BY <1>0, <1>5, <1>10, <2>1 DEF SentInv
    <2>2. ASSUME Parted(w)' PROVE There(Goodbye(w))'
      <3>1. CASE w = u
        BY <1>10, <3>1 DEF m
      <3>2. CASE w # u
        BY <1>0, <1>4, <1>10, <2>2, <3>2 DEF SentInv, Parted
      <3> QED
        BY <3>1, <3>2
    <2> QED
      BY <2>1, <2>2
  <1>12. Wired'
    <2>1. \A d \in Queue : Len(q'[d]) <= MaxMsg
      <3>1. \A d \in Queue : Len(q[d]) <= MaxMsg /\ Len(q[d]) \in Nat
        BY <1>0 DEF Wired
      <3>2. Len(q[wq[u]]) < MaxMsg
        BY <1>1, <1>2, <3>1, ChatAssumption DEF Full
      <3> QED
        BY <1>2, <1>10, <3>1, <3>2, ChatAssumption
    <2> QED
      BY <1>0, <1>1, <1>2, <1>4, <1>10, <2>1 DEF Wired, Ready, Made
  <1>13. LostInv' /\ EmptyInv'
    <2>1. /\ \A d : Alive(d)' <=> Alive(d)
          /\ \A x \in lost : x \in Mail' /\ wq'[x.from] \in Queue /\ ~Alive(wq[x.from])'
      <3>1. /\ UNCHANGED <<main, name, wq, rq, lost>> /\ Mail \subseteq Mail'
            /\ \A w \in Users : /\ writer'[w] = "done" <=> writer[w] = "done"
                                /\ reader'[w] = "done" <=> reader[w] = "done"
        BY <1>1, <1>4, <1>7
      <3> QED
        BY <3>1, SameLives
    <2>2. Alive(wq[u])
      BY <1>0, <1>1, InUse
    <2>3. \A d \in Queue : d # wq[u] => q'[d] = q[d]
      BY <1>0, <1>1 DEF Wired
    <2>4. EmptyInv'
      BY <1>0, <2>1, <2>2, <2>3 DEF EmptyInv
    <2>5. LostInv'
      BY <1>0, <1>1, <2>1 DEF LostInv, Newer
    <2> QED
      BY <2>4, <2>5
  <1> QED
    BY <1>10, <1>11, <1>12, <1>13 DEF MailInv

LEMMA LineShown ==
    ASSUME MqInv, NEW u \in Users, Receive(u)
    PROVE  Wired' /\ MailInv'
  <1> DEFINE m == Head(q[rq[u]])
  <1>0. Wired /\ QueueInv /\ SeenInv /\ SentInv /\ LostInv /\ EmptyInv /\ Once
    BY DEF MqInv, MailInv
  <1>1. /\ reader[u] = "poll" /\ q[rq[u]] # <<>>
        /\ seen' = [seen EXCEPT ![u] = Append(@, m)]
        /\ q' = [q EXCEPT ![rq[u]] = Tail(@)]
        /\ running' = Set(running, u, running[u] /\ m.prio = 1)
        /\ reader' = Set(reader, u, IF m.prio = 1 THEN "loop" ELSE "close")
        /\ UNCHANGED <<main, writer, name, wq, rq, typed, lost>>
    BY DEF Receive, openVars
  <1>2. rq[u] \in Queue /\ reader \in [Users -> {"off", "loop", "poll", "close", "done"}]
        /\ running \in [Users -> BOOLEAN]
    BY <1>0, <1>1 DEF Wired, Ready
  <1>3. /\ q' \in [Queue -> Seq(Message)] /\ seen' \in [Users -> Seq(Message)]
        /\ \A d \in Queue : Len(q'[d]) <= Len(q[d])
        /\ QueueInv' /\ SeenInv' /\ Once'
        /\ \A x : There(x)' <=> There(x)
    BY <1>0, <1>1, <1>2, Receiving
  <1> HIDE DEF m
  <1>4. SentInv'
    <2>1. \A w \in Users : Sent(w)' = Sent(w) /\ (Parted(w)' <=> Parted(w))
      BY <1>1 DEF Sent, Parted
    <2> QED
      BY <1>0, <1>3, <2>1 DEF SentInv
  <1>5. Wired'
    <2>1. \A d \in Queue : Len(q'[d]) <= MaxMsg
      <3>1. \A d \in Queue : Len(q[d]) <= MaxMsg /\ Len(q[d]) \in Nat /\ Len(q'[d]) \in Nat
        BY <1>0, <1>3 DEF Wired
      <3> QED
        BY <1>3, <3>1, ChatAssumption
    <2>2. /\ reader' \in [Users -> {"off", "loop", "poll", "close", "done"}]
          /\ running' \in [Users -> BOOLEAN]
          /\ \A w \in Users : reader'[w] = "off" => reader[w] = "off" /\ w # u
      BY <1>1, <1>2 DEF Set
    <2>3. \A w \in Users : w # u => seen'[w] = seen[w]
      BY <1>0, <1>1 DEF Wired, Ready
    <2>4. \A w \in Users : reader'[w] # "off" => reader[w] # "off"
      BY <1>1, <1>2 DEF Set
    <2>5. \A w \in Users : Stopped(w)' => ~running'[w]
      <3>1. \A w \in Users : w # u => reader'[w] = reader[w] /\ running'[w] = running[w]
        BY <1>1, <1>2 DEF Set
      <3>2. Stopped(u)' => ~running'[u]
        BY <1>1, <1>2 DEF Set, Stopped
      <3> QED
        BY <1>0, <3>1, <3>2 DEF Stopped, Wired, Ready
    <2>6. \A w \in Users : main[w] \in {"unlink1", "unlink2", "exited"} => reader'[w] = "done"
      BY <1>0, <1>1, <1>2 DEF Set, Wired, Ready
    <2> QED
      BY <1>0, <1>1, <1>3, <2>1, <2>2, <2>3, <2>4, <2>5, <2>6 DEF Wired, Ready, Made, Stopped
  <1>6. LostInv' /\ EmptyInv'
    <2>1. /\ \A d : Alive(d)' <=> Alive(d)
          /\ \A x \in lost : x \in Mail' /\ wq'[x.from] \in Queue /\ ~Alive(wq[x.from])'
      <3>1. /\ UNCHANGED <<main, name, wq, rq, lost>> /\ Mail \subseteq Mail'
            /\ \A w \in Users : /\ writer'[w] = "done" <=> writer[w] = "done"
                                /\ reader'[w] = "done" <=> reader[w] = "done"
        BY <1>1, <1>2 DEF Set, Mail, Sent, Parted
      <3> QED
        BY <3>1, SameLives
    <2>2. Alive(rq[u])
      BY <1>0, <1>1, InUse
    <2>3. \A d \in Queue : d # rq[u] => q'[d] = q[d]
      BY <1>0, <1>1 DEF Wired
    <2>4. EmptyInv'
      BY <1>0, <2>1, <2>2, <2>3 DEF EmptyInv
    <2>5. ASSUME NEW x \in lost, NEW w \in Users, NEW i \in 1..Len(seen'[w])
          PROVE  Newer(seen'[w][i], x)
      <3>0. \A v \in Users : \A j \in 1..Len(seen[v]) : Newer(seen[v][j], x)
        BY <1>0 DEF LostInv
      <3>1. m.from # x.from
        <4>1. 1 \in 1..Len(q[rq[u]]) /\ m = q[rq[u]][1]
          BY <1>0, <1>1, <1>2 DEF Wired, m
        <4>2. wq[m.from] = rq[u]
          BY <1>0, <1>2, <4>1 DEF QueueInv
        <4>3. ~Alive(wq[x.from])
          BY <1>0 DEF LostInv
        <4> QED
          BY <2>2, <4>2, <4>3
      <3>2. seen'[w][i] = m \/ (i \in 1..Len(seen[w]) /\ seen'[w][i] = seen[w][i])
        <4>1. /\ seen[u] \in Seq(Message) /\ seen \in [Users -> Seq(Message)]
              /\ Append(seen[u], m) = seen'[u] /\ m \in Message
          BY <1>0, <1>1, <1>2 DEF Wired, m
        <4>2. CASE w = u
          BY <4>1, <4>2
        <4>3. CASE w # u
          BY <1>1, <4>1, <4>3
        <4> QED
          BY <4>2, <4>3
      <3> QED
        BY <3>0, <3>1, <3>2 DEF Newer
    <2>6. LostInv'
      BY <1>1, <2>1, <2>5 DEF LostInv, Newer
    <2> QED
      BY <2>4, <2>6
  <1> QED
    BY <1>3, <1>4, <1>5, <1>6 DEF MailInv

LEMMA MadeStays ==
    ASSUME OwnerInv, Next, NEW c \in Queue, Made(c)
    PROVE  Made(c)'
  <1>1. c[1] \in Users /\ DOMAIN main = Users
    BY DEF Queue, OwnerInv
  <1>2. ASSUME NEW u \in Users, OpenFirst(u) \/ Opening(u) \/ Join(u) \/ Unlink(u) PROVE Made(c)'
    BY <1>1, <1>2 DEF Made, OpenFirst, Opening, CreateSecond, StartThreads, OpenToWrite,
                      OpenToRead, GiveUp, Join, Unlink, Set
  <1>3. ASSUME NEW u \in Users, Writer(u) \/ Reader(u) \/ Type(u) \/ Interrupt(u) PROVE Made(c)'
    <2>1. main' = main
      BY <1>3 DEF Writer, WriterLoop, SendText, SayGoodbye, CloseWrite, Reader, ReaderLoop,
                  PollEmpty, Receive, CloseRead, Type, Interrupt
    <2> QED
      BY <2>1 DEF Made
  <1> QED
    BY <1>2, <1>3 DEF Next, Main

(* Opening, the two loops, the keyboard and the signal.                    *)
LEMMA Elsewhere ==
    ASSUME MqInv, Next, NEW u \in Users,
           \/ OpenFirst(u) \/ CreateSecond(u) \/ OpenToWrite(u) \/ OpenToRead(u) \/ Join(u)
           \/ WriterLoop(u) \/ Type(u) \/ ReaderLoop(u) \/ PollEmpty(u) \/ Interrupt(u)
    PROVE  Wired' /\ MailInv'
  <1>0. /\ Wired /\ OwnerInv /\ \A w \in Users : Ready(w)
        /\ \A w \in Users : wq[w] # None => wq[w] \in Queue /\ Made(wq[w])
    BY DEF MqInv, Wired
  <1>t. /\ DOMAIN main = Users /\ DOMAIN writer = Users /\ DOMAIN reader = Users
        /\ DOMAIN running = Users /\ DOMAIN wq = Users /\ DOMAIN rq = Users /\ DOMAIN name = {1, 2}
        /\ DOMAIN typed = Users
        /\ \A k \in {1, 2} : name[k] \in Queue \cup {None}
        /\ None \notin Queue /\ <<u, 1>> \in Queue /\ <<u, 2>> \in Queue
        /\ <<u, 1>>[1] = u /\ <<u, 1>>[2] = 1 /\ <<u, 2>>[1] = u /\ <<u, 2>>[2] = 2
    BY <1>0, ChatAssumption DEF OwnerInv, Wired, Queue
  <1>m. \A c \in Queue : Made(c) => Made(c)'
    BY <1>0, MadeStays
  <1>q. ASSUME UNCHANGED <<q, seen, lost>>,
               writer' \in [Users -> {"off", "loop", "fgets", "send", "bye", "close", "done"}],
               reader' \in [Users -> {"off", "loop", "poll", "close", "done"}],
               running' \in [Users -> BOOLEAN], wq' \in [Users -> Queue \cup {None}],
               typed' \in [Users -> Nat],
               \A w \in Users : wq'[w] # None => wq'[w] = wq[w] \/ Made(wq[w])',
               Ready(u)',
               \A w \in Users : w # u =>
                  /\ main'[w] = main[w] /\ writer'[w] = writer[w] /\ reader'[w] = reader[w]
                  /\ running'[w] = running[w] /\ wq'[w] = wq[w] /\ rq'[w] = rq[w]
                  /\ typed'[w] = typed[w]
        PROVE  Wired'
    <2>1. ASSUME NEW w \in Users, w # u PROVE Ready(w)'
      BY <1>0, <1>q, <2>1 DEF Ready
    <2>2. ASSUME NEW w \in Users, wq'[w] # None PROVE Made(wq[w])'
      <3>1. CASE wq'[w] = wq[w]
        <4>1. PICK c \in Queue : c = wq[w] /\ Made(c)
          BY <1>0, <2>2, <3>1
        <4>2. Made(c)'
          BY <1>m, <4>1
        <4> QED
          BY <3>1, <4>1, <4>2 DEF Made
      <3> QED
        BY <1>q, <2>2, <3>1
    <2> QED
      BY <1>0, <1>q, <2>1, <2>2 DEF Wired
  <1>h. ASSUME seen' = seen, UNCHANGED <<q, lost>>,
               \A w \in Users :
                  /\ Sent(w)' = Sent(w) /\ (Parted(w)' <=> Parted(w))
                  /\ writer[w] # "off" => wq'[w] = wq[w]
                  /\ Stopped(w) => Stopped(w)',
               \A k \in {1, 2} : name[k] # None => name'[k] = name[k],
               \A w \in Users : \A c \in Queue : Holds(w, c) => Holds(w, c)'
        PROVE  MailInv'
    <2>1. \A c \in Queue : c[2] \in {1, 2} /\ c # None
      BY <1>t DEF Queue
    <2>2. \A c \in Queue : Alive(c) => Alive(c)'
      BY <1>h, <2>1 DEF Alive
    <2>3. Aside
      BY <1>h DEF Aside
    <2> QED
      BY <1>h, <2>2, <2>3, NothingMoved
  <1>1. CASE OpenFirst(u)
    <2>a. main[u] = "off" /\ writer[u] = "off" /\ reader[u] = "off" /\ rq[u] = None
          /\ wq[u] = None
      BY <1>0, <1>1 DEF Ready, OpenFirst
    <2>b. /\ main'[u] \in {"create2", "open1"} /\ rq'[u] \in {None, <<u, 1>>}
          /\ main'[u] = "open1" => rq'[u] = None
          /\ \A w \in Users : w # u => main'[w] = main[w] /\ rq'[w] = rq[w]
          /\ \A k \in {1, 2} : name[k] # None => name'[k] = name[k]
          /\ UNCHANGED <<writer, reader, running, wq, q, typed, seen, lost>>
      BY <1>t, <1>1, <2>a DEF OpenFirst, Set, chatVars
    <2>c. Ready(u)'
      BY <1>0, <2>a, <2>b DEF Ready
    <2>1. Wired'
      BY <1>0, <1>q, <2>b, <2>c DEF Wired
    <2>2. \A w \in Users : \A c \in Queue : Holds(w, c) => Holds(w, c)'
      BY <1>t, <2>a, <2>b DEF Holds, Ended
    <2> QED
      BY <1>h, <2>1, <2>b, <2>2 DEF Sent, Parted, Stopped
  <1>2. CASE CreateSecond(u)
    <2>a. /\ main[u] = "create2" /\ writer[u] = "off" /\ reader[u] = "off"
          /\ rq[u] = <<u, 1>> /\ wq[u] = None
      BY <1>0, <1>2 DEF Ready, OwnerInv, CreateSecond
    <2>b. /\ \A w \in Users : w # u =>
                /\ main'[w] = main[w] /\ writer'[w] = writer[w] /\ reader'[w] = reader[w]
                /\ wq'[w] = wq[w]
          /\ \/ /\ main'[u] = "join" /\ wq'[u] = <<u, 2>>
                /\ writer'[u] = "loop" /\ reader'[u] = "loop"
             \/ main'[u] = "drop2" /\ UNCHANGED <<writer, reader, wq>>
          /\ \A k \in {1, 2} : name[k] # None => name'[k] = name[k]
          /\ UNCHANGED <<running, rq, q, typed, seen, lost>>
      BY <1>t, <1>2 DEF CreateSecond, StartThreads, Set, chatVars
    <2>c. Ready(u)'
      BY <1>0, <1>t, <2>a, <2>b DEF Ready
    <2>d. \A w \in Users : wq'[w] # None => wq'[w] = wq[w] \/ Made(wq[w])'
      BY <1>t, <2>a, <2>b DEF Made
    <2>e. /\ writer' \in [Users -> {"off", "loop", "fgets", "send", "bye", "close", "done"}]
          /\ reader' \in [Users -> {"off", "loop", "poll", "close", "done"}]
          /\ wq' \in [Users -> Queue \cup {None}]
      <3>1. /\ writer' \in {writer, [writer EXCEPT ![u] = "loop"]}
            /\ reader' \in {reader, [reader EXCEPT ![u] = "loop"]}
            /\ wq' \in {wq, [wq EXCEPT ![u] = <<u, 2>>]}
        BY <1>2 DEF CreateSecond, StartThreads, Set
      <3>2. writer' \in [Users -> {"off", "loop", "fgets", "send", "bye", "close", "done"}]
        BY <1>0, <3>1 DEF Wired
      <3>3. reader' \in [Users -> {"off", "loop", "poll", "close", "done"}]
        BY <1>0, <3>1 DEF Wired
      <3>4. wq' \in [Users -> Queue \cup {None}]
        BY <1>0, <1>t, <3>1 DEF Wired
      <3> QED
        BY <3>2, <3>3, <3>4
    <2>1. Wired'
      BY <1>0, <1>q, <2>b, <2>c, <2>d, <2>e DEF Wired
    <2>2. \A w \in Users : \A c \in Queue : Holds(w, c) => Holds(w, c)'
      BY <1>t, <2>a, <2>b DEF Holds, Ended
    <2>3. \A w \in Users :
             /\ Sent(w)' = Sent(w) /\ (Parted(w)' <=> Parted(w))
             /\ writer[w] # "off" => wq'[w] = wq[w]
             /\ Stopped(w) => Stopped(w)'
      BY <2>a, <2>b DEF Sent, Parted, Stopped
    <2> QED
      BY <1>h, <2>1, <2>b, <2>2, <2>3
  <1>3. CASE OpenToWrite(u)
    <2>a. main[u] = "open1" /\ writer[u] = "off" /\ reader[u] = "off" /\ rq[u] = None
          /\ wq[u] = None
      BY <1>0, <1>3 DEF Ready, OpenToWrite
    <2>b. /\ main'[u] = (IF name[1] # None THEN "open2" ELSE "drop1") /\ wq'[u] = name[1]
          /\ \A w \in Users : w # u => main'[w] = main[w] /\ wq'[w] = wq[w]
          /\ wq' \in [Users -> Queue \cup {None}]
          /\ UNCHANGED <<writer, reader, running, name, rq, q, typed, seen, lost>>
      BY <1>0, <1>t, <1>3 DEF OpenToWrite, Set, chatVars, Wired
    <2>c. Ready(u)'
      BY <1>0, <1>t, <2>a, <2>b DEF Ready
    <2>d. name[1] # None => Made(name[1])'
      <3> SUFFICES ASSUME name[1] # None PROVE Made(name[1])'
        OBVIOUS
      <3>1. PICK w \in Users : name[1] = <<w, 1>>
        BY <1>0, <1>t DEF OwnerInv, Queue
      <3>2. main[w] # "off" /\ <<w, 1>>[2] = 1 /\ <<w, 1>>[1] = w
        BY <1>0, <3>1 DEF OwnerInv
      <3>3. main'[w] # "off"
        BY <2>b, <3>2
      <3> QED
        BY <2>b, <3>1, <3>2, <3>3 DEF Made
    <2>1. Wired'
      <3>1. \A w \in Users : wq'[w] # None => wq'[w] = wq[w] \/ Made(wq[w])'
        BY <2>b, <2>d DEF Made
      <3> QED
        BY <1>0, <1>q, <2>b, <2>c, <3>1 DEF Wired
    <2>2. \A w \in Users : \A c \in Queue : Holds(w, c) => Holds(w, c)'
      BY <1>t, <2>a, <2>b DEF Holds, Ended
    <2>3. \A w \in Users :
             /\ Sent(w)' = Sent(w) /\ (Parted(w)' <=> Parted(w))
             /\ writer[w] # "off" => wq'[w] = wq[w]
             /\ Stopped(w) => Stopped(w)'
      BY <2>a, <2>b DEF Sent, Parted, Stopped
    <2> QED
      BY <1>h, <2>1, <2>b, <2>2, <2>3
  <1>4. CASE OpenToRead(u)
    <2>a. main[u] = "open2" /\ writer[u] = "off" /\ reader[u] = "off" /\ rq[u] = None
          /\ wq[u] \in Queue
      BY <1>0, <1>4 DEF Ready, OpenToRead
    <2>b. /\ \A w \in Users : w # u =>
                /\ main'[w] = main[w] /\ writer'[w] = writer[w] /\ reader'[w] = reader[w]
                /\ rq'[w] = rq[w]
          /\ rq'[u] = name[2]
          /\ \/ /\ main'[u] = "join" /\ name[2] # None
                /\ writer'[u] = "loop" /\ reader'[u] = "loop"
             \/ main'[u] = "drop2" /\ UNCHANGED <<writer, reader>>
          /\ UNCHANGED <<name, running, wq, q, typed, seen, lost>>
      BY <1>t, <1>4 DEF OpenToRead, StartThreads, Set, chatVars
    <2>c. Ready(u)'
      BY <1>0, <1>t, <2>a, <2>b DEF Ready
    <2>e. /\ writer' \in [Users -> {"off", "loop", "fgets", "send", "bye", "close", "done"}]
          /\ reader' \in [Users -> {"off", "loop", "poll", "close", "done"}]
      BY <1>0, <1>t, <1>4 DEF OpenToRead, StartThreads, Set, Wired
    <2>1. Wired'
      BY <1>0, <1>q, <2>b, <2>c, <2>e DEF Wired
    <2>2. \A w \in Users : \A c \in Queue : Holds(w, c) => Holds(w, c)'
      BY <1>t, <2>a, <2>b DEF Holds, Ended
    <2>3. \A w \in Users :
             /\ Sent(w)' = Sent(w) /\ (Parted(w)' <=> Parted(w))
             /\ writer[w] # "off" => wq'[w] = wq[w]
             /\ Stopped(w) => Stopped(w)'
      BY <2>a, <2>b DEF Sent, Parted, Stopped
    <2> QED
      BY <1>h, <2>1, <2>b, <2>2, <2>3
  <1>5. CASE Join(u)
    <2>a. main[u] = "join" /\ writer[u] = "done" /\ reader[u] = "done"
      BY <1>5 DEF Join
    <2>b. /\ main'[u] \in {"unlink1", "exited"}
          /\ \A w \in Users : w # u => main'[w] = main[w]
          /\ UNCHANGED <<writer, reader, running, name, wq, rq, q, typed, seen, lost>>
      BY <1>t, <1>5 DEF Join, Set, openVars, chatVars
    <2>c. Ready(u)'
      BY <1>0, <2>a, <2>b DEF Ready
    <2>1. Wired'
      BY <1>0, <1>q, <2>b, <2>c DEF Wired
    <2>2. \A w \in Users : \A c \in Queue : Holds(w, c) => Holds(w, c)'
      BY <2>a, <2>b DEF Holds, Ended
    <2> QED
      BY <1>h, <2>1, <2>b, <2>2 DEF Sent, Parted, Stopped
  <1>6. CASE WriterLoop(u) \/ Type(u)
    <2>b. /\ writer[u] \in {"loop", "fgets"} /\ writer'[u] \in {"fgets", "send", "bye"}
          /\ \A w \in Users : w # u => writer'[w] = writer[w] /\ typed'[w] = typed[w]
          /\ \/ typed'[u] = typed[u] /\ writer'[u] # "send"
             \/ typed'[u] = typed[u] + 1 /\ writer'[u] = "send"
          /\ typed' \in [Users -> Nat] /\ typed[u] \in Nat
          /\ writer' \in [Users -> {"off", "loop", "fgets", "send", "bye", "close", "done"}]
          /\ UNCHANGED <<main, reader, running, name, wq, rq, q, seen, lost>>
      <3>0. /\ writer \in [Users -> {"off", "loop", "fgets", "send", "bye", "close", "done"}]
            /\ typed \in [Users -> Nat]
        BY <1>0 DEF Wired
      <3>1. CASE WriterLoop(u)
        BY <3>0, <3>1 DEF WriterLoop, Set, openVars, chatVars
      <3>2. CASE Type(u)
        BY <3>0, <3>2 DEF Type, Set, openVars
      <3> QED
        BY <1>6, <3>1, <3>2
    <2>c. Ready(u)'
      BY <1>0, <2>b DEF Ready
    <2>1. Wired'
      BY <1>0, <1>q, <2>b, <2>c DEF Wired
    <2>2. \A w \in Users : \A c \in Queue : Holds(w, c) => Holds(w, c)'
      BY <2>b DEF Holds, Ended
    <2>3. \A w \in Users : Sent(w)' = Sent(w) /\ (Parted(w)' <=> Parted(w))
      BY <2>b DEF Sent, Parted
    <2> QED
      BY <1>h, <2>1, <2>b, <2>2, <2>3 DEF Stopped
  <1>7. CASE ReaderLoop(u) \/ PollEmpty(u) \/ Interrupt(u)
    <2>b. /\ \A w \in Users : w # u => reader'[w] = reader[w] /\ running'[w] = running[w]
          /\ reader[u] = "off" => reader'[u] = "off"
          /\ reader[u] # "off" => reader'[u] # "off"
          /\ reader'[u] = reader[u] \/ (reader[u] \in {"loop", "poll"} /\ reader'[u] # "done")
          /\ reader'[u] \in {"close", "done"} => ~running'[u]
          /\ reader' \in [Users -> {"off", "loop", "poll", "close", "done"}]
          /\ running' \in [Users -> BOOLEAN]
          /\ UNCHANGED <<main, writer, name, wq, rq, q, typed, seen, lost>>
      <3>1. Ready(u) /\ reader \in [Users -> {"off", "loop", "poll", "close", "done"}]
            /\ running \in [Users -> BOOLEAN]
        BY <1>0 DEF Wired
      <3> QED
        BY <3>1, <1>t, <1>7 DEF ReaderLoop, PollEmpty, Interrupt, Set, openVars, chatVars, Ready
    <2>c. Ready(u)'
      BY <1>0, <2>b DEF Ready
    <2>1. Wired'
      BY <1>0, <1>q, <2>b, <2>c DEF Wired
    <2>2. \A w \in Users : \A c \in Queue : Holds(w, c) => Holds(w, c)'
      BY <2>b DEF Holds, Ended
    <2>3. \A w \in Users : Stopped(w) => Stopped(w)'
      BY <2>b DEF Stopped
    <2> QED
      BY <1>h, <2>1, <2>b, <2>2, <2>3 DEF Sent, Parted
  <1> QED
    BY <1>1, <1>2, <1>3, <1>4, <1>5, <1>6, <1>7

(* Closing: a queue may go, with what is in it.                            *)
LEMMA Closing ==
    ASSUME MqInv, Next, NEW u \in Users, GiveUp(u) \/ Unlink(u) \/ CloseWrite(u) \/ CloseRead(u)
    PROVE  Wired' /\ MailInv'
  <1>0. /\ Wired /\ OwnerInv /\ \A w \in Users : Ready(w)
        /\ \A w \in Users : wq[w] # None => wq[w] \in Queue /\ Made(wq[w])
    BY DEF MqInv, Wired
  <1>t. DOMAIN main = Users /\ DOMAIN writer = Users /\ DOMAIN reader = Users
    BY <1>0 DEF OwnerInv, Wired
  <1>1. /\ UNCHANGED <<running, wq, rq, typed, seen>> /\ Discard
        /\ \A w \in Users :
             /\ main'[w] = main[w] /\ reader'[w] = reader[w] /\ writer'[w] = writer[w]
             \/ /\ w = u /\ main[w] \in {"drop1", "drop2"} /\ main'[w] = "gaveup"
                /\ writer'[w] = writer[w] /\ reader'[w] = reader[w]
             \/ /\ w = u /\ main[w] \in {"unlink1", "unlink2"} /\ main'[w] \in {"unlink2", "exited"}
                /\ writer'[w] = writer[w] /\ reader'[w] = reader[w]
             \/ /\ w = u /\ writer[w] = "close" /\ writer'[w] = "done"
                /\ main'[w] = main[w] /\ reader'[w] = reader[w]
             \/ /\ w = u /\ reader[w] = "close" /\ reader'[w] = "done"
                /\ main'[w] = main[w] /\ writer'[w] = writer[w]
    BY <1>t DEF GiveUp, Unlink, CloseWrite, CloseRead, Set, openVars
  <1>2. /\ writer' \in [Users -> {"off", "loop", "fgets", "send", "bye", "close", "done"}]
        /\ reader' \in [Users -> {"off", "loop", "poll", "close", "done"}]
    BY <1>0, <1>t DEF GiveUp, Unlink, CloseWrite, CloseRead, Set, Wired, openVars
  <1>3. Aside
    <2>1. \A w \in Users : Sent(w)' = Sent(w) /\ (Parted(w)' <=> Parted(w))
      BY <1>1 DEF Sent, Parted
    <2>2. \A w \in Users : Stopped(w) => Stopped(w)'
      BY <1>1 DEF Stopped
    <2> QED
      BY <1>1, <2>1, <2>2 DEF Aside
  <1>4. MailInv' /\ q' \in [Queue -> Seq(Message)]
        /\ \A c \in Queue : Len(q'[c]) \in Nat /\ Len(q'[c]) <= Len(q[c])
    BY <1>1, <1>3, Discarded
  <1>5. \A c \in Queue : Len(q'[c]) <= MaxMsg
    <2>1. \A c \in Queue : Len(q[c]) <= MaxMsg /\ Len(q[c]) \in Nat
      BY <1>0 DEF Wired
    <2> QED
      BY <1>4, <2>1, ChatAssumption
  <1>6. ASSUME NEW w \in Users PROVE Ready(w)'
    BY <1>0, <1>1 DEF Ready
  <1>7. ASSUME NEW w \in Users, wq'[w] # None PROVE Made(wq[w])'
    <2>1. PICK c \in Queue : c = wq[w] /\ Made(c)
      BY <1>0, <1>1, <1>7
    <2>2. Made(c)'
      BY <1>0, <2>1, MadeStays
    <2> QED
      BY <1>1, <2>1, <2>2 DEF Made
  <1>8. Wired'
    BY <1>0, <1>1, <1>2, <1>4, <1>5, <1>6, <1>7 DEF Wired
  <1> QED
    BY <1>4, <1>8

LEMMA MqStep ==
    ASSUME MqInv, [Next]_vars
    PROVE  MqInv'
  <1>1. OwnerInv'
    BY OwnerStep DEF MqInv
  <1>2. CASE UNCHANGED vars
    <2>1. UNCHANGED <<main, writer, reader, running, name, wq, rq, q, typed, seen, lost>>
      BY <1>2 DEF vars, openVars, chatVars
    <2>2. Wired'
      BY <2>1 DEF MqInv, Wired, Ready, Made
    <2>3. \A c : Alive(c)' <=> Alive(c)
      BY <2>1 DEF Alive, Holds, Ended
    <2>4. Mail' = Mail /\ \A x : There(x)' <=> There(x)
      BY <2>1 DEF Mail, Sent, Parted, There, Shown
    <2>5. QueueInv' /\ SeenInv' /\ EmptyInv' /\ Once'
      BY <2>1, <2>3, <2>4 DEF MqInv, MailInv, QueueInv, SeenInv, EmptyInv, Once, Newer, Stopped
    <2>6. SentInv'
      BY <2>1, <2>4 DEF MqInv, MailInv, SentInv, Sent, Parted
    <2>7. LostInv'
      BY <2>1, <2>3, <2>4 DEF MqInv, MailInv, LostInv, Newer, Alive, Holds, Ended
    <2> QED
      BY <1>1, <2>2, <2>5, <2>6, <2>7 DEF MqInv, MailInv
  <1>3. CASE Next
    <2>1. PICK u \in Users :
             OpenFirst(u) \/ Main(u) \/ Writer(u) \/ Reader(u) \/ Type(u) \/ Interrupt(u)
      BY <1>3 DEF Next
    <2>2. Wired' /\ MailInv'
      BY <1>3, <2>1, TextSent, GoodbyeSaid, LineShown, Elsewhere, Closing
         DEF Main, Opening, Writer, Reader
    <2> QED
      BY <1>1, <2>2 DEF MqInv
  <1> QED
    BY <1>2, <1>3

(* The messages are where they were sent to, or shown, or lost with a      *)
(* queue that is gone, each in one place.                                  *)
THEOREM MessagesInvariant == Spec => []MqInv
<1>1. Init => MqInv
  <2> SUFFICES ASSUME Init PROVE MqInv
    OBVIOUS
  <2>1. OwnerInv
    BY ChatAssumption DEF Init, OwnerInv, Queue
  <2>2. /\ q = [c \in Queue |-> <<>>] /\ seen = [u \in Users |-> <<>>]
        /\ typed = [u \in Users |-> 0] /\ writer = [u \in Users |-> "off"]
    BY DEF Init
  <2>3. Wired
    BY ChatAssumption DEF Init, Wired, Ready
  <2>4. QueueInv /\ SeenInv /\ EmptyInv /\ LostInv /\ Once
    BY <2>2 DEF Init, QueueInv, SeenInv, EmptyInv, LostInv, Once
  <2>5. SentInv
    BY <2>2 DEF SentInv, Sent, Parted
  <2> QED
    BY <2>1, <2>3, <2>4, <2>5 DEF MqInv, MailInv
<1>2. MqInv /\ [Next]_vars => MqInv'
  BY MqStep
<1> QED
  BY <1>1, <1>2, PTL DEF Spec

(* The variables have their types, and no queue is ever over its limit     *)
(* (03/main.c:127, 173).                                                   *)
THEOREM MessagesTyped == Spec => []TypeOK
<1>1. MqInv => TypeOK
  <2>1. ASSUME OwnerInv, NEW k \in {1, 2} PROVE name[k] \in (Users \X {k}) \cup {None}
    BY <2>1 DEF OwnerInv, Queue
  <2>2. ASSUME LostInv PROVE lost \subseteq Message
    BY <2>2 DEF LostInv, Mail
  <2> QED
    BY <2>1, <2>2 DEF MqInv, MailInv, OwnerInv, Wired, TypeOK
<1> QED
  BY <1>1, MessagesInvariant, PTL

(* Whatever is sent is waiting, or has been shown, or went with its queue  *)
(* when nothing led to it any more, once (03/main.c:50, 61-64, 77, 99,     *)
(* 139, 145, 174, 196-197); and no queue goes while somebody who reads it  *)
(* goes on.  For any number of programs and lines.                         *)
THEOREM MessagesKept == Spec => []NothingLost
<1>1. MqInv => NothingLost
  <2> SUFFICES ASSUME MqInv, NEW u \in Users
               PROVE  /\ \A n \in 1..MaxLines : There(Text(u, n)) <=> n <= Sent(u)
                      /\ There(Goodbye(u)) <=> Parted(u)
                      /\ \A m \in lost :
                            rq[u] = wq[m.from] => ~running[u] \/ main[u] = "gaveup"
    BY DEF NothingLost, MqInv, MailInv, Parted
  <2>1. ASSUME NEW n \in 1..MaxLines PROVE There(Text(u, n)) <=> n <= Sent(u)
    <3>1. n <= Sent(u) => There(Text(u, n))
      BY ChatAssumption DEF MqInv, MailInv, SentInv
    <3>2. ASSUME There(Text(u, n)) PROVE n <= Sent(u)
      <4>1. Text(u, n) \in Mail
        BY <3>2, ThereIsMail DEF MqInv, MailInv
      <4> QED
        BY <4>1 DEF Mail, Text, Goodbye
    <3> QED
      BY <3>1, <3>2
  <2>2. There(Goodbye(u)) <=> Parted(u)
    <3>1. Parted(u) => There(Goodbye(u))
      BY DEF MqInv, MailInv, SentInv
    <3>2. ASSUME There(Goodbye(u)) PROVE Parted(u)
      <4>1. Goodbye(u) \in Mail
        BY <3>2, ThereIsMail DEF MqInv, MailInv
      <4> QED
        BY <4>1 DEF Mail, Text, Goodbye
    <3> QED
      BY <3>1, <3>2
  <2>3. ASSUME NEW m \in lost, rq[u] = wq[m.from] PROVE ~running[u] \/ main[u] = "gaveup"
    <3>1. ~Holds(u, wq[m.from])
      BY DEF MqInv, MailInv, LostInv, Alive
    <3>2. main[u] \in {"gaveup", "exited"} \/ reader[u] = "done"
      BY <2>3, <3>1 DEF Holds, Ended
    <3> QED
      BY <3>2 DEF MqInv, Wired, Ready
  <2> QED
    BY <2>1, <2>2, <2>3
<1> QED
  BY <1>1, MessagesInvariant, PTL

(* What is shown, and what will be, is in the order in which each person   *)
(* wrote it, no line is shown before all that precede it have been, and    *)
(* nothing after a goodbye (03/main.c:50, 61, 77, 83-87).                  *)
THEOREM MessagesInOrder == Spec => []InOrder
<1>1. MqInv => InOrder
  <2> SUFFICES ASSUME MqInv, NEW u \in Users
               PROVE  LET line == seen[u] \o (IF rq[u] = None THEN <<>> ELSE q[rq[u]])
                      IN  /\ \A i, j \in DOMAIN line :
                               i < j /\ line[i].from = line[j].from
                               /\ line[i].n > 0 /\ line[j].n > 0 => line[i].n < line[j].n
                          /\ \A i \in DOMAIN seen[u] : \A n \in 1..seen[u][i].n - 1 :
                               Shown(Text(seen[u][i].from, n))
                          /\ \A i \in DOMAIN seen[u] : i < Len(seen[u]) => seen[u][i].prio = 1
    BY DEF InOrder
  <2> DEFINE r == seen[u]
             s == IF rq[u] = None THEN <<>> ELSE q[rq[u]]
             line == r \o s
  <2>1. r \in Seq(Message) /\ s \in Seq(Message)
    BY DEF MqInv, OwnerInv, Wired
  <2>2. /\ \A i, j \in 1..Len(r) : i < j => Newer(r[i], r[j])
        /\ \A i, j \in 1..Len(s) : i < j => Newer(s[i], s[j])
        /\ \A i \in 1..Len(r), j \in 1..Len(s) : Newer(r[i], s[j])
    <3>1. \A i, j \in 1..Len(r) : i < j => Newer(r[i], r[j])
      BY DEF MqInv, MailInv, SeenInv
    <3>2. CASE rq[u] = None
      BY <3>1, <3>2
    <3>3. CASE rq[u] # None
      <4>1. rq[u] \in Queue /\ s = q[rq[u]]
        BY <3>3 DEF MqInv, OwnerInv
      <4> QED
        BY <3>1, <4>1 DEF MqInv, MailInv, QueueInv, SeenInv
    <3> QED
      BY <3>2, <3>3
  <2>3. \A i \in 1..Len(r) : i < Len(r) => r[i].prio = 1
    <3>1. ASSUME NEW i \in 1..Len(r), i < Len(r) PROVE r[i].prio = 1
      <4>1. r[i] \in Message /\ (r[i].prio = 2 => i = Len(r))
        BY <2>1 DEF MqInv, MailInv, SeenInv
      <4>2. Len(r) \in Nat /\ r[i].prio \in {1, 2}
        BY <2>1, <4>1 DEF Message
      <4> QED
        BY <3>1, <4>1, <4>2
    <3> QED
      BY <3>1
  <2>7. /\ \A i \in 1..Len(r) : r[i] \in Mail
        /\ \A i \in 1..Len(s) : s[i] \in Mail
    <3>1. rq[u] # None => rq[u] \in Queue
      BY DEF MqInv, OwnerInv
    <3> QED
      BY <3>1 DEF MqInv, MailInv, SeenInv, QueueInv
  <2>8. ASSUME NEW x \in Mail, x.n > 0
        PROVE  x.prio = 1 /\ x.n \in Nat /\ x.n <= Sent(x.from) /\ x.from \in Users
    BY <2>8 DEF Mail, Message, Text, Goodbye
  <2>9. ASSUME NEW i \in DOMAIN r, NEW n \in 1..r[i].n - 1
        PROVE  Shown(Text(r[i].from, n))
    <3>1. i \in 1..Len(r) /\ r[i] \in Mail /\ r[i].n \in Nat
      BY <2>1, <2>7 DEF Mail, Message
    <3> DEFINE w == r[i].from
               t == Text(w, n)
    <3>2. /\ n \in Nat /\ n > 0 /\ n < r[i].n /\ r[i].n > 0
      BY <3>1
    <3>3. r[i].prio = 1 /\ w \in Users /\ r[i].n <= Sent(w)
      BY <2>8, <3>1, <3>2
    <3>4. Sent(w) \in Int
      BY <3>3 DEF Sent, MqInv, Wired
    <3>5. There(t)
      BY <3>1, <3>2, <3>3, <3>4 DEF MqInv, MailInv, SentInv
    <3>6. ~Newer(r[i], t)
      BY <3>1, <3>2, <3>3 DEF Newer, Text
    <3> HIDE DEF t
    <3>7. t \notin lost
      BY <3>1, <3>6 DEF MqInv, MailInv, LostInv
    <3>8. ASSUME NEW c \in Queue, NEW j \in DOMAIN q[c] PROVE q[c][j] # t
      <4>1. j \in 1..Len(q[c])
        BY DEF MqInv, Wired
      <4>2. Newer(r[i], q[c][j])
        BY <3>1, <4>1 DEF MqInv, MailInv, SeenInv
      <4> QED
        BY <3>6, <4>2
    <3>9. Shown(t)
      BY <3>5, <3>7, <3>8 DEF There
    <3> QED
      BY <3>9 DEF t
  <2> HIDE DEF r, s
  <2>4. /\ DOMAIN r = 1..Len(r) /\ Len(r) \in Nat /\ Len(s) \in Nat
        /\ DOMAIN line = 1..Len(r) + Len(s)
        /\ \A i \in 1..Len(r) : line[i] = r[i]
        /\ \A i \in 1..Len(r) + Len(s) : i > Len(r) => i - Len(r) \in 1..Len(s) /\ line[i] = s[i - Len(r)]
    BY <2>1
  <2> HIDE DEF line
  <2>5. ASSUME NEW i \in DOMAIN line, NEW j \in DOMAIN line, i < j PROVE Newer(line[i], line[j])
    <3>1. CASE j <= Len(r)
      BY <2>2, <2>4, <2>5, <3>1
    <3>2. CASE i <= Len(r) /\ j > Len(r)
      BY <2>2, <2>4, <2>5, <3>2
    <3>3. CASE i > Len(r)
      <4> DEFINE k == i - Len(r)
                 l == j - Len(r)
      <4>1. k \in 1..Len(s) /\ l \in 1..Len(s) /\ k < l /\ line[i] = s[k] /\ line[j] = s[l]
        BY <2>4, <2>5, <3>3
      <4> HIDE DEF k, l
      <4> QED
        BY <2>2, <4>1
    <3> QED
      BY <2>4, <3>1, <3>2, <3>3
  <2>6. \A i, j \in DOMAIN line :
           i < j /\ line[i].from = line[j].from /\ line[i].n > 0 /\ line[j].n > 0
              => line[i].n < line[j].n
    <3>1. \A i \in DOMAIN line : line[i] \in Mail
      BY <2>4, <2>7
    <3> QED
      BY <2>5, <2>8, <3>1 DEF Newer
  <2> QED
    BY <2>3, <2>4, <2>6, <2>9 DEF r, s, line
<1> QED
  BY <1>1, MessagesInvariant, PTL
=============================================================================
