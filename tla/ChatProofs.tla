----------------------------- MODULE ChatProofs -----------------------------
(***************************************************************************)
(* Proofs about Chat, for every number of peers and of clients, every size *)
(* of the rooms, and any number of requests and of packets under way.      *)
(***************************************************************************)
EXTENDS Chat, ListFacts

(***************************************************************************)
(* Rooms.                                                                  *)
(***************************************************************************)
LEMMA RoomFacts == RoomNumbers \subseteq Nat \ {0} /\ 1..MaxRooms \subseteq RoomNumbers
BY ChatAssumption DEF RoomNumbers

(***************************************************************************)
(* Packets under way.                                                      *)
(***************************************************************************)
LEMMA PacketFacts ==
    ASSUME NEW pkt \in Packet
    PROVE  /\ pkt.type \in {"c", "j", "u", "l"}
           /\ pkt.type \in {"c", "j"} => pkt.room \in RoomNumbers
           /\ pkt.type \in {"j", "u"} => pkt.list \in Lists
BY DEF Packet

\* A reply at the end of a queue decides the room.
LEMMA ReplyAtEnd ==
    ASSUME NEW q \in Seq(Packet), NEW pkt \in Packet, NEW n, NEW s, NEW m,
           IsReply(pkt), RoomOf(pkt) = m
    PROVE  RoomQueue(Append(q, pkt), n, s, m)
<1> DEFINE t == Append(q, pkt)
           z == Len(q)
<1>1. /\ Len(t) = z + 1 /\ z \in Nat /\ DOMAIN t = 1..(z + 1) /\ t[z + 1] = pkt
  BY AppendFacts
<1> HIDE DEF t, z
<1>2. ASSUME NEW j \in DOMAIN t, IsReply(t[j]), \A k \in (j + 1)..Len(t) : ~IsReply(t[k])
      PROVE  RoomOf(t[j]) = m
  <2>1. CASE j = z + 1
    BY <1>1, <2>1
  <2>2. CASE j # z + 1
    <3>1. z + 1 \in (j + 1)..Len(t)
      BY <1>1, <2>2
    <3> QED BY <1>1, <1>2, <3>1
  <2> QED BY <2>1, <2>2
<1>3. ~(\A k \in DOMAIN t : ~IsReply(t[k]))
  <2>1. z + 1 \in DOMAIN t
    BY <1>1
  <2> QED BY <1>1, <2>1
<1>4. RoomQueue(t, n, s, m)
  BY <1>2, <1>3 DEF RoomQueue
<1> QED BY <1>4 DEF t

\* A roster at the end of a queue does not matter for the room.
LEMMA UpdateAtEnd ==
    ASSUME NEW q \in Seq(Packet), NEW pkt \in Packet, NEW n, NEW s, NEW m,
           ~IsReply(pkt), RoomQueue(q, n, s, m)
    PROVE  RoomQueue(Append(q, pkt), n, s, m)
<1> DEFINE t == Append(q, pkt)
           z == Len(q)
<1>1. /\ Len(t) = z + 1 /\ z \in Nat /\ DOMAIN t = 1..(z + 1) /\ DOMAIN q = 1..z
      /\ t[z + 1] = pkt /\ \A k \in 1..z : t[k] = q[k]
  BY AppendFacts
<1>0. Len(q) = z
  OBVIOUS
<1> HIDE DEF t, z
<1>2. ASSUME NEW j \in DOMAIN t, IsReply(t[j]), \A k \in (j + 1)..Len(t) : ~IsReply(t[k])
      PROVE  RoomOf(t[j]) = m
  <2>1. j \in 1..z
    BY <1>1, <1>2
  <2>2. \A k \in (j + 1)..z : k \in 1..z /\ k \in (j + 1)..Len(t)
    BY <1>1, <2>1
  <2>3. IsReply(q[j]) /\ \A k \in (j + 1)..Len(q) : ~IsReply(q[k])
    BY <1>0, <1>1, <1>2, <2>1, <2>2
  <2>4. RoomOf(q[j]) = m
    BY <1>1, <2>1, <2>3 DEF RoomQueue
  <2> QED BY <1>1, <2>1, <2>4
<1>3. ASSUME s, \A k \in DOMAIN t : ~IsReply(t[k])
      PROVE  n = m
  <2>1. \A k \in DOMAIN q : ~IsReply(q[k])
    <3>1. \A k \in DOMAIN q : k \in DOMAIN t /\ t[k] = q[k]
      BY <1>1
    <3> QED BY <1>3, <3>1
  <2> QED BY <1>3, <2>1 DEF RoomQueue
<1>4. RoomQueue(t, n, s, m)
  BY <1>2, <1>3 DEF RoomQueue
<1> QED BY <1>4 DEF t

\* t is what is left of the queue q when its first packet is taken, or lost.
FirstGone(q, t) ==
    /\ q \in Seq(Packet) /\ t \in Seq(Packet) /\ q # << >> /\ Len(t) = Len(q) - 1
    /\ \A k \in 1..(Len(q) - 1) : t[k] = q[k + 1]

LEMMA RoomFirstTaken ==
    ASSUME NEW q, NEW t, FirstGone(q, t), NEW n, NEW s, NEW m, RoomQueue(q, n, s, m)
    PROVE  /\ IsReply(q[1]) => \A x : RoomQueue(t, RoomOf(q[1]), x, m)
           /\ ~IsReply(q[1]) => RoomQueue(t, n, s, m)
           /\ \A x : RoomQueue(t, x, FALSE, m)
<1> DEFINE z == Len(q)
<1>1. /\ z \in Nat /\ z > 0 /\ Len(t) = z - 1 /\ DOMAIN t = 1..(z - 1) /\ DOMAIN q = 1..z
      /\ \A k \in 1..(z - 1) : t[k] = q[k + 1]
  BY DEF FirstGone
<1>0. Len(q) = z
  OBVIOUS
<1> HIDE DEF z
<1>2. ASSUME NEW j \in DOMAIN t, IsReply(t[j]), \A k \in (j + 1)..Len(t) : ~IsReply(t[k])
      PROVE  RoomOf(t[j]) = m
  <2>1. j \in 1..(z - 1) /\ j + 1 \in 1..z /\ t[j] = q[j + 1]
    BY <1>1
  <2>2. ASSUME NEW k \in (j + 1 + 1)..z PROVE ~IsReply(q[k])
    <3>1. k - 1 \in (j + 1)..Len(t) /\ k - 1 \in 1..(z - 1) /\ (k - 1) + 1 = k
      BY <1>1, <2>1
    <3>2. t[k - 1] = q[k]
      BY <1>1, <3>1
    <3> QED BY <1>2, <3>1, <3>2
  <2>3. IsReply(q[j + 1])
    BY <1>2, <2>1
  <2> QED BY <1>0, <1>1, <2>1, <2>2, <2>3 DEF RoomQueue
<1>3. ASSUME \A k \in DOMAIN t : ~IsReply(t[k])
      PROVE  \A k \in 2..z : ~IsReply(q[k])
  <2>1. ASSUME NEW k \in 2..z PROVE ~IsReply(q[k])
    <3>1. k - 1 \in 1..(z - 1) /\ (k - 1) + 1 = k
      BY <1>1
    <3> QED BY <1>1, <1>3, <3>1
  <2> QED BY <2>1
<1>4. ASSUME IsReply(q[1]), \A k \in DOMAIN t : ~IsReply(t[k])
      PROVE  RoomOf(q[1]) = m
  <2>1. 1 \in DOMAIN q /\ 1 + 1 = 2
    BY <1>1
  <2> QED BY <1>0, <1>3, <1>4, <2>1 DEF RoomQueue
<1>5. ASSUME ~IsReply(q[1]), s, \A k \in DOMAIN t : ~IsReply(t[k])
      PROVE  n = m
  <2>1. \A k \in DOMAIN q : k = 1 \/ k \in 2..z
    BY <1>1
  <2> QED BY <1>3, <1>5, <2>1 DEF RoomQueue
<1> QED BY <1>2, <1>4, <1>5 DEF RoomQueue

\* Likewise for the list.
LEMMA ListAtEnd ==
    ASSUME NEW p, NEW q \in Seq(Packet), NEW pkt \in Packet, NEW l, NEW s, NEW R,
           ListOf(p, pkt) = R, pkt.type = "u" => R # {}
    PROVE  ListQueue(p, Append(q, pkt), l, s, R)
<1> DEFINE t == Append(q, pkt)
<1>1. t # << >> /\ t[Len(t)] = pkt
  BY AppendFacts
<1> HIDE DEF t
<1>2. ListQueue(p, t, l, s, R)
  BY <1>1 DEF ListQueue
<1> QED BY <1>2 DEF t

LEMMA ListFirstTaken ==
    ASSUME NEW p, NEW q, NEW t, FirstGone(q, t), NEW l, NEW s, NEW R, ListQueue(p, q, l, s, R)
    PROVE  /\ q[1].type = "u" /\ q[1].list = {} => ListQueue(p, t, l, s, R)
           /\ \A x : ListQueue(p, t, ListOf(p, q[1]), x, R)
           /\ \A x : ListQueue(p, t, x, FALSE, R)
<1> DEFINE z == Len(q)
<1>1. /\ z \in Nat /\ z > 0 /\ Len(t) = z - 1 /\ DOMAIN t = 1..(z - 1)
      /\ \A k \in 1..(z - 1) : t[k] = q[k + 1]
      /\ t = << >> => z = 1
  BY DEF FirstGone
<1>0. Len(q) = z /\ t \in Seq(Packet) /\ q # << >>
  BY DEF FirstGone
<1> HIDE DEF z
<1>2. ASSUME t # << >> PROVE t[Len(t)] = q[z]
  <2>1. Len(t) # 0
    BY <1>0, <1>2
  <2>2. z - 1 \in 1..(z - 1) /\ (z - 1) + 1 = z
    BY <1>1, <2>1
  <2> QED BY <1>1, <2>2
<1>3. ListOf(p, q[z]) = R /\ (q[z].type = "u" => R # {})
  BY <1>0 DEF ListQueue
<1>4. ~(t = << >> /\ q[1].type = "u" /\ q[1].list = {})
  BY <1>1, <1>3 DEF ListOf
<1>5. t = << >> => ListOf(p, q[1]) = R
  BY <1>1, <1>3
<1> QED BY <1>2, <1>3, <1>4, <1>5 DEF ListQueue

LEMMA FirstGoneFacts ==
    ASSUME NEW q \in Seq(Packet), q # << >>
    PROVE  /\ FirstGone(q, Tail(q)) /\ FirstGone(q, RemoveAt(q, 1))
           /\ 1 \in DOMAIN q /\ q[1] \in Packet
<1>1. Len(q) \in Nat /\ Len(q) >= 1 /\ 1 \in 1..Len(q) /\ DOMAIN q = 1..Len(q)
  OBVIOUS
<1>2. FirstGone(q, Tail(q))
  BY <1>1 DEF FirstGone
<1>3. /\ RemoveAt(q, 1) \in Seq(Packet) /\ Len(RemoveAt(q, 1)) = Len(q) - 1
      /\ \A k \in 1..(Len(q) - 1) : RemoveAt(q, 1)[k] = IF k < 1 THEN q[k] ELSE q[k + 1]
  BY <1>1, RemoveAtFacts
<1>4. \A k \in 1..(Len(q) - 1) : ~(k < 1)
  BY <1>1
<1>5. FirstGone(q, RemoveAt(q, 1))
  BY <1>3, <1>4 DEF FirstGone
<1> QED BY <1>1, <1>2, <1>5

(***************************************************************************)
(* What a step does to the threads.                                        *)
(***************************************************************************)
LEMMA ThreadFacts ==
    ASSUME NEW t \in Threads
    PROVE  /\ Other(t) \in Threads /\ Other(t) # t /\ Other(Other(t)) = t
           /\ \A u \in Threads : u = t \/ u = Other(t)
BY DEF Threads, Other

LEMMA TaskFacts ==
    ASSUME NEW k \in Task
    PROVE  /\ k.pc \in {"idle", "find", "change", "reply", "copy", "send"}
           /\ k.op \in {"none", "c", "j", "l", "old"}
           /\ k.peer \in Peer \cup {NoPeer}
           /\ k.room \in RoomNumbers \cup {0} /\ k.old \in RoomNumbers \cup {0}
           /\ k.list \in Lists /\ k.done \in SUBSET Client /\ k.table \in {"own", "shared"}
BY DEF Task

LEMMA IdleFacts ==
    /\ Idle \in Task /\ Idle.pc = "idle" /\ Idle.op = "none" /\ Idle.peer = NoPeer /\ Idle.room = 0
    /\ Idle.old = 0 /\ Idle.list = {} /\ Idle.done = {} /\ Idle.table = "own"
BY DEF Idle, Task, Lists

\* The record k has these fields.
Fields(k, pc, op, p, r, old, l, d, tb) ==
    /\ k \in Task
    /\ k.pc = pc /\ k.op = op /\ k.peer = p /\ k.room = r /\ k.old = old
    /\ k.list = l /\ k.done = d /\ k.table = tb

\* Thread t has moved on, and the other has not.
Moved(t, pc, op, p, r, old, l, d) ==
    /\ task' \in [Threads -> Task]
    /\ task'[Other(t)] = task[Other(t)]
    /\ Fields(task'[t], pc, op, p, r, old, l, d, task[t].table)

Ended(t) ==
    /\ task' \in [Threads -> Task] /\ task'[Other(t)] = task[Other(t)]
    /\ task'[t] = Idle

LEMMA BeginMoves ==
    ASSUME task \in [Threads -> Task], NEW t \in Threads, NEW p \in Peer, NEW r \in RoomNumbers,
           NEW op \in {"c", "j", "l"}, NEW pc \in {"find", "change"}, Begin(t, p, op, r, pc)
    PROVE  /\ task' \in [Threads -> Task]
           /\ Fields(task'[t], pc, op, p, r, 0, {}, {}, TableOf(t))
           /\ LET k == task[Other(t)]
              IN  Fields(task'[Other(t)], k.pc, k.op, k.peer, k.room, k.old, k.list, k.done, TableOf(t))
<1> DEFINE o == Other(t)
           tb == TableOf(t)
           new == [Idle EXCEPT !.pc = pc, !.op = op, !.peer = p, !.room = r, !.table = tb]
<1>1. tb \in {"own", "shared"}
  BY DEF TableOf
<1>2. o \in Threads /\ o # t /\ \A u \in Threads : u = t \/ u = o
  BY ThreadFacts
<1>3. task' = [task EXCEPT ![t] = new, ![o].table = tb]
  BY DEF Begin
<1> HIDE DEF tb, o
<1>4. Fields(new, pc, op, p, r, 0, {}, {}, tb)
  BY <1>1 DEF Fields, Idle, Task, Lists
<1> HIDE DEF new
<1>5. task'[t] = new /\ task'[o] = [task[o] EXCEPT !.table = tb] /\ DOMAIN task' = Threads
  BY <1>2, <1>3
<1> DEFINE k == task[o]
           k2 == [k EXCEPT !.table = tb]
<1>6. k \in Task
  BY <1>2
<1> HIDE DEF k
<1>7. Fields(k2, k.pc, k.op, k.peer, k.room, k.old, k.list, k.done, tb)
  BY <1>1, <1>6 DEF Fields, Task
<1>8. task' = [u \in Threads |-> task'[u]]
  BY <1>3
<1>9. \A u \in Threads : task'[u] \in Task
  BY <1>2, <1>4, <1>5, <1>7 DEF Fields, k
<1>10. task' \in [Threads -> Task]
  BY <1>8, <1>9
<1> QED BY <1>4, <1>5, <1>7, <1>10 DEF tb, o, k

\* The record of one thread is replaced.
LEMMA OneMoves ==
    ASSUME task \in [Threads -> Task], NEW t \in Threads, NEW k \in Task,
           task' = [task EXCEPT ![t] = k]
    PROVE  task' \in [Threads -> Task] /\ task'[Other(t)] = task[Other(t)] /\ task'[t] = k
BY ThreadFacts

LEMMA FindMoves ==
    ASSUME task \in [Threads -> Task], member \in [Peer -> RoomNumbers \cup {0}], FindEntry,
           NEW k, k = task["main"], k.peer \in Peer
    PROVE  \/ /\ member[k.peer] = 0 \/ (k.op = "j" /\ member[k.peer] # k.room)
              /\ Moved("main", "change", k.op, k.peer, k.room, member[k.peer], k.list, k.done)
           \/ Ended("main")
<1> DEFINE old == member[k.peer]
           go == old = 0 \/ (k.op = "j" /\ old # k.room)
           k2 == [k EXCEPT !.pc = "change", !.old = old]
<1>1. "main" \in Threads /\ k \in Task /\ old \in RoomNumbers \cup {0}
  BY DEF Threads
<1>2. task' = [task EXCEPT !["main"] = IF go THEN k2 ELSE Idle]
  BY Zenon DEF FindEntry
<1> HIDE DEF old, go
<1>3. Fields(k2, "change", k.op, k.peer, k.room, old, k.list, k.done, k.table)
  BY <1>1 DEF Fields, Task
<1> HIDE DEF k2
<1>4. CASE go
  <2>1. task' = [task EXCEPT !["main"] = k2]
    BY <1>2, <1>4, Zenon
  <2>2. Moved("main", "change", k.op, k.peer, k.room, old, k.list, k.done)
    BY <1>1, <1>3, <2>1, OneMoves DEF Moved, Fields
  <2> QED BY <1>4, <2>2 DEF go, old
<1>5. CASE ~go
  <2>1. task' = [task EXCEPT !["main"] = Idle]
    BY <1>2, <1>5, Zenon
  <2> QED BY <1>1, <2>1, OneMoves, IdleFacts DEF Ended
<1> QED BY <1>4, <1>5

LEMMA AddMoves ==
    ASSUME task \in [Threads -> Task], AddEntry, NEW k, k = task["main"]
    PROVE  Moved("main", IF k.op = "c" THEN "reply" ELSE "copy",
                 k.op, k.peer, k.room, k.old, k.list, k.done)
<1> DEFINE pc == IF k.op = "c" THEN "reply" ELSE "copy"
           k2 == [k EXCEPT !.pc = pc]
<1>1. "main" \in Threads /\ k \in Task /\ pc \in {"reply", "copy"}
  BY DEF Threads
<1>2. task' = [task EXCEPT !["main"].pc = pc]
  BY DEF AddEntry
<1> HIDE DEF pc
<1>3. Fields(k2, pc, k.op, k.peer, k.room, k.old, k.list, k.done, k.table)
  BY <1>1 DEF Fields, Task
<1>4. task' = [task EXCEPT !["main"] = k2]
  BY <1>2
<1> HIDE DEF k2
<1>5. Moved("main", pc, k.op, k.peer, k.room, k.old, k.list, k.done)
  BY <1>1, <1>3, <1>4, OneMoves DEF Moved, Fields
<1> QED BY <1>5 DEF pc

LEMMA DeleteMoves ==
    ASSUME task \in [Threads -> Task], NEW t \in Threads, DeleteEntry(t), NEW k, k = task[t]
    PROVE  Moved(t, "reply", k.op, k.peer, k.room, k.old, k.list, k.done)
<1> DEFINE k2 == [k EXCEPT !.pc = "reply"]
<1>1. k \in Task
  OBVIOUS
<1>2. task' = [task EXCEPT ![t] = k2]
  BY DEF DeleteEntry
<1>3. Fields(k2, "reply", k.op, k.peer, k.room, k.old, k.list, k.done, k.table)
  BY <1>1 DEF Fields, Task
<1> HIDE DEF k2
<1> QED BY <1>1, <1>2, <1>3, OneMoves DEF Moved, Fields

LEMMA ReplyMoves ==
    ASSUME task \in [Threads -> Task], NEW t \in Threads, SendReply(t), NEW k, k = task[t]
    PROVE  \/ k.op = "c" /\ Ended(t)
           \/ k.op # "c" /\ Moved(t, "copy", k.op, k.peer, k.room, k.old, k.list, k.done)
<1> DEFINE k2 == [k EXCEPT !.pc = "copy"]
<1>1. k \in Task
  OBVIOUS
<1>2. task' = [task EXCEPT ![t] = IF k.op = "c" THEN Idle ELSE k2]
  BY Zenon DEF SendReply
<1>3. Fields(k2, "copy", k.op, k.peer, k.room, k.old, k.list, k.done, k.table)
  BY <1>1 DEF Fields, Task
<1> HIDE DEF k2
<1>4. CASE k.op = "c"
  <2>1. task' = [task EXCEPT ![t] = Idle]
    BY <1>2, <1>4, Zenon
  <2> QED BY <1>4, <2>1, OneMoves, IdleFacts DEF Ended
<1>5. CASE k.op # "c"
  <2>1. task' = [task EXCEPT ![t] = k2]
    BY <1>2, <1>5, Zenon
  <2> QED BY <1>1, <1>3, <1>5, <2>1, OneMoves DEF Moved, Fields
<1> QED BY <1>4, <1>5

LEMMA CopyMoves ==
    ASSUME task \in [Threads -> Task], NEW t \in Threads, CopyRoom(t), NEW k, k = task[t]
    PROVE  \E L \in Rosters(t) : Moved(t, "send", k.op, k.peer, k.room, k.old, L, {})
<1>1. PICK L \in Rosters(t) :
        task' = [task EXCEPT ![t].pc = "send", ![t].list = L, ![t].done = {}]
  BY DEF CopyRoom
<1> DEFINE k2 == [k EXCEPT !.pc = "send", !.list = L, !.done = {}]
<1>2. k \in Task
  OBVIOUS
<1>3. L \in Lists
  BY DEF Rosters, Lists, Occupants
<1>4. Fields(k2, "send", k.op, k.peer, k.room, k.old, L, {}, k.table)
  BY <1>2, <1>3 DEF Fields, Task
<1>5. task' = [task EXCEPT ![t] = k2]
  BY <1>1
<1> HIDE DEF k2
<1> QED BY <1>2, <1>4, <1>5, OneMoves DEF Moved, Fields

LEMMA RosterMoves ==
    ASSUME task \in [Threads -> Task], NEW t \in Threads, NEW q \in Client, SendRoster(t, q),
           NEW k, k = task[t]
    PROVE  Moved(t, k.pc, k.op, k.peer, k.room, k.old, k.list, k.done \cup {q})
<1> DEFINE d == k.done \cup {q}
           k2 == [k EXCEPT !.done = d]
<1>1. k \in Task
  OBVIOUS
<1>2. task' = [task EXCEPT ![t] = k2]
  BY DEF SendRoster
<1>3. d \in SUBSET Client
  BY <1>1, TaskFacts
<1> HIDE DEF d
<1>4. Fields(k2, k.pc, k.op, k.peer, k.room, k.old, k.list, d, k.table)
  BY <1>1, <1>3 DEF Fields, Task
<1> HIDE DEF k2
<1>5. Moved(t, k.pc, k.op, k.peer, k.room, k.old, k.list, d)
  BY <1>1, <1>2, <1>4, OneMoves DEF Moved, Fields
<1> QED BY <1>5 DEF d

LEMMA SentMoves ==
    ASSUME task \in [Threads -> Task], NEW t \in Threads, RosterSent(t), NEW k, k = task[t]
    PROVE  \/ k.op = "j" /\ k.old # 0 /\ Moved(t, "copy", "old", k.peer, k.old, 0, {}, {})
           \/ ~(k.op = "j" /\ k.old # 0) /\ Ended(t)
<1> DEFINE k2 == [k EXCEPT !.pc = "copy", !.op = "old", !.room = k.old, !.old = 0, !.list = {}, !.done = {}]
<1>1. k \in Task
  OBVIOUS
<1>2. task' = [task EXCEPT ![t] = IF k.op = "j" /\ k.old # 0 THEN k2 ELSE Idle]
  BY Zenon DEF RosterSent
<1>3. Fields(k2, "copy", "old", k.peer, k.old, 0, {}, {}, k.table)
  BY <1>1 DEF Fields, Task, Lists
<1> HIDE DEF k2
<1>4. CASE k.op = "j" /\ k.old # 0
  <2>1. task' = [task EXCEPT ![t] = k2]
    BY <1>2, <1>4, Zenon
  <2> QED BY <1>1, <1>3, <1>4, <2>1, OneMoves DEF Moved, Fields
<1>5. CASE ~(k.op = "j" /\ k.old # 0)
  <2>1. task' = [task EXCEPT ![t] = Idle]
    BY <1>2, <1>5, Zenon
  <2> QED BY <1>5, <2>1, OneMoves, IdleFacts DEF Ended
<1> QED BY <1>4, <1>5

(***************************************************************************)
(* The parts of the invariant after a step.                                *)
(***************************************************************************)
LEMMA RoomsNext ==
    ASSUME \A p \in Client :
              ~failed' /\ ~reorders' /\ p \notin unsureRoom' /\ ~Owed(p)' =>
                  RoomQueue(packets'[p], room_num'[p], synced'[p], member'[p])
    PROVE  RoomsInOrder'
BY Zenon DEF RoomsInOrder, RoomQueue, IsReply, RoomOf

LEMMA ListsNext ==
    ASSUME \A p \in Client :
              ~failed' /\ ~reorders' /\ p \notin unsureList' /\ ~Due(p)' =>
                  ListQueue(p, packets'[p], peer_list'[p], synced'[p], Roster(p)')
    PROVE  ListsInOrder'
BY Zenon DEF ListsInOrder, ListQueue, ListOf

LEMMA OwedNext ==
    \A p : Owed(p)' <=> \E t \in Threads : OwedBy(task'[t], p)
BY Zenon DEF Owed, OwedBy

LEMMA DueNext ==
    \A p : Due(p)' <=> Owed(p)' \/ \E t \in Threads : DueBy(task'[t], p, member'[p])
BY Zenon DEF Due, DueBy

LEMMA MetNext ==
    ASSUME \A p \in Client :
             /\ member'[p] # 0 => {q \in Peer : member'[q] = member'[p]} \subseteq met'[p]
             /\ \A t \in Threads : task'[t].peer = p /\ task'[t].op = "c" /\ task'[t].pc = "reply"
                                     => p \in met'[p]
             /\ p \notin misled' =>
                  /\ peer_list'[p] \subseteq met'[p]
                  /\ \A j \in DOMAIN packets'[p] : ListOf(p, packets'[p][j]) \subseteq met'[p]
    PROVE  AllMet'
BY Zenon DEF AllMet, Occupants, ListOf

\* ThreadsKept, part by part, of the records tk of the threads, the membership mem
\* and the unsure rooms and lists ur and ul.
ShapeOf(t, k) ==
    \/ k = Idle
    \/ /\ k.peer \in Peer /\ k.room \in RoomNumbers
       /\ \/ k.op = "c" /\ k.pc \in {"find", "change", "reply"}
          \/ k.op = "j" /\ k.pc \in {"find", "change", "copy", "send"}
          \/ k.op = "l" /\ k.pc \in {"change", "reply", "copy", "send"}
          \/ k.op = "old" /\ k.pc \in {"copy", "send"}
       /\ k.op # "l" => t = "main"
       /\ k.pc # "send" => k.done = {}

AloneOf(k, o, mem) ==
    k.table = "own" =>
        /\ k.pc # "idle" => o.pc = "idle"
        /\ k.op = "c" /\ k.pc \in {"find", "change"} => {p \in Peer : mem[p] = k.room} = {}
        /\ k.op = "c" /\ k.pc = "change" => mem[k.peer] = 0
        /\ k.op = "c" /\ k.pc = "reply" => {p \in Peer : mem[p] = k.room} = {k.peer}
        /\ k.op = "j" /\ k.pc = "change" => mem[k.peer] = k.old
        /\ k.pc = "send" => k.list = {p \in Peer : mem[p] = k.room}

TrustedOf(k, mem, ur) ==
    k.table = "own" \/ k.peer \in Client \ ur =>
        /\ k.op = "c" /\ k.pc = "reply" => mem[k.peer] = k.room
        /\ k.op = "l" /\ k.pc = "reply" => mem[k.peer] = 0
        /\ k.op = "j" /\ k.pc \in {"copy", "send"} => mem[k.peer] = k.room
        /\ k.op = "j" /\ k.pc = "send" => k.peer \in k.list

KeptOf(t, k, o, mem, ur, ul) ==
    /\ ShapeOf(t, k) /\ AloneOf(k, o, mem) /\ TrustedOf(k, mem, ur)
    /\ k.table # "own" => ul = Client
    /\ k.peer = o.peer /\ k.peer \in Client => k.peer \in ur

LEMMA KeptNow ==
    ASSUME ThreadsKept, NEW t \in Threads
    PROVE  KeptOf(t, task[t], task[Other(t)], member, unsureRoom, unsureList)
<1>1. TaskShape(t) /\ TaskAlone(t) /\ TaskTrusted(t) /\ (~Alone(t) => unsureList = Client)
  BY DEF ThreadsKept
<1>2. ShapeOf(t, task[t])
  BY <1>1, Zenon DEF TaskShape, ShapeOf
<1>3. AloneOf(task[t], task[Other(t)], member)
  BY <1>1, Zenon DEF TaskAlone, AloneOf, Alone, Busy, Occupants
<1>4. TrustedOf(task[t], member, unsureRoom)
  BY <1>1, Zenon DEF TaskTrusted, TrustedOf, Trusted, Alone
<1>5. task[t].peer = task[Other(t)].peer /\ task[t].peer \in Client => task[t].peer \in unsureRoom
  BY DEF ThreadsKept, Threads, Other
<1> QED BY <1>1, <1>2, <1>3, <1>4, <1>5 DEF KeptOf, Alone

LEMMA KeptNext ==
    ASSUME \A t \in Threads : KeptOf(t, task'[t], task'[Other(t)], member', unsureRoom', unsureList')
    PROVE  ThreadsKept'
<1>1. ASSUME NEW t \in Threads
      PROVE  TaskShape(t)' /\ TaskAlone(t)' /\ TaskTrusted(t)' /\ (~Alone(t)' => unsureList' = Client)
  <2>0. KeptOf(t, task'[t], task'[Other(t)], member', unsureRoom', unsureList')
    OBVIOUS
  <2>1. TaskShape(t)'
    BY <2>0, Zenon DEF KeptOf, TaskShape, ShapeOf
  <2>2. TaskAlone(t)'
    BY <2>0, Zenon DEF KeptOf, TaskAlone, AloneOf, Alone, Busy, Occupants, Other
  <2>3. TaskTrusted(t)'
    BY <2>0, Zenon DEF KeptOf, TaskTrusted, TrustedOf, Trusted, Alone
  <2>4. ~Alone(t)' => unsureList' = Client
    BY <2>0, Zenon DEF KeptOf, Alone
  <2> QED BY <2>1, <2>2, <2>3, <2>4
<1>2. task'["main"].peer = task'["output"].peer /\ task'["main"].peer \in Client =>
        task'["main"].peer \in unsureRoom'
  <2>1. "main" \in Threads /\ Other("main") = "output"
    BY DEF Threads, Other
  <2> QED BY <2>1 DEF KeptOf
<1> QED BY <1>1, <1>2 DEF ThreadsKept

\* An idle thread is as it should be, whatever the other is at.
LEMMA IdleKept ==
    ASSUME NEW t, NEW o, NEW mem, NEW ur, NEW ul
    PROVE  KeptOf(t, Idle, o, mem, ur, ul)
<1>1. ShapeOf(t, Idle)
  BY DEF ShapeOf
<1>2. AloneOf(Idle, o, mem) /\ TrustedOf(Idle, mem, ur)
  BY IdleFacts DEF AloneOf, TrustedOf
<1>3. NoPeer \notin Client
  BY ChatAssumption
<1> QED BY <1>1, <1>2, <1>3, IdleFacts DEF KeptOf

\* A thread is idle, or at work on some peer.
LEMMA IdleOrBusy ==
    ASSUME NEW t, NEW k, ShapeOf(t, k)
    PROVE  /\ k = Idle <=> k.pc = "idle"
           /\ k # Idle => k.peer \in Peer /\ k.peer # NoPeer /\ k.room \in RoomNumbers
BY IdleFacts, ChatAssumption DEF ShapeOf

\* What one thread does leaves what the other knows as it is.
LEMMA OtherKept ==
    ASSUME NEW t \in Threads, NEW k, NEW k2, NEW o, NEW mem, NEW mem2, NEW ur, NEW ur2, NEW ul, NEW ul2,
           KeptOf(t, k, o, mem, ur, ul), KeptOf(Other(t), o, k, mem, ur, ul),
           k # Idle, k2.peer \in {k.peer, NoPeer},
           \A p \in Peer : p # k.peer => mem2[p] = mem[p],
           k.table # "own" => ur2 = ur /\ ul2 = ul
    PROVE  /\ KeptOf(Other(t), o, k2, mem2, ur2, ul2)
           /\ k2.peer = o.peer /\ k2.peer \in Client => k2.peer \in ur2
           /\ k.table = "own" => o = Idle
<1>1. NoPeer \notin Client /\ Client \subseteq Peer
  BY ChatAssumption
<1>2. /\ k = Idle <=> k.pc = "idle"
      /\ o = Idle <=> o.pc = "idle"
  BY IdleOrBusy DEF KeptOf
<1>3. k.table = "own" => o = Idle
  BY <1>2 DEF KeptOf, AloneOf
<1>4. CASE o = Idle
  <2>1. KeptOf(Other(t), o, k2, mem2, ur2, ul2)
    BY <1>4, IdleKept
  <2> QED BY <1>1, <1>3, <1>4, <2>1, IdleFacts
<1>5. CASE o # Idle
  <2>1. k.table # "own" /\ o.table # "own" /\ ur2 = ur /\ ul2 = ul
    BY <1>2, <1>3, <1>5 DEF KeptOf, AloneOf
  <2>2. ASSUME o.peer \in Client \ ur PROVE mem2[o.peer] = mem[o.peer]
    BY <1>1, <2>2 DEF KeptOf
  <2>3. TrustedOf(o, mem2, ur2)
    <3>1. CASE o.peer \in Client \ ur
      BY <2>1, <2>2, <3>1 DEF KeptOf, TrustedOf
    <3>2. CASE o.peer \notin Client \ ur
      BY <2>1, <3>2 DEF TrustedOf
    <3> QED BY <3>1, <3>2
  <2>4. AloneOf(o, k2, mem2)
    BY <2>1 DEF AloneOf
  <2>5. (k2.peer = o.peer /\ k2.peer \in Client) => k2.peer \in ur2
    BY <1>1, <2>1 DEF KeptOf
  <2> QED BY <1>3, <2>1, <2>3, <2>4, <2>5 DEF KeptOf
<1> QED BY <1>4, <1>5

\* A step of one thread keeps what both know, if it keeps what this one knows.
LEMMA StepKept ==
    ASSUME ThreadsKept, NEW t \in Threads, task[t] # Idle,
           task'[Other(t)] = task[Other(t)], task'[t].peer \in {task[t].peer, NoPeer},
           \A p \in Peer : p # task[t].peer => member'[p] = member[p],
           ~Alone(t) => UNCHANGED <<unsureRoom, unsureList>>,
           task'[t] = Idle \/ task'[t].table = task[t].table,
           ShapeOf(t, task'[t]),
           Alone(t) => AloneOf(task'[t], Idle, member'),
           TrustedOf(task'[t], member', unsureRoom')
    PROVE  ThreadsKept'
<1> DEFINE k == task[t]
           k2 == task'[t]
           o == task[Other(t)]
<1>1. Other(t) \in Threads /\ Other(Other(t)) = t /\ \A u \in Threads : u = t \/ u = Other(t)
  BY ThreadFacts
<1>2. /\ KeptOf(t, k, o, member, unsureRoom, unsureList)
      /\ KeptOf(Other(t), o, k, member, unsureRoom, unsureList)
  BY <1>1, KeptNow
<1>3. k.table # "own" => unsureRoom' = unsureRoom /\ unsureList' = unsureList
  BY DEF Alone
<1>4. /\ KeptOf(Other(t), o, k2, member', unsureRoom', unsureList')
      /\ k2.peer = o.peer /\ k2.peer \in Client => k2.peer \in unsureRoom'
      /\ k.table = "own" => o = Idle
  <2> HIDE DEF k, k2, o
  <2>1. k # Idle /\ k2.peer \in {k.peer, NoPeer} /\ \A p \in Peer : p # k.peer => member'[p] = member[p]
    BY DEF k, k2
  <2> QED BY <1>2, <1>3, <2>1, OtherKept
<1>5. CASE k2 = Idle
  <2>1. KeptOf(t, k2, o, member', unsureRoom', unsureList')
    BY <1>5, IdleKept
  <2> QED BY <1>1, <1>4, <2>1, KeptNext
<1>6. CASE k2 # Idle
  <2>1. AloneOf(k2, o, member')
    <3>1. CASE k.table = "own"
      BY <1>4, <3>1 DEF Alone
    <3>2. CASE k.table # "own"
      BY <1>6, <3>2 DEF AloneOf
    <3> QED BY <3>1, <3>2
  <2>2. k2.table # "own" => unsureList' = Client
    BY <1>2, <1>3, <1>6 DEF KeptOf
  <2>3. KeptOf(t, k2, o, member', unsureRoom', unsureList')
    BY <1>4, <2>1, <2>2 DEF KeptOf
  <2> QED BY <1>1, <1>4, <2>3, KeptNext
<1> QED BY <1>5, <1>6

(***************************************************************************)
(* Every step keeps ThreadsKept.                                           *)
(***************************************************************************)
\* What is known before a step of thread t, which is at work.
LEMMA BusyFacts ==
    ASSUME TypeOK, ThreadsKept, NEW t \in Threads, NEW k, k = task[t], k.pc # "idle"
    PROVE  /\ k \in Task /\ k # Idle /\ k.peer \in Peer /\ k.peer # NoPeer /\ k.room \in RoomNumbers
           /\ ShapeOf(t, k) /\ TrustedOf(k, member, unsureRoom)
           /\ AloneOf(k, task[Other(t)], member)
           /\ Alone(t) => task[Other(t)] = Idle
           /\ ~Alone(t) => unsureList = Client
           /\ k.peer = task[Other(t)].peer /\ k.peer \in Client => k.peer \in unsureRoom
           /\ task \in [Threads -> Task]
<1>1. KeptOf(t, k, task[Other(t)], member, unsureRoom, unsureList)
  BY KeptNow
<1>2. Other(t) \in Threads
  BY ThreadFacts
<1>3. ShapeOf(Other(t), task[Other(t)])
  BY <1>2, KeptNow DEF KeptOf
<1>4. task[Other(t)] = Idle <=> task[Other(t)].pc = "idle"
  BY <1>3, IdleOrBusy
<1>5. k = Idle <=> k.pc = "idle"
  BY <1>1, IdleOrBusy DEF KeptOf
<1>6. task \in [Threads -> Task]
  BY DEF TypeOK
<1>7. k.peer \in Peer /\ k.peer # NoPeer /\ k.room \in RoomNumbers
  BY <1>1, <1>5, IdleOrBusy DEF KeptOf
<1> QED BY <1>1, <1>4, <1>5, <1>6, <1>7 DEF KeptOf, Alone, AloneOf

LEMMA BeginKept ==
    ASSUME TypeOK, ThreadsKept, NEW t \in Threads, NEW p \in Peer, NEW r \in RoomNumbers,
           NEW op \in {"c", "j", "l"}, NEW pc \in {"find", "change"}, Begin(t, p, op, r, pc),
           pc = "find" <=> op # "l", op # "l" => t = "main",
           op = "c" => Occupants(r) = {}
    PROVE  ThreadsKept'
<1> DEFINE o == Other(t)
           ko == task[o]
           k2 == task'[t]
           ko2 == task'[o]
           tb == TableOf(t)
<1>1. o \in Threads /\ Other(o) = t /\ \A u \in Threads : u = t \/ u = o
  BY ThreadFacts
<1>2. task \in [Threads -> Task]
  BY DEF TypeOK
<1>3. /\ Fields(k2, pc, op, p, r, 0, {}, {}, tb)
      /\ Fields(ko2, ko.pc, ko.op, ko.peer, ko.room, ko.old, ko.list, ko.done, tb)
  BY <1>2, BeginMoves
<1>4. KeptOf(o, ko, task[t], member, unsureRoom, unsureList)
  BY <1>1, KeptNow
<1>5. /\ member' = member
      /\ unsureRoom' = IF ko.peer = p THEN unsureRoom \cup ({p} \cap Client) ELSE unsureRoom
      /\ unsureList' = IF ko.pc # "idle" THEN Client ELSE unsureList
      /\ tb = IF ko.pc # "idle" THEN "shared" ELSE "own"
  BY DEF Begin, Busy, TableOf
<1>6. ko \in Task /\ (ko = Idle <=> ko.pc = "idle")
  BY <1>1, <1>2, <1>4, IdleOrBusy DEF KeptOf
<1>7. {x \in Peer : member[x] = r} = Occupants(r)
  BY DEF Occupants
<1> HIDE DEF ko, k2, ko2, tb, o
<1>8. KeptOf(t, k2, ko2, member', unsureRoom', unsureList')
  <2>1. ShapeOf(t, k2)
    BY <1>3 DEF ShapeOf, Fields
  <2>2. AloneOf(k2, ko2, member')
    BY <1>3, <1>5, <1>7 DEF AloneOf, Fields
  <2>3. TrustedOf(k2, member', unsureRoom')
    BY <1>3 DEF TrustedOf, Fields
  <2> QED BY <1>3, <1>5, <2>1, <2>2, <2>3 DEF KeptOf, Fields
<1>9. KeptOf(o, ko2, k2, member', unsureRoom', unsureList')
  <2>1. CASE ko = Idle
    <3>1. tb = "own" /\ ko.pc = "idle" /\ ko.op = "none" /\ ko.peer = NoPeer /\ ko.room = 0 /\ ko.old = 0
          /\ ko.list = {} /\ ko.done = {}
      BY <1>5, <1>6, <2>1, IdleFacts
    <3>2. ko2 = Idle
      BY <1>3, <3>1, IdleFacts DEF Fields, Task
    <3> QED BY <3>2, IdleKept
  <2>2. CASE ko # Idle
    <3>1. tb = "shared" /\ unsureList' = Client
      BY <1>5, <1>6, <2>2
    <3>2. ShapeOf(o, ko2)
      BY <1>3, <1>4, <2>2 DEF KeptOf, ShapeOf, Fields
    <3>3. AloneOf(ko2, k2, member')
      BY <1>3, <3>1 DEF AloneOf, Fields
    <3>4. ko.peer \in Client \ unsureRoom' => ko.peer \in Client \ unsureRoom
      BY <1>5
    <3>5. TrustedOf(ko2, member', unsureRoom')
      BY <1>3, <1>4, <1>5, <3>1, <3>4 DEF KeptOf, TrustedOf, Fields
    <3> QED BY <1>3, <1>5, <3>1, <3>2, <3>3, <3>5 DEF KeptOf, Fields
  <2> QED BY <2>1, <2>2
<1> QED BY <1>1, <1>8, <1>9, KeptNext DEF ko, k2, ko2, o

LEMMA FindKept ==
    ASSUME TypeOK, ThreadsKept, FindEntry
    PROVE  ThreadsKept'
<1> DEFINE t == "main"
           k == task[t]
           k2 == task'[t]
<1>1. t \in Threads /\ k.pc = "find" /\ member' = member /\ UNCHANGED <<unsureRoom, unsureList>>
  BY DEF Threads, FindEntry
<1>2. /\ k \in Task /\ k # Idle /\ k.peer \in Peer /\ k.room \in RoomNumbers
      /\ ShapeOf(t, k) /\ TrustedOf(k, member, unsureRoom) /\ AloneOf(k, task[Other(t)], member)
      /\ task \in [Threads -> Task] /\ member \in [Peer -> RoomNumbers \cup {0}]
  BY <1>1, BusyFacts DEF TypeOK
<1>3. \/ /\ member[k.peer] = 0 \/ (k.op = "j" /\ member[k.peer] # k.room)
         /\ Moved(t, "change", k.op, k.peer, k.room, member[k.peer], k.list, k.done)
      \/ Ended(t)
  BY <1>2, FindMoves
<1>4. CASE Ended(t)
  <2>1. k2 = Idle /\ task'[Other(t)] = task[Other(t)]
    BY <1>4 DEF Ended
  <2>2. ShapeOf(t, k2) /\ AloneOf(k2, Idle, member') /\ TrustedOf(k2, member', unsureRoom') /\ k2.peer = NoPeer
    BY <2>1, IdleFacts DEF ShapeOf, AloneOf, TrustedOf
  <2> QED BY <1>1, <1>2, <2>1, <2>2, StepKept
<1>5. CASE /\ member[k.peer] = 0 \/ (k.op = "j" /\ member[k.peer] # k.room)
           /\ Moved(t, "change", k.op, k.peer, k.room, member[k.peer], k.list, k.done)
  <2>1. /\ Fields(k2, "change", k.op, k.peer, k.room, member[k.peer], k.list, k.done, k.table)
        /\ task'[Other(t)] = task[Other(t)]
    BY <1>5 DEF Moved
  <2> HIDE DEF k, k2
  <2>2. ShapeOf(t, k2)
    BY <1>1, <1>2, <2>1 DEF ShapeOf, Fields
  <2>3. AloneOf(k2, Idle, member')
    BY <1>1, <1>2, <1>5, <2>1, IdleFacts DEF AloneOf, Fields, ShapeOf
  <2>4. TrustedOf(k2, member', unsureRoom')
    BY <2>1 DEF TrustedOf, Fields
  <2>5. k2.peer = k.peer /\ k2.table = k.table
    BY <2>1 DEF Fields
  <2> QED BY <1>1, <1>2, <2>1, <2>2, <2>3, <2>4, <2>5, StepKept DEF k, k2
<1> QED BY <1>3, <1>4, <1>5

LEMMA AddKept ==
    ASSUME TypeOK, ThreadsKept, AddEntry
    PROVE  ThreadsKept'
<1> DEFINE t == "main"
           k == task[t]
           k2 == task'[t]
           pc == IF k.op = "c" THEN "reply" ELSE "copy"
<1>1. /\ t \in Threads /\ k.pc = "change" /\ k.op # "l" /\ member' = [member EXCEPT ![k.peer] = k.room]
      /\ UNCHANGED <<unsureRoom, unsureList>>
  BY DEF Threads, AddEntry
<1>2. /\ k \in Task /\ k # Idle /\ k.peer \in Peer /\ k.room \in RoomNumbers
      /\ ShapeOf(t, k) /\ AloneOf(k, task[Other(t)], member)
      /\ task \in [Threads -> Task] /\ member \in [Peer -> RoomNumbers \cup {0}]
  BY <1>1, BusyFacts DEF TypeOK
<1>3. /\ Fields(k2, pc, k.op, k.peer, k.room, k.old, k.list, k.done, k.table)
      /\ task'[Other(t)] = task[Other(t)]
  BY <1>2, AddMoves DEF Moved
<1>4. \A p \in Peer : member'[p] = IF p = k.peer THEN k.room ELSE member[p]
  BY <1>1, <1>2
<1> HIDE DEF k, k2
<1>5. k.op \in {"c", "j"} /\ k.done = {} /\ (k.op = "c" => pc = "reply") /\ (k.op = "j" => pc = "copy")
  BY <1>1, <1>2, IdleFacts DEF ShapeOf
<1> HIDE DEF pc
<1>6. ShapeOf(t, k2)
  BY <1>2, <1>3, <1>5 DEF ShapeOf, Fields
<1>7. ASSUME k.table = "own", k.op = "c" PROVE {p \in Peer : member'[p] = k.room} = {k.peer}
  BY <1>1, <1>2, <1>4, <1>7 DEF AloneOf
<1>8. Alone(t) => AloneOf(k2, Idle, member')
  BY <1>3, <1>5, <1>7, IdleFacts DEF AloneOf, Fields, Alone
<1>9. TrustedOf(k2, member', unsureRoom')
  BY <1>2, <1>3, <1>4, <1>5 DEF TrustedOf, Fields
<1>10. k2.peer = k.peer /\ k2.table = k.table
  BY <1>3 DEF Fields
<1>11. \A p \in Peer : p # k.peer => member'[p] = member[p]
  BY <1>4
<1> QED BY <1>1, <1>2, <1>3, <1>6, <1>8, <1>9, <1>10, <1>11, StepKept DEF k, k2

LEMMA DeleteKept ==
    ASSUME TypeOK, ThreadsKept, NEW t \in Threads, DeleteEntry(t)
    PROVE  ThreadsKept'
<1> DEFINE k == task[t]
           k2 == task'[t]
<1>1. /\ k.pc = "change" /\ k.op = "l" /\ member' = [member EXCEPT ![k.peer] = 0]
      /\ UNCHANGED <<unsureRoom, unsureList>>
  BY DEF DeleteEntry
<1>2. /\ k \in Task /\ k # Idle /\ k.peer \in Peer /\ k.room \in RoomNumbers
      /\ ShapeOf(t, k)
      /\ task \in [Threads -> Task] /\ member \in [Peer -> RoomNumbers \cup {0}]
  BY <1>1, BusyFacts DEF TypeOK
<1>3. /\ Fields(k2, "reply", k.op, k.peer, k.room, k.old, k.list, k.done, k.table)
      /\ task'[Other(t)] = task[Other(t)]
  BY <1>2, DeleteMoves DEF Moved
<1>4. \A p \in Peer : member'[p] = IF p = k.peer THEN 0 ELSE member[p]
  BY <1>1, <1>2
<1> HIDE DEF k, k2
<1>6. ShapeOf(t, k2)
  BY <1>1, <1>2, <1>3 DEF ShapeOf, Fields
<1>8. AloneOf(k2, Idle, member')
  BY <1>1, <1>3, IdleFacts DEF AloneOf, Fields
<1>9. TrustedOf(k2, member', unsureRoom')
  BY <1>1, <1>2, <1>3, <1>4 DEF TrustedOf, Fields
<1>10. k2.peer = k.peer /\ k2.table = k.table
  BY <1>3 DEF Fields
<1>11. \A p \in Peer : p # k.peer => member'[p] = member[p]
  BY <1>4
<1> QED BY <1>1, <1>2, <1>3, <1>6, <1>8, <1>9, <1>10, <1>11, StepKept DEF k, k2

\* A thread that ends what it was at.
LEMMA EndKept ==
    ASSUME TypeOK, ThreadsKept, NEW t \in Threads, task[t] # Idle, Ended(t), member' = member,
           ~Alone(t) => UNCHANGED <<unsureRoom, unsureList>>
    PROVE  ThreadsKept'
<1>1. task'[t] = Idle /\ task'[Other(t)] = task[Other(t)]
  BY DEF Ended
<1>2. /\ ShapeOf(t, task'[t]) /\ AloneOf(task'[t], Idle, member')
      /\ TrustedOf(task'[t], member', unsureRoom') /\ task'[t].peer = NoPeer
  BY <1>1, IdleFacts DEF ShapeOf, AloneOf, TrustedOf
<1> QED BY <1>1, <1>2, StepKept

LEMMA ReplyKept ==
    ASSUME TypeOK, ThreadsKept, NEW t \in Threads, SendReply(t)
    PROVE  ThreadsKept'
<1> DEFINE k == task[t]
           k2 == task'[t]
<1>1. /\ k.pc = "reply" /\ member' = member
      /\ ~Alone(t) => UNCHANGED <<unsureRoom, unsureList>>
  BY DEF SendReply
<1>2. /\ k \in Task /\ k # Idle /\ k.peer \in Peer /\ k.room \in RoomNumbers
      /\ ShapeOf(t, k) /\ task \in [Threads -> Task]
  BY <1>1, BusyFacts
<1>3. \/ k.op = "c" /\ Ended(t)
      \/ k.op # "c" /\ Moved(t, "copy", k.op, k.peer, k.room, k.old, k.list, k.done)
  BY <1>2, ReplyMoves
<1>4. CASE Ended(t)
  BY <1>1, <1>2, <1>4, EndKept
<1>5. CASE k.op # "c" /\ Moved(t, "copy", k.op, k.peer, k.room, k.old, k.list, k.done)
  <2>1. /\ Fields(k2, "copy", k.op, k.peer, k.room, k.old, k.list, k.done, k.table)
        /\ task'[Other(t)] = task[Other(t)]
    BY <1>5 DEF Moved
  <2> HIDE DEF k, k2
  <2>2. k.op = "l" /\ k.done = {}
    BY <1>1, <1>2, <1>5, IdleFacts DEF ShapeOf
  <2>3. ShapeOf(t, k2)
    BY <1>2, <2>1, <2>2 DEF ShapeOf, Fields
  <2>4. AloneOf(k2, Idle, member') /\ TrustedOf(k2, member', unsureRoom')
    BY <2>1, <2>2, IdleFacts DEF AloneOf, TrustedOf, Fields
  <2>5. k2.peer = k.peer /\ k2.table = k.table
    BY <2>1 DEF Fields
  <2> QED BY <1>1, <1>2, <2>1, <2>3, <2>4, <2>5, StepKept DEF k, k2
<1> QED BY <1>3, <1>4, <1>5

LEMMA CopyKept ==
    ASSUME TypeOK, ThreadsKept, NEW t \in Threads, CopyRoom(t)
    PROVE  ThreadsKept'
<1> DEFINE k == task[t]
           k2 == task'[t]
           S == {p \in Peer : member[p] = k.room}
<1>1. k.pc = "copy" /\ member' = member /\ UNCHANGED <<unsureRoom, unsureList>>
  BY DEF CopyRoom
<1>2. /\ k \in Task /\ k # Idle /\ k.peer \in Peer /\ k.room \in RoomNumbers
      /\ ShapeOf(t, k) /\ TrustedOf(k, member, unsureRoom) /\ AloneOf(k, task[Other(t)], member)
      /\ task \in [Threads -> Task]
  BY <1>1, BusyFacts
<1>3. PICK L \in Rosters(t) : Moved(t, "send", k.op, k.peer, k.room, k.old, L, {})
  BY <1>2, CopyMoves
<1>4. /\ Fields(k2, "send", k.op, k.peer, k.room, k.old, L, {}, k.table)
      /\ task'[Other(t)] = task[Other(t)]
  BY <1>3 DEF Moved
<1>5. (k.table = "own" => L = S) /\ (t = "main" => S \subseteq L)
  BY <1>3 DEF Rosters, Straying, Alone, Occupants
<1>6. k.peer \in S <=> member[k.peer] = k.room
  BY <1>2
<1> HIDE DEF k, k2, S
<1>7. k.op \in {"j", "l", "old"} /\ (k.op # "l" => t = "main")
  BY <1>1, <1>2, IdleFacts DEF ShapeOf
<1>8. ShapeOf(t, k2)
  BY <1>2, <1>4, <1>7 DEF ShapeOf, Fields
<1>9. Alone(t) => AloneOf(k2, Idle, member')
  BY <1>1, <1>4, <1>5, IdleFacts DEF AloneOf, Fields, Alone, k, S
<1>10. TrustedOf(k2, member', unsureRoom')
  BY <1>1, <1>2, <1>4, <1>5, <1>6, <1>7 DEF TrustedOf, Fields
<1>11. k2.peer = k.peer /\ k2.table = k.table
  BY <1>4 DEF Fields
<1> QED BY <1>1, <1>2, <1>4, <1>8, <1>9, <1>10, <1>11, StepKept DEF k, k2

LEMMA RosterKept ==
    ASSUME TypeOK, ThreadsKept, NEW t \in Threads, NEW q \in Client, SendRoster(t, q)
    PROVE  ThreadsKept'
<1> DEFINE k == task[t]
           k2 == task'[t]
<1>1. /\ k.pc = "send" /\ member' = member
      /\ ~Alone(t) => UNCHANGED <<unsureRoom, unsureList>>
  BY DEF SendRoster
<1>2. /\ k \in Task /\ k # Idle /\ k.peer \in Peer /\ k.room \in RoomNumbers
      /\ ShapeOf(t, k) /\ TrustedOf(k, member, unsureRoom) /\ AloneOf(k, task[Other(t)], member)
      /\ task \in [Threads -> Task]
  BY <1>1, BusyFacts
<1>3. /\ Fields(k2, k.pc, k.op, k.peer, k.room, k.old, k.list, k.done \cup {q}, k.table)
      /\ task'[Other(t)] = task[Other(t)]
  BY <1>2, RosterMoves DEF Moved
<1> HIDE DEF k, k2
<1>4. ShapeOf(t, k2)
  BY <1>1, <1>2, <1>3, IdleFacts DEF ShapeOf, Fields
<1>5. AloneOf(k2, Idle, member')
  BY <1>1, <1>2, <1>3, IdleFacts DEF AloneOf, Fields
<1>6. k.table # "own" => unsureRoom' = unsureRoom
  BY <1>1 DEF Alone, k
<1>7. TrustedOf(k2, member', unsureRoom')
  BY <1>1, <1>2, <1>3, <1>6 DEF TrustedOf, Fields
<1>8. k2.peer = k.peer /\ k2.table = k.table
  BY <1>3 DEF Fields
<1> QED BY <1>1, <1>2, <1>3, <1>4, <1>5, <1>7, <1>8, StepKept DEF k, k2

LEMMA SentKept ==
    ASSUME TypeOK, ThreadsKept, NEW t \in Threads, RosterSent(t)
    PROVE  ThreadsKept'
<1> DEFINE k == task[t]
           k2 == task'[t]
<1>1. k.pc = "send" /\ member' = member /\ UNCHANGED <<unsureRoom, unsureList>>
  BY DEF RosterSent, RosterEnds
<1>2. /\ k \in Task /\ k # Idle /\ k.peer \in Peer
      /\ ShapeOf(t, k) /\ task \in [Threads -> Task]
  BY <1>1, BusyFacts
<1>3. \/ k.op = "j" /\ k.old # 0 /\ Moved(t, "copy", "old", k.peer, k.old, 0, {}, {})
      \/ Ended(t)
  BY <1>2, SentMoves
<1>4. CASE Ended(t)
  BY <1>1, <1>2, <1>4, EndKept
<1>5. CASE k.op = "j" /\ k.old # 0 /\ Moved(t, "copy", "old", k.peer, k.old, 0, {}, {})
  <2>1. /\ Fields(k2, "copy", "old", k.peer, k.old, 0, {}, {}, k.table)
        /\ task'[Other(t)] = task[Other(t)]
    BY <1>5 DEF Moved
  <2>2. k.old \in RoomNumbers
    BY <1>2, <1>5, TaskFacts
  <2> HIDE DEF k, k2
  <2>3. t = "main"
    BY <1>2, <1>5 DEF ShapeOf
  <2>4. ShapeOf(t, k2)
    BY <1>2, <2>1, <2>2, <2>3 DEF ShapeOf, Fields
  <2>5. AloneOf(k2, Idle, member') /\ TrustedOf(k2, member', unsureRoom')
    BY <2>1, IdleFacts DEF AloneOf, TrustedOf, Fields
  <2>6. k2.peer = k.peer /\ k2.table = k.table
    BY <2>1 DEF Fields
  <2> QED BY <1>1, <1>2, <2>1, <2>4, <2>5, <2>6, StepKept DEF k, k2
<1> QED BY <1>3, <1>4, <1>5

LEMMA AstrayKept ==
    ASSUME NEW t, Astray(t)
    PROVE  ThreadsKept'
<1>1. task' = [u \in Threads |-> Idle]
  BY DEF Astray
<1>2. \A u \in Threads : Other(u) \in Threads /\ task'[u] = Idle
  BY <1>1, ThreadFacts
<1>3. \A u \in Threads : KeptOf(u, task'[u], task'[Other(u)], member', unsureRoom', unsureList')
  BY <1>2, IdleKept
<1> QED BY <1>3, KeptNext

(***************************************************************************)
(* The tracker's steps keep the packets of every client in order.          *)
(***************************************************************************)
\* What a step of the tracker does for the room of client p: nothing, but for a
\* roster; or a reply is owed to p, or its room is not sure; or p is sent its room.
RoomStep(p) ==
    \/ /\ member'[p] = member[p]
       /\ p \notin unsureRoom' /\ ~Owed(p)' => p \notin unsureRoom /\ ~Owed(p)
       /\ \/ packets'[p] = packets[p]
          \/ \E pkt \in Packet : ~IsReply(pkt) /\ packets'[p] = Append(packets[p], pkt)
    \/ p \in unsureRoom' \/ Owed(p)'
    \/ \E pkt \in Packet :
          IsReply(pkt) /\ RoomOf(pkt) = member'[p] /\ packets'[p] = Append(packets[p], pkt)

LEMMA RoomStepKept ==
    ASSUME TypeOK, RoomsInOrder, ~failed, UNCHANGED clientVars, \A p \in Client : RoomStep(p)
    PROVE  RoomsInOrder'
<1>1. ASSUME NEW p \in Client, ~reorders', p \notin unsureRoom', ~Owed(p)'
      PROVE  RoomQueue(packets'[p], room_num'[p], synced'[p], member'[p])
  <2>1. packets[p] \in Seq(Packet) /\ RoomStep(p)
    BY DEF TypeOK
  <2>2. room_num'[p] = room_num[p] /\ synced'[p] = synced[p] /\ ~reorders
    BY <1>1 DEF clientVars
  <2>3. ASSUME p \notin unsureRoom, ~Owed(p)
        PROVE  RoomQueue(packets[p], room_num[p], synced[p], member[p])
    BY <2>2, <2>3 DEF RoomsInOrder
  <2>4. CASE /\ member'[p] = member[p] /\ p \notin unsureRoom /\ ~Owed(p)
             /\ packets'[p] = packets[p]
    BY <2>2, <2>3, <2>4
  <2>5. ASSUME member'[p] = member[p], p \notin unsureRoom, ~Owed(p), NEW pkt \in Packet,
               ~IsReply(pkt), packets'[p] = Append(packets[p], pkt)
        PROVE  RoomQueue(packets'[p], room_num'[p], synced'[p], member'[p])
    <3>1. RoomQueue(Append(packets[p], pkt), room_num[p], synced[p], member[p])
      BY <2>1, <2>3, <2>5, UpdateAtEnd
    <3> QED BY <2>2, <2>5, <3>1
  <2>6. ASSUME NEW pkt \in Packet, IsReply(pkt), RoomOf(pkt) = member'[p],
               packets'[p] = Append(packets[p], pkt)
        PROVE  RoomQueue(packets'[p], room_num'[p], synced'[p], member'[p])
    BY <2>1, <2>6, ReplyAtEnd
  <2> QED BY <1>1, <2>1, <2>4, <2>5, <2>6 DEF RoomStep
<1> QED BY <1>1, RoomsNext

\* The same for its list.
ListStep(p) ==
    \/ /\ Roster(p)' = Roster(p) /\ packets'[p] = packets[p]
       /\ p \notin unsureList' /\ ~Due(p)' => p \notin unsureList /\ ~Due(p)
    \/ p \in unsureList' \/ Due(p)'
    \/ \E pkt \in Packet :
          /\ ListOf(p, pkt) = Roster(p)' /\ (pkt.type = "u" => Roster(p)' # {})
          /\ packets'[p] = Append(packets[p], pkt)

LEMMA ListStepKept ==
    ASSUME TypeOK, ListsInOrder, ~failed, UNCHANGED clientVars, \A p \in Client : ListStep(p)
    PROVE  ListsInOrder'
<1>1. ASSUME NEW p \in Client, ~reorders', p \notin unsureList', ~Due(p)'
      PROVE  ListQueue(p, packets'[p], peer_list'[p], synced'[p], Roster(p)')
  <2>1. packets[p] \in Seq(Packet) /\ ListStep(p)
    BY DEF TypeOK
  <2>2. peer_list'[p] = peer_list[p] /\ synced'[p] = synced[p] /\ ~reorders
    BY <1>1 DEF clientVars
  <2>3. CASE /\ Roster(p)' = Roster(p) /\ p \notin unsureList /\ ~Due(p)
             /\ packets'[p] = packets[p]
    <3>1. ListQueue(p, packets[p], peer_list[p], synced[p], Roster(p))
      BY <2>2, <2>3 DEF ListsInOrder
    <3> QED BY <2>2, <2>3, <3>1
  <2>4. ASSUME NEW pkt \in Packet, ListOf(p, pkt) = Roster(p)', pkt.type = "u" => Roster(p)' # {},
               packets'[p] = Append(packets[p], pkt)
        PROVE  ListQueue(p, packets'[p], peer_list'[p], synced'[p], Roster(p)')
    BY <2>1, <2>4, ListAtEnd
  <2> QED BY <1>1, <2>1, <2>3, <2>4 DEF ListStep
<1> QED BY <1>1, ListsNext

\* Whether something is owed or due to p depends on the two threads.
LEMMA OwedDue ==
    ASSUME NEW t \in Threads
    PROVE  /\ \A p : Owed(p) <=> OwedBy(task[t], p) \/ OwedBy(task[Other(t)], p)
           /\ \A p : Owed(p)' <=> OwedBy(task'[t], p) \/ OwedBy(task'[Other(t)], p)
           /\ \A p : Due(p) <=> \/ Owed(p) \/ DueBy(task[t], p, member[p])
                                \/ DueBy(task[Other(t)], p, member[p])
           /\ \A p : Due(p)' <=> \/ Owed(p)' \/ DueBy(task'[t], p, member'[p])
                                 \/ DueBy(task'[Other(t)], p, member'[p])
<1>1. Other(t) \in Threads /\ \A u \in Threads : u = t \/ u = Other(t)
  BY ThreadFacts
<1>2. \A p : Owed(p) <=> \E u \in Threads : OwedBy(task[u], p)
  BY DEF Owed
<1>3. \A p : Due(p) <=> Owed(p) \/ \E u \in Threads : DueBy(task[u], p, member[p])
  BY DEF Due
<1> QED BY <1>1, <1>2, <1>3, OwedNext, DueNext

LEMMA IdleOwesNothing == \A p, m : ~OwedBy(Idle, p) /\ ~DueBy(Idle, p, m)
BY IdleFacts DEF OwedBy, DueBy

\* The roster of p, of the membership after a step.
LEMMA RosterNext ==
    /\ \A p : Roster(p) = IF member[p] = 0 THEN {} ELSE {q \in Peer : member[q] = member[p]}
    /\ \A p : Roster(p)' = IF member'[p] = 0 THEN {} ELSE {q \in Peer : member'[q] = member'[p]}
    /\ member' = member => \A p : Roster(p)' = Roster(p)
BY DEF Roster, Occupants

\* A client whose list is sure sees both threads idle, or this one alone at work.
LEMMA SureList ==
    ASSUME TypeOK, ThreadsKept, NEW t \in Threads, task[t].pc # "idle", NEW p \in Client,
           p \notin unsureList
    PROVE  Alone(t) /\ task[Other(t)] = Idle /\ task[t].table = "own"
BY BusyFacts DEF Alone

LEMMA BeginInOrder ==
    ASSUME TypeOK, ThreadsKept, RoomsInOrder, ListsInOrder, NEW t \in Threads, NEW p \in Peer,
           NEW r \in RoomNumbers, NEW op \in {"c", "j", "l"}, NEW pc \in {"find", "change"},
           Begin(t, p, op, r, pc)
    PROVE  RoomsInOrder' /\ ListsInOrder'
<1> DEFINE o == Other(t)
           k == task[t]
           ko == task[o]
           k2 == task'[t]
           ko2 == task'[o]
<1>1. o \in Threads /\ task \in [Threads -> Task]
  BY ThreadFacts DEF TypeOK
<1>2. /\ Fields(k2, pc, op, p, r, 0, {}, {}, TableOf(t))
      /\ Fields(ko2, ko.pc, ko.op, ko.peer, ko.room, ko.old, ko.list, ko.done, TableOf(t))
  BY <1>1, BeginMoves
<1>3. /\ ~failed /\ k.pc = "idle" /\ UNCHANGED <<member, packets>> /\ UNCHANGED clientVars
      /\ unsureRoom \subseteq unsureRoom'
      /\ unsureList' = IF ko.pc # "idle" THEN Client ELSE unsureList
  BY DEF Begin, Busy
<1>4. (k = Idle <=> k.pc = "idle") /\ (ko = Idle <=> ko.pc = "idle")
  BY <1>1, KeptNow, IdleOrBusy DEF KeptOf
<1>5. /\ \A q : Owed(q) <=> OwedBy(k, q) \/ OwedBy(ko, q)
      /\ \A q : Owed(q)' <=> OwedBy(k2, q) \/ OwedBy(ko2, q)
      /\ \A q : Due(q) <=> Owed(q) \/ DueBy(k, q, member[q]) \/ DueBy(ko, q, member[q])
      /\ \A q : Due(q)' <=> Owed(q)' \/ DueBy(k2, q, member'[q]) \/ DueBy(ko2, q, member'[q])
  BY OwedDue
<1> HIDE DEF k, ko, k2, ko2, o
<1>6. \A q : (OwedBy(ko2, q) <=> OwedBy(ko, q)) /\ ~OwedBy(k2, q) /\ ~OwedBy(k, q)
  BY <1>2, <1>3 DEF OwedBy, Fields
<1>7. \A q : Owed(q)' <=> Owed(q)
  BY <1>5, <1>6
<1>8. ASSUME NEW q \in Client PROVE RoomStep(q)
  BY <1>3, <1>7 DEF RoomStep
<1>9. ASSUME NEW q \in Client PROVE ListStep(q)
  <2>1. CASE ko.pc # "idle"
    BY <1>3, <2>1 DEF ListStep
  <2>2. CASE ko.pc = "idle"
    <3>1. ~Due(q)
      BY <1>3, <1>4, <1>5, <2>2, IdleOwesNothing
    <3>2. Roster(q)' = Roster(q)
      BY <1>3, RosterNext
    <3> QED BY <1>3, <2>2, <3>1, <3>2 DEF ListStep
  <2> QED BY <2>1, <2>2
<1> QED BY <1>3, <1>8, <1>9, RoomStepKept, ListStepKept

LEMMA FindInOrder ==
    ASSUME TypeOK, ThreadsKept, RoomsInOrder, ListsInOrder, FindEntry
    PROVE  RoomsInOrder' /\ ListsInOrder'
<1> DEFINE t == "main"
           k == task[t]
           ko == task[Other(t)]
           k2 == task'[t]
           ko2 == task'[Other(t)]
<1>1. /\ t \in Threads /\ ~failed /\ k.pc = "find" /\ UNCHANGED <<member, packets, unsureRoom, unsureList>>
      /\ UNCHANGED clientVars
  BY DEF Threads, FindEntry
<1>2. task \in [Threads -> Task] /\ member \in [Peer -> RoomNumbers \cup {0}] /\ k.peer \in Peer
  BY <1>1, BusyFacts DEF TypeOK
<1>3. k2.pc \in {"change", "idle"} /\ ko2 = ko
  BY <1>2, FindMoves, IdleFacts DEF Moved, Ended, Fields
<1>4. /\ \A q : Owed(q) <=> OwedBy(k, q) \/ OwedBy(ko, q)
      /\ \A q : Owed(q)' <=> OwedBy(k2, q) \/ OwedBy(ko2, q)
      /\ \A q : Due(q) <=> Owed(q) \/ DueBy(k, q, member[q]) \/ DueBy(ko, q, member[q])
  BY <1>1, OwedDue
<1>5. \A q \in Client : q \notin unsureList => ko = Idle
  BY <1>1, SureList
<1> HIDE DEF k, ko, k2, ko2
<1>6. \A q : ~OwedBy(k, q) /\ ~OwedBy(k2, q) /\ ~DueBy(k, q, member[q])
  BY <1>1, <1>3 DEF OwedBy, DueBy
<1>7. ASSUME NEW q \in Client PROVE RoomStep(q)
  BY <1>1, <1>3, <1>4, <1>6 DEF RoomStep
<1>8. ASSUME NEW q \in Client PROVE ListStep(q)
  <2>1. q \notin unsureList => ~Due(q)
    BY <1>4, <1>5, <1>6, IdleOwesNothing
  <2>2. Roster(q)' = Roster(q)
    BY <1>1, RosterNext
  <2> QED BY <1>1, <2>1, <2>2 DEF ListStep
<1> QED BY <1>1, <1>7, <1>8, RoomStepKept, ListStepKept

LEMMA AddInOrder ==
    ASSUME TypeOK, ThreadsKept, RoomsInOrder, ListsInOrder, AddEntry
    PROVE  RoomsInOrder' /\ ListsInOrder'
<1> DEFINE t == "main"
           k == task[t]
           ko == task[Other(t)]
           k2 == task'[t]
           ko2 == task'[Other(t)]
           pc == IF k.op = "c" THEN "reply" ELSE "copy"
<1>1. /\ t \in Threads /\ ~failed /\ k.pc = "change" /\ k.op # "l"
      /\ UNCHANGED <<packets, unsureRoom, unsureList>> /\ UNCHANGED clientVars
      /\ member' = [member EXCEPT ![k.peer] = k.room]
  BY DEF Threads, AddEntry
<1>2. /\ k \in Task /\ k # Idle /\ k.peer \in Peer /\ k.room \in RoomNumbers
      /\ ShapeOf(t, k) /\ AloneOf(k, ko, member)
      /\ task \in [Threads -> Task] /\ member \in [Peer -> RoomNumbers \cup {0}]
  BY <1>1, BusyFacts DEF TypeOK
<1>3. /\ Fields(k2, pc, k.op, k.peer, k.room, k.old, k.list, k.done, k.table)
      /\ ko2 = ko
  BY <1>2, AddMoves DEF Moved
<1>4. /\ \A q : Owed(q) <=> OwedBy(k, q) \/ OwedBy(ko, q)
      /\ \A q : Owed(q)' <=> OwedBy(k2, q) \/ OwedBy(ko2, q)
      /\ \A q : Due(q) <=> Owed(q) \/ DueBy(k, q, member[q]) \/ DueBy(ko, q, member[q])
      /\ \A q : Due(q)' <=> Owed(q)' \/ DueBy(k2, q, member'[q]) \/ DueBy(ko2, q, member'[q])
  BY <1>1, OwedDue
<1>5. \A q \in Client : q \notin unsureList => ko = Idle /\ k.table = "own"
  BY <1>1, SureList
<1>6. \A q \in Peer : member'[q] = IF q = k.peer THEN k.room ELSE member[q]
  BY <1>1, <1>2
<1> HIDE DEF k, ko, k2, ko2
<1>7. k.op \in {"c", "j"} /\ k.done = {} /\ (k.op = "c" => pc = "reply") /\ (k.op = "j" => pc = "copy")
  BY <1>1, <1>2, IdleFacts DEF ShapeOf
<1> HIDE DEF pc
<1>8. Client \subseteq Peer
  BY ChatAssumption
<1>9. OwedBy(k2, k.peer)
  BY <1>3, <1>7 DEF OwedBy, Fields
<1>10. \A q : ~OwedBy(k, q) /\ ~DueBy(k, q, member[q]) /\ (q # k.peer => ~OwedBy(k2, q))
  BY <1>1, <1>3 DEF OwedBy, DueBy, Fields
<1>11. ASSUME NEW q \in Client PROVE RoomStep(q)
  <2>1. CASE q = k.peer
    BY <1>4, <1>9, <2>1 DEF RoomStep
  <2>2. CASE q # k.peer
    BY <1>1, <1>3, <1>4, <1>6, <1>8, <1>10, <2>2 DEF RoomStep
  <2> QED BY <2>1, <2>2
<1>12. ASSUME NEW q \in Client PROVE ListStep(q)
  <2>1. CASE q = k.peer \/ q \in unsureList
    BY <1>1, <1>4, <1>9, <2>1 DEF ListStep
  <2>2. CASE q # k.peer /\ q \notin unsureList
    <3>1. ko = Idle /\ k.table = "own" /\ q \in Peer /\ member'[q] = member[q]
      BY <1>5, <1>6, <1>8, <2>2
    <3>2. ~Due(q)
      BY <1>4, <1>10, <3>1, IdleOwesNothing
    <3>3. CASE member[q] = 0
      <4>1. Roster(q)' = Roster(q)
        BY <3>1, <3>3, RosterNext
      <4> QED BY <1>1, <3>2, <4>1 DEF ListStep
    <3>4. CASE member[q] # 0 /\ member[q] # k.room /\ member[q] # member[k.peer]
      <4>1. {x \in Peer : member'[x] = member[q]} = {x \in Peer : member[x] = member[q]}
        BY <1>6, <3>4
      <4>2. Roster(q)' = Roster(q)
        BY <3>1, <3>4, <4>1, RosterNext
      <4> QED BY <1>1, <3>2, <4>2 DEF ListStep
    <3>5. CASE member[q] # 0 /\ (member[q] = k.room \/ member[q] = member[k.peer])
      <4>1. k.op = "j" /\ (member[q] = k.room \/ member[q] = k.old)
        BY <1>1, <1>2, <1>7, <3>1, <3>5 DEF AloneOf
      <4>2. DueBy(k2, q, member'[q])
        BY <1>3, <1>7, <3>1, <3>5, <4>1 DEF DueBy, Fields
      <4> QED BY <1>4, <4>2 DEF ListStep
    <3> QED BY <3>3, <3>4, <3>5
  <2> QED BY <2>1, <2>2
<1> QED BY <1>1, <1>11, <1>12, RoomStepKept, ListStepKept

LEMMA DeleteInOrder ==
    ASSUME TypeOK, ThreadsKept, RoomsInOrder, ListsInOrder, NEW t \in Threads, DeleteEntry(t)
    PROVE  RoomsInOrder' /\ ListsInOrder'
<1> DEFINE k == task[t]
           ko == task[Other(t)]
           k2 == task'[t]
           ko2 == task'[Other(t)]
<1>1. /\ ~failed /\ k.pc = "change" /\ k.op = "l" /\ member[k.peer] = k.room
      /\ UNCHANGED <<packets, unsureRoom, unsureList>> /\ UNCHANGED clientVars
      /\ member' = [member EXCEPT ![k.peer] = 0]
  BY DEF DeleteEntry
<1>2. /\ k \in Task /\ k # Idle /\ k.peer \in Peer /\ k.room \in RoomNumbers
      /\ task \in [Threads -> Task] /\ member \in [Peer -> RoomNumbers \cup {0}]
  BY <1>1, BusyFacts DEF TypeOK
<1>3. /\ Fields(k2, "reply", k.op, k.peer, k.room, k.old, k.list, k.done, k.table)
      /\ ko2 = ko
  BY <1>2, DeleteMoves DEF Moved
<1>4. /\ \A q : Owed(q) <=> OwedBy(k, q) \/ OwedBy(ko, q)
      /\ \A q : Owed(q)' <=> OwedBy(k2, q) \/ OwedBy(ko2, q)
      /\ \A q : Due(q) <=> Owed(q) \/ DueBy(k, q, member[q]) \/ DueBy(ko, q, member[q])
      /\ \A q : Due(q)' <=> Owed(q)' \/ DueBy(k2, q, member'[q]) \/ DueBy(ko2, q, member'[q])
  BY <1>1, OwedDue
<1>5. \A q \in Client : q \notin unsureList => ko = Idle /\ k.table = "own"
  BY <1>1, SureList
<1>6. \A q \in Peer : member'[q] = IF q = k.peer THEN 0 ELSE member[q]
  BY <1>1, <1>2
<1> HIDE DEF k, ko, k2, ko2
<1>8. Client \subseteq Peer
  BY ChatAssumption
<1>9. OwedBy(k2, k.peer)
  BY <1>3 DEF OwedBy, Fields
<1>10. \A q : ~OwedBy(k, q) /\ ~DueBy(k, q, member[q]) /\ (q # k.peer => ~OwedBy(k2, q))
  BY <1>1, <1>3 DEF OwedBy, DueBy, Fields
<1>11. ASSUME NEW q \in Client PROVE RoomStep(q)
  <2>1. CASE q = k.peer
    BY <1>4, <1>9, <2>1 DEF RoomStep
  <2>2. CASE q # k.peer
    BY <1>1, <1>3, <1>4, <1>6, <1>8, <1>10, <2>2 DEF RoomStep
  <2> QED BY <2>1, <2>2
<1>12. ASSUME NEW q \in Client PROVE ListStep(q)
  <2>1. CASE q = k.peer \/ q \in unsureList
    BY <1>1, <1>4, <1>9, <2>1 DEF ListStep
  <2>2. CASE q # k.peer /\ q \notin unsureList
    <3>1. ko = Idle /\ q \in Peer /\ member'[q] = member[q]
      BY <1>5, <1>6, <1>8, <2>2
    <3>2. ~Due(q)
      BY <1>4, <1>10, <3>1, IdleOwesNothing
    <3>3. CASE member[q] = 0
      <4>1. Roster(q)' = Roster(q)
        BY <3>1, <3>3, RosterNext
      <4> QED BY <1>1, <3>2, <4>1 DEF ListStep
    <3>4. CASE member[q] # 0 /\ member[q] # k.room
      <4>1. {x \in Peer : member'[x] = member[q]} = {x \in Peer : member[x] = member[q]}
        BY <1>1, <1>6, <3>4
      <4>2. Roster(q)' = Roster(q)
        BY <3>1, <3>4, <4>1, RosterNext
      <4> QED BY <1>1, <3>2, <4>2 DEF ListStep
    <3>5. CASE member[q] # 0 /\ member[q] = k.room
      <4>1. DueBy(k2, q, member'[q])
        BY <1>1, <1>3, <3>1, <3>5 DEF DueBy, Fields
      <4> QED BY <1>4, <4>1 DEF ListStep
    <3> QED BY <3>3, <3>4, <3>5
  <2> QED BY <2>1, <2>2
<1> QED BY <1>1, <1>11, <1>12, RoomStepKept, ListStepKept

LEMMA SentFacts ==
    ASSUME TypeOK, NEW p, NEW pkt \in Packet, packets' = Sent(p, pkt)
    PROVE  /\ packets' \in [Client -> Seq(Packet)]
           /\ \A q \in Client : packets'[q] = IF q = p THEN Append(packets[q], pkt) ELSE packets[q]
<1>1. packets' = [q \in Client |-> IF q = p THEN Append(packets[q], pkt) ELSE packets[q]]
  BY DEF Sent
<1>2. \A q \in Client : packets[q] \in Seq(Packet) /\ Append(packets[q], pkt) \in Seq(Packet)
  BY AppendFacts DEF TypeOK
<1> QED BY <1>1, <1>2

LEMMA ReplyInOrder ==
    ASSUME TypeOK, ThreadsKept, RoomsInOrder, ListsInOrder, NEW t \in Threads, SendReply(t)
    PROVE  RoomsInOrder' /\ ListsInOrder'
<1> DEFINE k == task[t]
           ko == task[Other(t)]
           k2 == task'[t]
           ko2 == task'[Other(t)]
           pkt == IF k.op = "c" THEN [type |-> "c", room |-> k.room] ELSE [type |-> "l"]
<1>1. /\ ~failed /\ k.pc = "reply" /\ member' = member
      /\ packets' = Sent(k.peer, pkt)
      /\ unsureRoom' = IF Alone(t) THEN unsureRoom \ {k.peer} ELSE unsureRoom
      /\ unsureList' = IF Alone(t) THEN unsureList \ {k.peer} ELSE unsureList
      /\ UNCHANGED clientVars
  BY DEF SendReply
<1>2. /\ k \in Task /\ k # Idle /\ k.peer \in Peer /\ k.room \in RoomNumbers
      /\ ShapeOf(t, k) /\ AloneOf(k, ko, member) /\ TrustedOf(k, member, unsureRoom)
      /\ task \in [Threads -> Task] /\ (~Alone(t) => unsureList = Client)
      /\ (Alone(t) => ko = Idle) /\ (Alone(t) <=> k.table = "own")
  BY <1>1, BusyFacts DEF Alone
<1>3. /\ ko2 = ko
      /\ \/ k.op = "c" /\ k2 = Idle
         \/ k.op # "c" /\ Fields(k2, "copy", k.op, k.peer, k.room, k.old, k.list, k.done, k.table)
  BY <1>2, ReplyMoves DEF Moved, Ended
<1>4. /\ \A q : Owed(q) <=> OwedBy(k, q) \/ OwedBy(ko, q)
      /\ \A q : Owed(q)' <=> OwedBy(k2, q) \/ OwedBy(ko2, q)
      /\ \A q : Due(q) <=> Owed(q) \/ DueBy(k, q, member[q]) \/ DueBy(ko, q, member[q])
      /\ \A q : Due(q)' <=> Owed(q)' \/ DueBy(k2, q, member'[q]) \/ DueBy(ko2, q, member'[q])
  BY <1>1, OwedDue
<1>5. k.room # 0
  BY <1>2, RoomFacts
<1> HIDE DEF k, ko, k2, ko2
<1>6. k.op \in {"c", "l"} /\ k.done = {}
  BY <1>1, <1>2, IdleFacts DEF ShapeOf
<1>7. /\ pkt \in Packet /\ IsReply(pkt) /\ pkt.type # "u"
      /\ RoomOf(pkt) = (IF k.op = "c" THEN k.room ELSE 0)
      /\ \A q : ListOf(q, pkt) = IF k.op = "c" THEN {q} ELSE {}
  <2>1. CASE k.op = "c"
    BY <1>2, <2>1 DEF Packet, IsReply, RoomOf, ListOf
  <2>2. CASE k.op = "l"
    BY <2>2 DEF Packet, IsReply, RoomOf, ListOf
  <2> QED BY <1>6, <2>1, <2>2
<1> HIDE DEF pkt
<1>8. \A q \in Client : packets'[q] = IF q = k.peer THEN Append(packets[q], pkt) ELSE packets[q]
  BY <1>1, <1>7, SentFacts
<1>9. \A q : q # k.peer => ~OwedBy(k, q) /\ ~OwedBy(k2, q)
  BY <1>3, IdleOwesNothing DEF OwedBy, Fields
<1>10. ASSUME NEW q \in Client PROVE RoomStep(q)
  <2>1. CASE q = k.peer /\ q \in unsureRoom'
    BY <2>1 DEF RoomStep
  <2>2. CASE q = k.peer /\ q \notin unsureRoom'
    <3>1. k.table = "own" \/ k.peer \in Client \ unsureRoom
      BY <1>1, <1>2, <2>2
    <3>2. RoomOf(pkt) = member[q]
      BY <1>1, <1>2, <1>6, <1>7, <2>2, <3>1 DEF TrustedOf
    <3> QED BY <1>1, <1>7, <1>8, <2>2, <3>2 DEF RoomStep
  <2>3. CASE q # k.peer
    BY <1>1, <1>3, <1>4, <1>8, <1>9, <2>3 DEF RoomStep
  <2> QED BY <2>1, <2>2, <2>3
<1>11. ASSUME NEW q \in Client PROVE ListStep(q)
  <2>1. CASE q \in unsureList'
    BY <2>1 DEF ListStep
  <2>2. CASE q \notin unsureList'
    <3>1. k.table = "own" /\ Alone(t) /\ ko = Idle
      BY <1>1, <1>2, <2>2
    <3>2. CASE q = k.peer
      <4>1. Roster(q)' = IF k.op = "c" THEN {q} ELSE {}
        BY <1>1, <1>2, <1>5, <1>6, <3>1, <3>2, RosterNext DEF AloneOf, TrustedOf
      <4> QED BY <1>7, <1>8, <3>2, <4>1 DEF ListStep
    <3>3. CASE q # k.peer
      <4>1. q \notin unsureList
        BY <1>1, <2>2, <3>3
      <4>2. DueBy(k, q, member[q]) => DueBy(k2, q, member'[q])
        BY <1>1, <1>3, <1>6 DEF DueBy, Fields
      <4>3. Due(q) => Due(q)'
        BY <1>3, <1>4, <1>9, <3>1, <3>3, <4>2, IdleOwesNothing
      <4>4. Roster(q)' = Roster(q)
        BY <1>1, RosterNext
      <4> QED BY <1>8, <3>3, <4>1, <4>3, <4>4 DEF ListStep
    <3> QED BY <3>2, <3>3
  <2> QED BY <2>1, <2>2
<1> QED BY <1>1, <1>10, <1>11, RoomStepKept, ListStepKept

LEMMA CopyInOrder ==
    ASSUME TypeOK, ThreadsKept, RoomsInOrder, ListsInOrder, NEW t \in Threads, CopyRoom(t)
    PROVE  RoomsInOrder' /\ ListsInOrder'
<1> DEFINE k == task[t]
           ko == task[Other(t)]
           k2 == task'[t]
           ko2 == task'[Other(t)]
<1>1. /\ ~failed /\ k.pc = "copy"
      /\ UNCHANGED <<member, packets, unsureRoom, unsureList>> /\ UNCHANGED clientVars
  BY DEF CopyRoom
<1>2. k # Idle /\ ShapeOf(t, k) /\ task \in [Threads -> Task]
  BY <1>1, BusyFacts
<1>3. PICK L \in Rosters(t) : Moved(t, "send", k.op, k.peer, k.room, k.old, L, {})
  BY <1>2, CopyMoves
<1>4. ko2 = ko /\ Fields(k2, "send", k.op, k.peer, k.room, k.old, L, {}, k.table)
  BY <1>3 DEF Moved
<1>5. /\ \A q : Owed(q) <=> OwedBy(k, q) \/ OwedBy(ko, q)
      /\ \A q : Owed(q)' <=> OwedBy(k2, q) \/ OwedBy(ko2, q)
      /\ \A q : Due(q) <=> Owed(q) \/ DueBy(k, q, member[q]) \/ DueBy(ko, q, member[q])
      /\ \A q : Due(q)' <=> Owed(q)' \/ DueBy(k2, q, member'[q]) \/ DueBy(ko2, q, member'[q])
  BY <1>1, OwedDue
<1> HIDE DEF k, ko, k2, ko2
<1>6. k.done = {}
  BY <1>1, <1>2, IdleFacts DEF ShapeOf
<1>7. \A q : OwedBy(k, q) <=> OwedBy(k2, q)
  BY <1>1, <1>4, <1>6 DEF OwedBy, Fields
<1>8. \A q : DueBy(k, q, member[q]) => DueBy(k2, q, member'[q])
  BY <1>1, <1>4 DEF DueBy, Fields
<1>9. ASSUME NEW q \in Client PROVE RoomStep(q)
  BY <1>1, <1>4, <1>5, <1>7 DEF RoomStep
<1>10. ASSUME NEW q \in Client PROVE ListStep(q)
  <2>1. Due(q) => Due(q)'
    BY <1>1, <1>4, <1>5, <1>7, <1>8
  <2>2. Roster(q)' = Roster(q)
    BY <1>1, RosterNext
  <2> QED BY <1>1, <2>1, <2>2 DEF ListStep
<1> QED BY <1>1, <1>9, <1>10, RoomStepKept, ListStepKept

LEMMA RosterInOrder ==
    ASSUME TypeOK, ThreadsKept, RoomsInOrder, ListsInOrder, NEW t \in Threads, NEW x \in Client,
           SendRoster(t, x)
    PROVE  RoomsInOrder' /\ ListsInOrder'
<1> DEFINE k == task[t]
           ko == task[Other(t)]
           k2 == task'[t]
           ko2 == task'[Other(t)]
           reply == k.op = "j" /\ x = k.peer
           pkt == IF reply THEN [type |-> "j", room |-> k.room, list |-> k.list]
                           ELSE [type |-> "u", list |-> k.list]
<1>1. /\ ~failed /\ k.pc = "send" /\ member' = member
      /\ member[x] = k.room \/ ~Alone(t)
      /\ packets' = Sent(x, pkt)
      /\ unsureRoom' = IF Alone(t) /\ reply THEN unsureRoom \ {x} ELSE unsureRoom
      /\ unsureList' = IF Alone(t) THEN unsureList \ {x} ELSE unsureList
      /\ UNCHANGED clientVars
  BY DEF SendRoster
<1>2. /\ k \in Task /\ k # Idle /\ k.peer \in Peer /\ k.room \in RoomNumbers
      /\ ShapeOf(t, k) /\ AloneOf(k, ko, member) /\ TrustedOf(k, member, unsureRoom)
      /\ task \in [Threads -> Task] /\ (~Alone(t) => unsureList = Client)
      /\ (Alone(t) => ko = Idle) /\ (Alone(t) <=> k.table = "own")
  BY <1>1, BusyFacts DEF Alone
<1>3. ko2 = ko /\ Fields(k2, k.pc, k.op, k.peer, k.room, k.old, k.list, k.done \cup {x}, k.table)
  BY <1>2, RosterMoves DEF Moved
<1>4. /\ \A q : Owed(q) <=> OwedBy(k, q) \/ OwedBy(ko, q)
      /\ \A q : Owed(q)' <=> OwedBy(k2, q) \/ OwedBy(ko2, q)
      /\ \A q : Due(q) <=> Owed(q) \/ DueBy(k, q, member[q]) \/ DueBy(ko, q, member[q])
      /\ \A q : Due(q)' <=> Owed(q)' \/ DueBy(k2, q, member'[q]) \/ DueBy(ko2, q, member'[q])
  BY <1>1, OwedDue
<1>5. k.room # 0 /\ k.list \in Lists /\ x \in Peer
  BY <1>2, RoomFacts, TaskFacts, ChatAssumption
<1> HIDE DEF k, ko, k2, ko2, reply
<1>6. /\ pkt \in Packet /\ (IsReply(pkt) <=> reply)
      /\ pkt.list = k.list /\ \A q : ListOf(q, pkt) = k.list
      /\ reply /\ k.list # {} => RoomOf(pkt) = k.room
  <2>1. CASE reply
    BY <1>2, <1>5, <2>1 DEF Packet, IsReply, RoomOf, ListOf
  <2>2. CASE ~reply
    BY <1>5, <2>2 DEF Packet, IsReply, RoomOf, ListOf
  <2> QED BY <2>1, <2>2
<1> HIDE DEF pkt
<1>7. \A q \in Client : packets'[q] = IF q = x THEN Append(packets[q], pkt) ELSE packets[q]
  BY <1>1, <1>6, SentFacts
<1>8. \A q : q # x \/ ~reply => (OwedBy(k, q) <=> OwedBy(k2, q))
  BY <1>1, <1>3 DEF OwedBy, Fields, reply
<1>9. ASSUME NEW q \in Client PROVE RoomStep(q)
  <2>1. CASE q = x /\ reply /\ q \in unsureRoom'
    BY <2>1 DEF RoomStep
  <2>2. CASE q = x /\ reply /\ q \notin unsureRoom'
    <3>1. k.table = "own" \/ k.peer \in Client \ unsureRoom
      BY <1>1, <1>2, <2>2 DEF reply
    <3>2. member[k.peer] = k.room /\ k.peer \in k.list
      BY <1>1, <1>2, <2>2, <3>1 DEF TrustedOf, reply
    <3>3. RoomOf(pkt) = member'[q]
      BY <1>1, <1>6, <2>2, <3>2 DEF reply
    <3> QED BY <1>6, <1>7, <2>2, <3>3 DEF RoomStep
  <2>3. CASE q = x /\ ~reply
    <3>1. Owed(q)' <=> Owed(q)
      BY <1>3, <1>4, <1>8, <2>3
    <3> QED BY <1>1, <1>6, <1>7, <2>3, <3>1 DEF RoomStep
  <2>4. CASE q # x
    <3>1. Owed(q)' <=> Owed(q)
      BY <1>3, <1>4, <1>8, <2>4
    <3> QED BY <1>1, <1>7, <2>4, <3>1 DEF RoomStep
  <2> QED BY <2>1, <2>2, <2>3, <2>4
<1>10. ASSUME NEW q \in Client PROVE ListStep(q)
  <2>1. CASE q \in unsureList'
    BY <2>1 DEF ListStep
  <2>2. CASE q \notin unsureList'
    <3>1. k.table = "own" /\ Alone(t) /\ ko = Idle
      BY <1>1, <1>2, <2>2
    <3>2. CASE q = x
      <4>1. member'[q] = k.room /\ k.list = {p \in Peer : member'[p] = k.room}
        BY <1>1, <1>2, <3>1, <3>2 DEF AloneOf
      <4>2. Roster(q)' = k.list /\ q \in k.list
        BY <1>5, <3>2, <4>1, RosterNext
      <4> QED BY <1>6, <1>7, <3>2, <4>2 DEF ListStep
    <3>3. CASE q # x
      <4>1. q \notin unsureList
        BY <1>1, <2>2, <3>3
      <4>2. DueBy(k, q, member[q]) => DueBy(k2, q, member'[q])
        BY <1>1, <1>3, <3>3 DEF DueBy, Fields
      <4>3. Due(q) => Due(q)'
        BY <1>3, <1>4, <1>8, <3>1, <3>3, <4>2, IdleOwesNothing
      <4>4. Roster(q)' = Roster(q)
        BY <1>1, RosterNext
      <4> QED BY <1>7, <3>3, <4>1, <4>3, <4>4 DEF ListStep
    <3> QED BY <3>2, <3>3
  <2> QED BY <2>1, <2>2
<1> QED BY <1>1, <1>9, <1>10, RoomStepKept, ListStepKept

LEMMA SentInOrder ==
    ASSUME TypeOK, ThreadsKept, RoomsInOrder, ListsInOrder, NEW t \in Threads, RosterSent(t)
    PROVE  RoomsInOrder' /\ ListsInOrder'
<1> DEFINE k == task[t]
           ko == task[Other(t)]
           k2 == task'[t]
           ko2 == task'[Other(t)]
<1>1. /\ ~failed /\ k.pc = "send"
      /\ ~(t = "output" /\ ~Alone(t)) => {p \in Peer : member[p] = k.room} \cap Client \subseteq k.done
      /\ UNCHANGED <<member, packets, unsureRoom, unsureList>> /\ UNCHANGED clientVars
  BY DEF RosterSent, RosterEnds, Straying, Occupants
<1>2. /\ k \in Task /\ k # Idle /\ k.peer \in Peer /\ k.room \in RoomNumbers
      /\ ShapeOf(t, k) /\ TrustedOf(k, member, unsureRoom)
      /\ task \in [Threads -> Task]
  BY <1>1, BusyFacts
<1>3. /\ ko2 = ko
      /\ \/ k.op = "j" /\ k.old # 0 /\ Fields(k2, "copy", "old", k.peer, k.old, 0, {}, {}, k.table)
         \/ ~(k.op = "j" /\ k.old # 0) /\ k2 = Idle
  BY <1>2, SentMoves DEF Moved, Ended
<1>4. /\ \A q : Owed(q) <=> OwedBy(k, q) \/ OwedBy(ko, q)
      /\ \A q : Owed(q)' <=> OwedBy(k2, q) \/ OwedBy(ko2, q)
      /\ \A q : Due(q) <=> Owed(q) \/ DueBy(k, q, member[q]) \/ DueBy(ko, q, member[q])
      /\ \A q : Due(q)' <=> Owed(q)' \/ DueBy(k2, q, member'[q]) \/ DueBy(ko2, q, member'[q])
  BY <1>1, OwedDue
<1>5. \A q \in Client : q \notin unsureList => ko = Idle /\ k.table = "own" /\ Alone(t)
  BY <1>1, SureList
<1>6. Client \subseteq Peer
  BY ChatAssumption
<1> HIDE DEF k, ko, k2, ko2
<1>7. k.op = "j" => t = "main"
  BY <1>2, IdleFacts DEF ShapeOf
<1>8. ASSUME NEW q \in Client, k.table = "own" \/ q \notin unsureRoom
      PROVE  ~OwedBy(k, q)
  <2>1. SUFFICES ASSUME OwedBy(k, q) PROVE FALSE
    OBVIOUS
  <2>2. k.peer = q /\ k.op = "j" /\ q \notin k.done
    BY <1>1, <2>1 DEF OwedBy
  <2>3. member[q] = k.room
    BY <1>1, <1>2, <1>8, <2>2 DEF TrustedOf
  <2> QED BY <1>1, <1>6, <1>7, <2>2, <2>3
<1>9. \A q : ~OwedBy(k2, q)
  BY <1>3, IdleOwesNothing DEF OwedBy, Fields
<1>10. ASSUME NEW q \in Client PROVE RoomStep(q)
  BY <1>1, <1>3, <1>4, <1>8, <1>9 DEF RoomStep
<1>11. ASSUME NEW q \in Client PROVE ListStep(q)
  <2>1. ASSUME q \notin unsureList, Due(q) PROVE Due(q)'
    <3>1. ko = Idle /\ k.table = "own" /\ Alone(t)
      BY <1>5, <2>1
    <3>2. DueBy(k, q, member[q])
      BY <1>4, <1>8, <2>1, <3>1, IdleOwesNothing
    <3>3. ~(k.room = member[q] /\ q \notin k.done)
      BY <1>1, <1>6, <3>1
    <3>4. member[q] # 0 /\ k.old = member[q] /\ k.op = "j"
      BY <1>1, <3>2, <3>3 DEF DueBy
    <3>5. DueBy(k2, q, member'[q])
      BY <1>1, <1>3, <3>4 DEF DueBy, Fields
    <3> QED BY <1>4, <3>5
  <2>2. Roster(q)' = Roster(q)
    BY <1>1, RosterNext
  <2> QED BY <1>1, <2>1, <2>2 DEF ListStep
<1> QED BY <1>1, <1>10, <1>11, RoomStepKept, ListStepKept

LEMMA AstrayInOrder ==
    ASSUME NEW t, Astray(t)
    PROVE  RoomsInOrder' /\ ListsInOrder'
<1>1. failed'
  BY DEF Astray, Fail
<1> QED BY <1>1, RoomsNext, ListsNext

(***************************************************************************)
(* The tracker's steps keep AllMet.                                        *)
(***************************************************************************)
LEMMA MetNow ==
    ASSUME AllMet, NEW p \in Client
    PROVE  /\ member[p] # 0 => {q \in Peer : member[q] = member[p]} \subseteq met[p]
           /\ \A t \in Threads : task[t].peer = p /\ task[t].op = "c" /\ task[t].pc = "reply" => p \in met[p]
           /\ p \notin misled => /\ peer_list[p] \subseteq met[p]
                                 /\ \A j \in DOMAIN packets[p] : ListOf(p, packets[p][j]) \subseteq met[p]
BY Zenon DEF AllMet, Occupants

\* A reply to a created room that is still to be sent was so before the step.
SameReplies ==
    \A t \in Threads : task'[t].op = "c" /\ task'[t].pc = "reply" =>
        task[t].op = "c" /\ task[t].pc = "reply" /\ task[t].peer = task'[t].peer

LEMMA SameMet ==
    ASSUME AllMet, UNCHANGED <<member, met, misled, packets, peer_list>>, SameReplies
    PROVE  AllMet'
<1>1. ASSUME NEW p \in Client
      PROVE  /\ member'[p] # 0 => {q \in Peer : member'[q] = member'[p]} \subseteq met'[p]
             /\ \A t \in Threads : task'[t].peer = p /\ task'[t].op = "c" /\ task'[t].pc = "reply"
                                     => p \in met'[p]
             /\ p \notin misled' =>
                  /\ peer_list'[p] \subseteq met'[p]
                  /\ \A j \in DOMAIN packets'[p] : ListOf(p, packets'[p][j]) \subseteq met'[p]
  BY MetNow DEF SameReplies
<1> QED BY <1>1, MetNext

\* The membership changes, and everyone meets the others in the room.
LEMMA MeetMet ==
    ASSUME TypeOK, AllMet, Meet, UNCHANGED <<misled, packets, peer_list>>, NEW x \in Peer,
           \A t \in Threads : task'[t].op = "c" /\ task'[t].pc = "reply" =>
               \/ task'[t].peer = x /\ member'[x] # 0
               \/ task[t].op = "c" /\ task[t].pc = "reply" /\ task[t].peer = task'[t].peer
    PROVE  AllMet'
<1>1. met' = [p \in Client |-> met[p] \cup {q \in Peer : member'[p] # 0 /\ member'[q] = member'[p]}]
  BY DEF Meet
<1>2. ASSUME NEW p \in Client
      PROVE  /\ met[p] \subseteq met'[p]
             /\ member'[p] # 0 => {q \in Peer : member'[q] = member'[p]} \subseteq met'[p]
  BY <1>1
<1>3. Client \subseteq Peer
  BY ChatAssumption
<1>4. ASSUME NEW p \in Client
      PROVE  /\ member'[p] # 0 => {q \in Peer : member'[q] = member'[p]} \subseteq met'[p]
             /\ \A t \in Threads : task'[t].peer = p /\ task'[t].op = "c" /\ task'[t].pc = "reply"
                                     => p \in met'[p]
             /\ p \notin misled' =>
                  /\ peer_list'[p] \subseteq met'[p]
                  /\ \A j \in DOMAIN packets'[p] : ListOf(p, packets'[p][j]) \subseteq met'[p]
  <2>1. ASSUME NEW t \in Threads, task'[t].peer = p, task'[t].op = "c", task'[t].pc = "reply"
        PROVE  p \in met'[p]
    <3>1. CASE task'[t].peer = x /\ member'[x] # 0
      BY <1>2, <1>3, <2>1, <3>1
    <3>2. CASE task[t].op = "c" /\ task[t].pc = "reply" /\ task[t].peer = task'[t].peer
      BY <1>2, <2>1, <3>2, MetNow
    <3> QED BY <2>1, <3>1, <3>2
  <2>2. p \notin misled' =>
          /\ peer_list'[p] \subseteq met'[p]
          /\ \A j \in DOMAIN packets'[p] : ListOf(p, packets'[p][j]) \subseteq met'[p]
    BY <1>2, MetNow
  <2> QED BY <1>2, <2>1, <2>2
<1> QED BY <1>4, MetNext

\* Client x is sent a packet that names only whom it has met, or it is misled.
LEMMA SentMet ==
    ASSUME TypeOK, AllMet, NEW x, NEW pkt \in Packet, packets' = Sent(x, pkt),
           UNCHANGED <<member, met, peer_list>>, misled \subseteq misled', SameReplies,
           x \in Client /\ x \notin misled' => ListOf(x, pkt) \subseteq met[x]
    PROVE  AllMet'
<1>1. \A q \in Client : packets'[q] = IF q = x THEN Append(packets[q], pkt) ELSE packets[q]
  BY SentFacts
<1>2. ASSUME NEW p \in Client, p \notin misled', NEW j \in DOMAIN packets'[p]
      PROVE  ListOf(p, packets'[p][j]) \subseteq met'[p]
  <2>0. packets[p] \in Seq(Packet)
    BY DEF TypeOK
  <2>1. CASE p # x
    BY <1>1, <1>2, <2>1, MetNow
  <2>2. CASE p = x
    <3>1. packets'[p] = Append(packets[p], pkt)
      BY <1>1, <2>2
    <3>2. packets'[p][j] = pkt \/ (j \in DOMAIN packets[p] /\ packets'[p][j] = packets[p][j])
      BY <1>2, <2>0, <3>1, AppendFacts
    <3> QED BY <1>2, <2>2, <3>2, MetNow
  <2> QED BY <2>1, <2>2
<1>3. ASSUME NEW p \in Client
      PROVE  /\ member'[p] # 0 => {q \in Peer : member'[q] = member'[p]} \subseteq met'[p]
             /\ \A t \in Threads : task'[t].peer = p /\ task'[t].op = "c" /\ task'[t].pc = "reply"
                                     => p \in met'[p]
             /\ p \notin misled' =>
                  /\ peer_list'[p] \subseteq met'[p]
                  /\ \A j \in DOMAIN packets'[p] : ListOf(p, packets'[p][j]) \subseteq met'[p]
  BY <1>2, MetNow DEF SameReplies
<1> QED BY <1>3, MetNext

\* A thread moves without a new reply to a created room.
LEMMA MovedReplies ==
    ASSUME NEW t \in Threads, task'[Other(t)] = task[Other(t)], task'[t].pc # "reply" \/ task'[t].op # "c"
    PROVE  SameReplies
BY ThreadFacts DEF SameReplies

(***************************************************************************)
(* The tracker's steps keep the whole invariant.                           *)
(***************************************************************************)
LEMMA TrackerTypes ==
    ASSUME TypeOK, UNCHANGED clientVars, failed' \in BOOLEAN, tasks' \in 0..MaxTasks,
           task' \in [Threads -> Task], member' \in [Peer -> RoomNumbers \cup {0}],
           packets' \in [Client -> Seq(Packet)], met' \in [Client -> SUBSET Peer],
           unsureRoom' \subseteq Client, unsureList' \subseteq Client, misled' \subseteq Client
    PROVE  TypeOK'
<1>1. UNCHANGED room_num /\ UNCHANGED peer_list /\ UNCHANGED synced /\ UNCHANGED reorders
  BY DEF clientVars
<1> QED BY <1>1, Zenon DEF TypeOK

LEMMA TypeParts ==
    ASSUME TypeOK
    PROVE  /\ task \in [Threads -> Task] /\ member \in [Peer -> RoomNumbers \cup {0}]
           /\ packets \in [Client -> Seq(Packet)] /\ met \in [Client -> SUBSET Peer]
           /\ unsureRoom \subseteq Client /\ unsureList \subseteq Client /\ misled \subseteq Client
           /\ failed \in BOOLEAN /\ tasks \in 0..MaxTasks
BY DEF TypeOK

LEMMA MeetTypes ==
    ASSUME TypeOK, Meet
    PROVE  met' \in [Client -> SUBSET Peer]
<1>1. met' = [p \in Client |-> met[p] \cup {q \in Peer : member'[p] # 0 /\ member'[q] = member'[p]}]
  BY DEF Meet
<1>2. \A p \in Client : met[p] \cup {q \in Peer : member'[p] # 0 /\ member'[q] = member'[p]} \in SUBSET Peer
  BY DEF TypeOK
<1> QED BY <1>1, <1>2

LEMMA BeginInv ==
    ASSUME IInv, NEW t \in Threads, NEW p \in Peer, NEW r \in RoomNumbers,
           NEW op \in {"c", "j", "l"}, NEW pc \in {"find", "change"}, Begin(t, p, op, r, pc),
           pc = "find" <=> op # "l", op # "l" => t = "main", op = "c" => Occupants(r) = {}
    PROVE  IInv'
<1>0. TypeOK /\ ThreadsKept /\ RoomsInOrder /\ ListsInOrder /\ AllMet
  BY DEF IInv
<1>1. /\ task \in [Threads -> Task] /\ member \in [Peer -> RoomNumbers \cup {0}]
      /\ packets \in [Client -> Seq(Packet)] /\ met \in [Client -> SUBSET Peer]
      /\ unsureRoom \subseteq Client /\ unsureList \subseteq Client /\ misled \subseteq Client
      /\ failed \in BOOLEAN /\ tasks \in 0..MaxTasks
  BY <1>0, TypeParts
<1>2. /\ task' \in [Threads -> Task]
      /\ Fields(task'[t], pc, op, p, r, 0, {}, {}, TableOf(t))
      /\ LET k == task[Other(t)]
         IN  Fields(task'[Other(t)], k.pc, k.op, k.peer, k.room, k.old, k.list, k.done, TableOf(t))
  BY <1>1, BeginMoves
<1>3. /\ UNCHANGED <<member, met, misled, packets>> /\ UNCHANGED clientVars /\ failed' = failed
      /\ unsureRoom' \subseteq Client /\ unsureList' \subseteq Client
  BY <1>1 DEF Begin
<1>4. tasks' \in 0..MaxTasks
  <2>1. tasks < MaxTasks /\ tasks' = tasks + 1 /\ MaxTasks \in Nat
    BY ChatAssumption DEF Begin
  <2> QED BY <1>1, <2>1
<1>5. TypeOK'
  BY <1>0, <1>1, <1>2, <1>3, <1>4, TrackerTypes
<1>6. ThreadsKept'
  BY <1>0, BeginKept
<1>7. RoomsInOrder' /\ ListsInOrder'
  BY <1>0, BeginInOrder
<1>8. SameReplies
  <2>1. task'[t].pc # "reply"
    BY <1>2 DEF Fields
  <2>2. LET k == task[Other(t)]
            k2 == task'[Other(t)]
        IN  k2.pc = k.pc /\ k2.op = k.op /\ k2.peer = k.peer
    BY <1>2 DEF Fields
  <2> QED BY <2>1, <2>2, ThreadFacts DEF SameReplies
<1>9. AllMet'
  BY <1>0, <1>3, <1>8, SameMet DEF clientVars
<1> QED BY <1>5, <1>6, <1>7, <1>9 DEF IInv

LEMMA RequestInv ==
    ASSUME IInv, Requests
    PROVE  IInv'
<1>1. ASSUME NEW p \in Peer, peer_create_room(p) PROVE IInv'
  <2>1. PICK r \in FreeRooms : Begin("main", p, "c", r, "find")
    BY <1>1 DEF peer_create_room
  <2>2. r \in RoomNumbers /\ Occupants(r) = {} /\ "main" \in Threads
    BY RoomFacts DEF FreeRooms, Occupied, Occupants, Threads
  <2> QED BY <2>1, <2>2, BeginInv
<1>2. ASSUME NEW p \in Peer, NEW r \in RoomNumbers, peer_join(p, r) PROVE IInv'
  <2>1. Begin("main", p, "j", r, "find") /\ "main" \in Threads
    BY <1>2 DEF peer_join, Threads
  <2> QED BY <2>1, BeginInv
<1>3. ASSUME NEW p \in Peer, NEW t \in Threads, peer_leave(t, p) PROVE IInv'
  <2>1. Begin(t, p, "l", member[p], "change") /\ member[p] # 0
    BY <1>3 DEF peer_leave
  <2> DEFINE r == member[p]
  <2>2. r \in RoomNumbers /\ Begin(t, p, "l", r, "change")
    BY <2>1 DEF IInv, TypeOK
  <2> HIDE DEF r
  <2> QED BY <2>2, BeginInv
<1> QED BY <1>1, <1>2, <1>3 DEF Requests

LEMMA FindInv ==
    ASSUME IInv, FindEntry
    PROVE  IInv'
<1>0. TypeOK /\ ThreadsKept /\ RoomsInOrder /\ ListsInOrder /\ AllMet
  BY DEF IInv
<1>1. /\ "main" \in Threads /\ task["main"].pc = "find"
      /\ UNCHANGED <<member, met, misled, packets, unsureRoom, unsureList, tasks, failed>>
      /\ UNCHANGED clientVars
  BY DEF Threads, FindEntry
<1>2. task["main"].peer \in Peer /\ task \in [Threads -> Task] /\ member \in [Peer -> RoomNumbers \cup {0}]
  BY <1>0, <1>1, BusyFacts, TypeParts
<1>3. /\ task' \in [Threads -> Task] /\ task'[Other("main")] = task[Other("main")]
      /\ task'["main"].pc \in {"change", "idle"}
  BY <1>2, FindMoves, IdleFacts DEF Moved, Ended, Fields
<1>4. TypeOK'
  BY <1>0, <1>1, <1>3, TypeParts, TrackerTypes
<1>5. AllMet'
  BY <1>0, <1>1, <1>3, MovedReplies, SameMet DEF clientVars
<1> QED BY <1>0, <1>4, <1>5, FindKept, FindInOrder DEF IInv

LEMMA AddInv ==
    ASSUME IInv, AddEntry
    PROVE  IInv'
<1>0. TypeOK /\ ThreadsKept /\ RoomsInOrder /\ ListsInOrder /\ AllMet
  BY DEF IInv
<1> DEFINE t == "main"
           k == task[t]
<1>1. /\ t \in Threads /\ k.pc = "change" /\ Meet
      /\ member' = [member EXCEPT ![k.peer] = k.room]
      /\ UNCHANGED <<misled, packets, unsureRoom, unsureList, tasks, failed>> /\ UNCHANGED clientVars
  BY DEF Threads, AddEntry
<1>2. /\ k.peer \in Peer /\ k.room \in RoomNumbers /\ task \in [Threads -> Task]
      /\ member \in [Peer -> RoomNumbers \cup {0}]
  BY <1>0, <1>1, BusyFacts, TypeParts
<1>3. /\ task' \in [Threads -> Task] /\ task'[Other(t)] = task[Other(t)] /\ task'[t].peer = k.peer
  BY <1>2, AddMoves DEF Moved, Fields
<1>4. member' \in [Peer -> RoomNumbers \cup {0}] /\ member'[k.peer] # 0
  BY <1>1, <1>2, RoomFacts
<1>5. TypeOK'
  BY <1>0, <1>1, <1>3, <1>4, TypeParts, MeetTypes, TrackerTypes
<1>6. \A u \in Threads : task'[u].op = "c" /\ task'[u].pc = "reply" =>
         \/ task'[u].peer = k.peer /\ member'[k.peer] # 0
         \/ task[u].op = "c" /\ task[u].pc = "reply" /\ task[u].peer = task'[u].peer
  BY <1>1, <1>3, <1>4, ThreadFacts
<1>7. AllMet'
  BY <1>0, <1>1, <1>2, <1>6, MeetMet DEF clientVars
<1> QED BY <1>0, <1>5, <1>7, AddKept, AddInOrder DEF IInv

LEMMA DeleteInv ==
    ASSUME IInv, NEW t \in Threads, DeleteEntry(t)
    PROVE  IInv'
<1>0. TypeOK /\ ThreadsKept /\ RoomsInOrder /\ ListsInOrder /\ AllMet
  BY DEF IInv
<1> DEFINE k == task[t]
<1>1. /\ k.pc = "change" /\ k.op = "l" /\ Meet
      /\ member' = [member EXCEPT ![k.peer] = 0]
      /\ UNCHANGED <<misled, packets, unsureRoom, unsureList, tasks, failed>> /\ UNCHANGED clientVars
  BY DEF DeleteEntry
<1>2. /\ k.peer \in Peer /\ task \in [Threads -> Task] /\ member \in [Peer -> RoomNumbers \cup {0}]
  BY <1>0, <1>1, BusyFacts, TypeParts
<1>3. /\ task' \in [Threads -> Task] /\ task'[Other(t)] = task[Other(t)] /\ task'[t].op = "l"
  BY <1>1, <1>2, DeleteMoves DEF Moved, Fields
<1>4. member' \in [Peer -> RoomNumbers \cup {0}]
  BY <1>1, <1>2
<1>5. TypeOK'
  BY <1>0, <1>1, <1>3, <1>4, TypeParts, MeetTypes, TrackerTypes
<1>6. SameReplies
  BY <1>3, MovedReplies
<1>7. AllMet'
  BY <1>0, <1>1, <1>2, <1>6, MeetMet DEF clientVars, SameReplies
<1> QED BY <1>0, <1>5, <1>7, DeleteKept, DeleteInOrder DEF IInv

LEMMA ReplyInv ==
    ASSUME IInv, NEW t \in Threads, SendReply(t)
    PROVE  IInv'
<1>0. TypeOK /\ ThreadsKept /\ RoomsInOrder /\ ListsInOrder /\ AllMet
  BY DEF IInv
<1> DEFINE k == task[t]
           pkt == IF k.op = "c" THEN [type |-> "c", room |-> k.room] ELSE [type |-> "l"]
<1>1. /\ k.pc = "reply" /\ packets' = Sent(k.peer, pkt)
      /\ UNCHANGED <<member, met, misled, tasks, failed>> /\ UNCHANGED clientVars
      /\ unsureRoom' \subseteq unsureRoom /\ unsureList' \subseteq unsureList
  BY DEF SendReply
<1>2. /\ k.room \in RoomNumbers /\ task \in [Threads -> Task]
  BY <1>0, <1>1, BusyFacts
<1>3. task' \in [Threads -> Task] /\ task'[Other(t)] = task[Other(t)] /\ task'[t].pc # "reply"
  BY <1>2, ReplyMoves, IdleFacts DEF Moved, Ended, Fields
<1>4. k.peer \in Client /\ k.op = "c" => k.peer \in met[k.peer]
  BY <1>0, <1>1, MetNow
<1> HIDE DEF k
<1>5. pkt \in Packet /\ \A q : ListOf(q, pkt) = IF k.op = "c" THEN {q} ELSE {}
  <2>1. CASE k.op = "c"
    BY <1>2, <2>1 DEF Packet, ListOf
  <2>2. CASE k.op # "c"
    BY <2>2 DEF Packet, ListOf
  <2> QED BY <2>1, <2>2
<1> HIDE DEF pkt
<1>6. TypeOK'
  BY <1>0, <1>1, <1>3, <1>5, TypeParts, SentFacts, TrackerTypes
<1>7. SameReplies
  BY <1>3, MovedReplies
<1>8. AllMet'
  <2>1. k.peer \in Client => ListOf(k.peer, pkt) \subseteq met[k.peer]
    BY <1>4, <1>5
  <2>2. UNCHANGED <<member, met, peer_list>> /\ misled \subseteq misled'
    BY <1>1 DEF clientVars
  <2> QED BY <1>0, <1>1, <1>5, <1>7, <2>1, <2>2, SentMet
<1> QED BY <1>0, <1>6, <1>8, ReplyKept, ReplyInOrder DEF IInv

LEMMA CopyInv ==
    ASSUME IInv, NEW t \in Threads, CopyRoom(t)
    PROVE  IInv'
<1>0. TypeOK /\ ThreadsKept /\ RoomsInOrder /\ ListsInOrder /\ AllMet
  BY DEF IInv
<1>1. /\ UNCHANGED <<member, met, misled, packets, unsureRoom, unsureList, tasks, failed>>
      /\ UNCHANGED clientVars
  BY DEF CopyRoom
<1>2. task \in [Threads -> Task]
  BY <1>0, TypeParts
<1>3. task' \in [Threads -> Task] /\ task'[Other(t)] = task[Other(t)] /\ task'[t].pc = "send"
  BY <1>2, CopyMoves DEF Moved, Fields
<1>4. TypeOK'
  BY <1>0, <1>1, <1>3, TypeParts, TrackerTypes
<1>5. AllMet'
  BY <1>0, <1>1, <1>3, MovedReplies, SameMet DEF clientVars
<1> QED BY <1>0, <1>4, <1>5, CopyKept, CopyInOrder DEF IInv

LEMMA RosterInv ==
    ASSUME IInv, NEW t \in Threads, NEW x \in Client, SendRoster(t, x)
    PROVE  IInv'
<1>0. TypeOK /\ ThreadsKept /\ RoomsInOrder /\ ListsInOrder /\ AllMet
  BY DEF IInv
<1> DEFINE k == task[t]
           reply == k.op = "j" /\ x = k.peer
           pkt == IF reply THEN [type |-> "j", room |-> k.room, list |-> k.list]
                           ELSE [type |-> "u", list |-> k.list]
<1>1. /\ k.pc = "send" /\ packets' = Sent(x, pkt)
      /\ member[x] = k.room \/ ~Alone(t)
      /\ UNCHANGED <<member, met, tasks, failed>> /\ UNCHANGED clientVars
      /\ unsureRoom' \subseteq unsureRoom /\ unsureList' \subseteq unsureList
      /\ misled' = IF Alone(t) THEN misled ELSE misled \cup {x}
  BY DEF SendRoster
<1>2. /\ k \in Task /\ k.room \in RoomNumbers /\ task \in [Threads -> Task]
      /\ AloneOf(k, task[Other(t)], member) /\ (Alone(t) <=> k.table = "own")
  BY <1>0, <1>1, BusyFacts DEF Alone
<1>3. task' \in [Threads -> Task] /\ task'[Other(t)] = task[Other(t)] /\ task'[t].pc = "send"
  BY <1>1, <1>2, RosterMoves DEF Moved, Fields
<1>4. k.list \in Lists /\ k.room # 0
  BY <1>2, TaskFacts, RoomFacts
<1> HIDE DEF k, reply
<1>5. pkt \in Packet /\ \A q : ListOf(q, pkt) = k.list
  <2>1. CASE reply
    BY <1>2, <1>4, <2>1 DEF Packet, ListOf
  <2>2. CASE ~reply
    BY <1>4, <2>2 DEF Packet, ListOf
  <2> QED BY <2>1, <2>2
<1> HIDE DEF pkt
<1>6. TypeOK'
  BY <1>0, <1>1, <1>3, <1>5, TypeParts, SentFacts, TrackerTypes
<1>7. SameReplies
  BY <1>3, MovedReplies
<1>8. ASSUME x \notin misled' PROVE ListOf(x, pkt) \subseteq met[x]
  <2>1. member[x] = k.room /\ k.list = {p \in Peer : member[p] = k.room}
    BY <1>1, <1>2, <1>8 DEF AloneOf
  <2> QED BY <1>0, <1>4, <1>5, <2>1, MetNow
<1>9. AllMet'
  <2>1. UNCHANGED <<member, met, peer_list>> /\ misled \subseteq misled'
    BY <1>1 DEF clientVars
  <2> QED BY <1>0, <1>1, <1>5, <1>7, <1>8, <2>1, SentMet
<1> QED BY <1>0, <1>6, <1>9, RosterKept, RosterInOrder DEF IInv

LEMMA SentInv ==
    ASSUME IInv, NEW t \in Threads, RosterSent(t)
    PROVE  IInv'
<1>0. TypeOK /\ ThreadsKept /\ RoomsInOrder /\ ListsInOrder /\ AllMet
  BY DEF IInv
<1>1. /\ UNCHANGED <<member, met, misled, packets, unsureRoom, unsureList, tasks, failed>>
      /\ UNCHANGED clientVars
  BY DEF RosterSent
<1>2. task \in [Threads -> Task]
  BY <1>0, TypeParts
<1>3. task' \in [Threads -> Task] /\ task'[Other(t)] = task[Other(t)] /\ task'[t].pc \in {"copy", "idle"}
  BY <1>2, SentMoves, IdleFacts DEF Moved, Ended, Fields
<1>4. TypeOK'
  BY <1>0, <1>1, <1>3, TypeParts, TrackerTypes
<1>5. AllMet'
  BY <1>0, <1>1, <1>3, MovedReplies, SameMet DEF clientVars
<1> QED BY <1>0, <1>4, <1>5, SentKept, SentInOrder DEF IInv

LEMMA AstrayInv ==
    ASSUME IInv, NEW t \in Threads, Astray(t)
    PROVE  IInv'
<1>0. TypeOK /\ ThreadsKept /\ RoomsInOrder /\ ListsInOrder /\ AllMet
  BY DEF IInv
<1>1. /\ UNCHANGED <<member, met, misled, packets, unsureRoom, unsureList, tasks>> /\ failed' = TRUE
      /\ UNCHANGED clientVars /\ task' = [o \in Threads |-> Idle]
  BY DEF Astray, Fail
<1>2. task' \in [Threads -> Task] /\ \A u \in Threads : task'[u].op = "none"
  BY <1>1, IdleFacts
<1>3. TypeOK'
  BY <1>0, <1>1, <1>2, TypeParts, TrackerTypes
<1>4. SameReplies
  BY <1>2 DEF SameReplies
<1>5. AllMet'
  BY <1>0, <1>1, <1>4, SameMet DEF clientVars
<1> QED BY <1>3, <1>5, AstrayKept, AstrayInOrder DEF IInv

(***************************************************************************)
(* The clients' steps.                                                     *)
(***************************************************************************)
\* A step of client p keeps the invariant if it keeps what is said of p.
LEMMA ClientInv ==
    ASSUME IInv, UNCHANGED trackerVars, UNCHANGED reorders, NEW p \in Client, TypeOK',
           \A q \in Client : q # p =>
               /\ packets'[q] = packets[q] /\ room_num'[q] = room_num[q]
               /\ peer_list'[q] = peer_list[q] /\ synced'[q] = synced[q],
           ~reorders /\ RoomQueue(packets[p], room_num[p], synced[p], member[p]) =>
               RoomQueue(packets'[p], room_num'[p], synced'[p], member[p]),
           ~reorders /\ ListQueue(p, packets[p], peer_list[p], synced[p], Roster(p)) =>
               ListQueue(p, packets'[p], peer_list'[p], synced'[p], Roster(p)),
           p \notin misled => /\ peer_list'[p] \subseteq met[p]
                              /\ \A j \in DOMAIN packets'[p] : ListOf(p, packets'[p][j]) \subseteq met[p]
    PROVE  IInv'
<1>0. TypeOK /\ ThreadsKept /\ RoomsInOrder /\ ListsInOrder /\ AllMet
  BY DEF IInv
<1>1. /\ member' = member /\ failed' = failed /\ task' = task /\ met' = met
      /\ unsureRoom' = unsureRoom /\ unsureList' = unsureList /\ misled' = misled /\ reorders' = reorders
  BY DEF trackerVars
<1>2. ThreadsKept'
  <2>1. \A t \in Threads : KeptOf(t, task'[t], task'[Other(t)], member', unsureRoom', unsureList')
    BY <1>0, <1>1, KeptNow
  <2> QED BY <2>1, KeptNext
<1>3. \A q : (Owed(q)' <=> Owed(q)) /\ (Due(q)' <=> Due(q)) /\ Roster(q)' = Roster(q)
  <2>1. "main" \in Threads
    BY DEF Threads
  <2> QED BY <1>1, <2>1, OwedDue, RosterNext
<1>4. RoomsInOrder'
  <2>1. ASSUME NEW q \in Client, ~failed', ~reorders', q \notin unsureRoom', ~Owed(q)'
        PROVE  RoomQueue(packets'[q], room_num'[q], synced'[q], member'[q])
    <3>1. RoomQueue(packets[q], room_num[q], synced[q], member[q])
      BY <1>0, <1>1, <1>3, <2>1 DEF RoomsInOrder
    <3>2. CASE q = p
      BY <1>1, <2>1, <3>1, <3>2
    <3>3. CASE q # p
      BY <1>1, <3>1, <3>3
    <3> QED BY <3>2, <3>3
  <2> QED BY <2>1, RoomsNext
<1>5. ListsInOrder'
  <2>1. ASSUME NEW q \in Client, ~failed', ~reorders', q \notin unsureList', ~Due(q)'
        PROVE  ListQueue(q, packets'[q], peer_list'[q], synced'[q], Roster(q)')
    <3>1. ListQueue(q, packets[q], peer_list[q], synced[q], Roster(q))
      BY <1>0, <1>1, <1>3, <2>1 DEF ListsInOrder
    <3>2. CASE q = p
      BY <1>1, <1>3, <2>1, <3>1, <3>2
    <3>3. CASE q # p
      BY <1>3, <3>1, <3>3
    <3> QED BY <3>2, <3>3
  <2> QED BY <2>1, ListsNext
<1>6. AllMet'
  <2>1. ASSUME NEW q \in Client
        PROVE  /\ member'[q] # 0 => {x \in Peer : member'[x] = member'[q]} \subseteq met'[q]
               /\ \A t \in Threads : task'[t].peer = q /\ task'[t].op = "c" /\ task'[t].pc = "reply"
                                       => q \in met'[q]
               /\ q \notin misled' =>
                    /\ peer_list'[q] \subseteq met'[q]
                    /\ \A j \in DOMAIN packets'[q] : ListOf(q, packets'[q][j]) \subseteq met'[q]
    <3>1. CASE q = p
      BY <1>0, <1>1, <3>1, MetNow
    <3>2. CASE q # p
      BY <1>0, <1>1, <3>2, MetNow
    <3> QED BY <3>1, <3>2
  <2> QED BY <2>1, MetNext
<1> QED BY <1>2, <1>4, <1>5, <1>6 DEF IInv

\* What a client has after it took packet pkt.
LEMMA TakenFacts ==
    ASSUME TypeOK, NEW p \in Client, NEW pkt \in Packet,
           \/ create_room_reply(p, pkt) \/ join_room_reply(p, pkt)
           \/ leave_room_reply(p, pkt) \/ user_connection_updates(p, pkt)
    PROVE  /\ room_num' \in [Client -> RoomNumbers \cup {0}] /\ peer_list' \in [Client -> Lists]
           /\ synced' \in [Client -> BOOLEAN]
           /\ \A q \in Client : q # p => /\ room_num'[q] = room_num[q] /\ peer_list'[q] = peer_list[q]
                                         /\ synced'[q] = synced[q]
           /\ IsReply(pkt) => room_num'[p] = RoomOf(pkt)
           /\ ~IsReply(pkt) => room_num'[p] = room_num[p] /\ synced'[p] = synced[p]
           /\ \/ peer_list'[p] = ListOf(p, pkt)
              \/ pkt.type = "u" /\ pkt.list = {} /\ peer_list'[p] = peer_list[p] /\ synced'[p] = synced[p]
<1>1. /\ room_num \in [Client -> RoomNumbers \cup {0}] /\ peer_list \in [Client -> Lists]
      /\ synced \in [Client -> BOOLEAN]
  BY DEF TypeOK
<1>2. {p} \in Lists /\ {} \in Lists
  BY ChatAssumption DEF Lists
<1>3. CASE create_room_reply(p, pkt)
  <2>1. pkt.type = "c" /\ pkt.room \in RoomNumbers
    BY <1>3, PacketFacts DEF create_room_reply
  <2> QED BY <1>1, <1>2, <1>3, <2>1 DEF create_room_reply, IsReply, RoomOf, ListOf
<1>4. CASE join_room_reply(p, pkt)
  <2>1. pkt.type = "j" /\ pkt.room \in RoomNumbers /\ pkt.list \in Lists
    BY <1>4, PacketFacts DEF join_room_reply
  <2> DEFINE r == IF pkt.list = {} THEN 0 ELSE pkt.room
  <2>2. r \in RoomNumbers \cup {0} /\ r = RoomOf(pkt)
    BY <2>1 DEF RoomOf
  <2>3. /\ room_num' = [room_num EXCEPT ![p] = r] /\ peer_list' = [peer_list EXCEPT ![p] = pkt.list]
        /\ synced' = [synced EXCEPT ![p] = TRUE]
    BY <1>4 DEF join_room_reply
  <2> HIDE DEF r
  <2> QED BY <1>1, <2>1, <2>2, <2>3 DEF IsReply, ListOf
<1>5. CASE leave_room_reply(p, pkt)
  BY <1>1, <1>2, <1>5 DEF leave_room_reply, IsReply, RoomOf, ListOf
<1>6. CASE user_connection_updates(p, pkt)
  <2>1. pkt.type = "u" /\ pkt.list \in Lists /\ UNCHANGED <<room_num, synced>>
    BY <1>6, PacketFacts DEF user_connection_updates
  <2>2. CASE pkt.list = {}
    <3>1. peer_list' = peer_list
      BY <1>6, <2>2, Zenon DEF user_connection_updates
    <3> QED BY <1>1, <2>1, <2>2, <3>1 DEF IsReply
  <2>3. CASE pkt.list # {}
    <3>1. peer_list' = [peer_list EXCEPT ![p] = pkt.list]
      BY <1>6, <2>3, Zenon DEF user_connection_updates
    <3> QED BY <1>1, <2>1, <3>1 DEF IsReply, ListOf
  <2> QED BY <2>2, <2>3
<1> QED BY <1>3, <1>4, <1>5, <1>6

\* Types after a step of a client.
LEMMA ClientTypes ==
    ASSUME TypeOK, UNCHANGED trackerVars, UNCHANGED reorders,
           room_num' \in [Client -> RoomNumbers \cup {0}], peer_list' \in [Client -> Lists],
           synced' \in [Client -> BOOLEAN], packets' \in [Client -> Seq(Packet)]
    PROVE  TypeOK'
<1>1. /\ UNCHANGED member /\ UNCHANGED failed /\ UNCHANGED task /\ UNCHANGED tasks /\ UNCHANGED met
      /\ UNCHANGED unsureRoom /\ UNCHANGED unsureList /\ UNCHANGED misled
  BY DEF trackerVars
<1> QED BY <1>1, Zenon DEF TypeOK

LEMMA ReceiveInv ==
    ASSUME IInv, NEW p \in Client, receive_packet(p)
    PROVE  IInv'
<1>0. TypeOK /\ AllMet
  BY DEF IInv
<1>1. PICK j \in 1..MaxPackets :
        /\ Arrives(p, j) /\ packets' = [packets EXCEPT ![p] = RemoveAt(@, j)]
        /\ LET pkt == packets[p][j]
           IN  \/ create_room_reply(p, pkt) \/ join_room_reply(p, pkt)
               \/ leave_room_reply(p, pkt) \/ user_connection_updates(p, pkt)
  BY DEF receive_packet
<1> DEFINE q == packets[p]
           q2 == RemoveAt(q, j)
           pkt == q[j]
<1>2. q \in Seq(Packet) /\ packets \in [Client -> Seq(Packet)]
  BY <1>0 DEF TypeOK
<1>3. j \in DOMAIN q /\ (~reorders => j = 1)
  BY <1>1 DEF Arrives
<1>4. UNCHANGED trackerVars /\ UNCHANGED reorders
  BY DEF receive_packet
<1>5. packets'[p] = q2 /\ \A x \in Client : x # p => packets'[x] = packets[x]
  BY <1>1, <1>2
<1>6. \/ create_room_reply(p, pkt) \/ join_room_reply(p, pkt)
      \/ leave_room_reply(p, pkt) \/ user_connection_updates(p, pkt)
  BY <1>1
<1>7. packets' = [packets EXCEPT ![p] = q2]
  BY <1>1
<1>8. packets[p] = q /\ packets[p][j] = pkt
  OBVIOUS
<1> HIDE DEF q
<1>9. j \in 1..Len(q) /\ pkt \in Packet
  BY <1>2, <1>3
<1>10. /\ q2 \in Seq(Packet) /\ Len(q2) = Len(q) - 1
       /\ \A k \in 1..(Len(q) - 1) : q2[k] = IF k < j THEN q[k] ELSE q[k + 1]
  BY <1>2, <1>9, RemoveAtFacts
<1>11. ~reorders => FirstGone(q, q2) /\ pkt = q[1]
  <2>1. q # << >>
    BY <1>9, <1>2
  <2> QED BY <1>2, <1>3, <2>1, FirstGoneFacts
<1> HIDE DEF pkt, q2
<1>12. packets' \in [Client -> Seq(Packet)]
  BY <1>2, <1>7, <1>10
<1>13. /\ room_num' \in [Client -> RoomNumbers \cup {0}] /\ peer_list' \in [Client -> Lists]
       /\ synced' \in [Client -> BOOLEAN]
       /\ \A x \in Client : x # p => /\ room_num'[x] = room_num[x] /\ peer_list'[x] = peer_list[x]
                                     /\ synced'[x] = synced[x]
       /\ IsReply(pkt) => room_num'[p] = RoomOf(pkt)
       /\ ~IsReply(pkt) => room_num'[p] = room_num[p] /\ synced'[p] = synced[p]
       /\ \/ peer_list'[p] = ListOf(p, pkt)
          \/ pkt.type = "u" /\ pkt.list = {} /\ peer_list'[p] = peer_list[p] /\ synced'[p] = synced[p]
  BY <1>0, <1>6, <1>9, TakenFacts
<1>14. TypeOK'
  BY <1>0, <1>4, <1>12, <1>13, ClientTypes
<1>15. ASSUME ~reorders, RoomQueue(q, room_num[p], synced[p], member[p])
       PROVE  RoomQueue(q2, room_num'[p], synced'[p], member[p])
  <2>1. FirstGone(q, q2) /\ pkt = q[1]
    BY <1>11, <1>15
  <2>2. /\ IsReply(q[1]) => \A x : RoomQueue(q2, RoomOf(q[1]), x, member[p])
        /\ ~IsReply(q[1]) => RoomQueue(q2, room_num[p], synced[p], member[p])
    BY <1>15, <2>1, RoomFirstTaken
  <2> QED BY <1>13, <2>1, <2>2
<1>16. ASSUME ~reorders, NEW R, ListQueue(p, q, peer_list[p], synced[p], R)
       PROVE  ListQueue(p, q2, peer_list'[p], synced'[p], R)
  <2>1. FirstGone(q, q2) /\ pkt = q[1]
    BY <1>11, <1>16
  <2>2. /\ q[1].type = "u" /\ q[1].list = {} => ListQueue(p, q2, peer_list[p], synced[p], R)
        /\ \A x : ListQueue(p, q2, ListOf(p, q[1]), x, R)
    BY <1>16, <2>1, ListFirstTaken
  <2> QED BY <1>13, <2>1, <2>2
<1>17. ASSUME p \notin misled
       PROVE  /\ peer_list'[p] \subseteq met[p]
              /\ \A k \in DOMAIN q2 : ListOf(p, q2[k]) \subseteq met[p]
  <2>1. peer_list[p] \subseteq met[p] /\ \A k \in DOMAIN q : ListOf(p, q[k]) \subseteq met[p]
    BY <1>0, <1>8, <1>17, MetNow
  <2>2. ListOf(p, pkt) \subseteq met[p]
    BY <1>3, <2>1 DEF pkt
  <2>3. ASSUME NEW k \in DOMAIN q2 PROVE \E i \in DOMAIN q : q2[k] = q[i]
    <3>1. k \in 1..(Len(q) - 1) /\ DOMAIN q = 1..Len(q) /\ Len(q) \in Nat
      BY <1>2, <1>10
    <3>2. k \in DOMAIN q /\ k + 1 \in DOMAIN q
      BY <3>1
    <3> QED BY <1>10, <3>1, <3>2
  <2> QED BY <1>13, <2>1, <2>2, <2>3
<1> QED BY <1>4, <1>5, <1>8, <1>13, <1>14, <1>15, <1>16, <1>17, ClientInv

LEMMA LoseInv ==
    ASSUME IInv, NEW p \in Client, Lose(p)
    PROVE  IInv'
<1>0. TypeOK /\ AllMet
  BY DEF IInv
<1> DEFINE q == packets[p]
           q2 == Tail(q)
<1>1. /\ q # << >> /\ packets' = [packets EXCEPT ![p] = q2] /\ synced' = [synced EXCEPT ![p] = FALSE]
      /\ UNCHANGED trackerVars /\ UNCHANGED reorders /\ room_num' = room_num /\ peer_list' = peer_list
  BY DEF Lose
<1>2. /\ q \in Seq(Packet) /\ packets \in [Client -> Seq(Packet)] /\ synced \in [Client -> BOOLEAN]
      /\ room_num \in [Client -> RoomNumbers \cup {0}] /\ peer_list \in [Client -> Lists]
  BY <1>0 DEF TypeOK
<1>3. packets[p] = q
  OBVIOUS
<1> HIDE DEF q
<1>4. FirstGone(q, q2)
  BY <1>1, <1>2, FirstGoneFacts
<1> HIDE DEF q2
<1>5. q2 \in Seq(Packet)
  BY <1>4 DEF FirstGone
<1>6. /\ packets' \in [Client -> Seq(Packet)] /\ synced' \in [Client -> BOOLEAN]
      /\ packets'[p] = q2 /\ synced'[p] = FALSE
      /\ \A x \in Client : x # p => packets'[x] = packets[x] /\ synced'[x] = synced[x]
  BY <1>1, <1>2, <1>5
<1>7. TypeOK'
  BY <1>0, <1>1, <1>2, <1>6, ClientTypes
<1>8. RoomQueue(q, room_num[p], synced[p], member[p]) => RoomQueue(q2, room_num'[p], FALSE, member[p])
  BY <1>4, RoomFirstTaken
<1>9. \A R : ListQueue(p, q, peer_list[p], synced[p], R) => ListQueue(p, q2, peer_list'[p], FALSE, R)
  BY <1>4, ListFirstTaken
<1>10. ASSUME p \notin misled
       PROVE  /\ peer_list'[p] \subseteq met[p]
              /\ \A k \in DOMAIN q2 : ListOf(p, q2[k]) \subseteq met[p]
  <2>1. peer_list[p] \subseteq met[p] /\ \A k \in DOMAIN q : ListOf(p, q[k]) \subseteq met[p]
    BY <1>0, <1>3, <1>10, MetNow
  <2>2. ASSUME NEW k \in DOMAIN q2 PROVE k + 1 \in DOMAIN q /\ q2[k] = q[k + 1]
    BY <1>4 DEF FirstGone
  <2> QED BY <1>1, <2>1, <2>2
<1> QED BY <1>1, <1>3, <1>6, <1>7, <1>8, <1>9, <1>10, ClientInv

LEMMA RestartInv ==
    ASSUME IInv, NEW p \in Client, Restart(p)
    PROVE  IInv'
<1>0. TypeOK /\ AllMet
  BY DEF IInv
<1> DEFINE s == member[p] = 0 /\ packets[p] = << >>
<1>1. /\ room_num' = [room_num EXCEPT ![p] = 0] /\ peer_list' = [peer_list EXCEPT ![p] = {}]
      /\ synced' = [synced EXCEPT ![p] = s]
      /\ UNCHANGED trackerVars /\ UNCHANGED reorders /\ packets' = packets
  BY DEF Restart
<1>2. /\ packets \in [Client -> Seq(Packet)] /\ synced \in [Client -> BOOLEAN]
      /\ room_num \in [Client -> RoomNumbers \cup {0}] /\ peer_list \in [Client -> Lists]
  BY <1>0 DEF TypeOK
<1>3. s \in BOOLEAN
  OBVIOUS
<1>4. s => member[p] = 0 /\ packets[p] = << >>
  OBVIOUS
<1> HIDE DEF s
<1>5. /\ room_num' \in [Client -> RoomNumbers \cup {0}] /\ synced' \in [Client -> BOOLEAN]
      /\ room_num'[p] = 0 /\ synced'[p] = s
      /\ \A x \in Client : x # p => room_num'[x] = room_num[x] /\ synced'[x] = synced[x]
  BY <1>1, <1>2, <1>3
<1>6. /\ peer_list' \in [Client -> Lists] /\ peer_list'[p] = {}
      /\ \A x \in Client : x # p => peer_list'[x] = peer_list[x]
  BY <1>1, <1>2 DEF Lists
<1>7. TypeOK'
  BY <1>0, <1>1, <1>2, <1>5, <1>6, ClientTypes
<1>8. RoomQueue(packets[p], room_num[p], synced[p], member[p]) => RoomQueue(packets[p], 0, s, member[p])
  BY <1>4 DEF RoomQueue
<1>9. ListQueue(p, packets[p], peer_list[p], synced[p], Roster(p)) =>
        ListQueue(p, packets[p], {}, s, Roster(p))
  BY <1>4 DEF ListQueue, Roster
<1>10. p \notin misled => \A k \in DOMAIN packets[p] : ListOf(p, packets[p][k]) \subseteq met[p]
  BY <1>0, MetNow
<1>11. packets'[p] = packets[p]
  BY <1>1
<1> QED BY <1>1, <1>5, <1>6, <1>7, <1>8, <1>9, <1>10, <1>11, ClientInv

LEMMA StutterInv ==
    ASSUME IInv, UNCHANGED vars
    PROVE  IInv'
<1>0. TypeOK /\ ThreadsKept /\ RoomsInOrder /\ ListsInOrder /\ AllMet
  BY DEF IInv
<1>1. /\ UNCHANGED <<member, failed, task, tasks, met, unsureRoom, unsureList, misled, packets>>
      /\ UNCHANGED clientVars /\ UNCHANGED <<room_num, peer_list, synced, reorders>>
  BY DEF vars, trackerVars, clientVars
<1>2. TypeOK'
  BY <1>0, <1>1, TypeParts, TrackerTypes
<1>3. ThreadsKept'
  <2>1. \A t \in Threads : KeptOf(t, task'[t], task'[Other(t)], member', unsureRoom', unsureList')
    BY <1>0, <1>1, KeptNow
  <2> QED BY <2>1, KeptNext
<1>4. \A q : (Owed(q)' <=> Owed(q)) /\ (Due(q)' <=> Due(q)) /\ Roster(q)' = Roster(q)
  <2>1. "main" \in Threads
    BY DEF Threads
  <2> QED BY <1>1, <2>1, OwedDue, RosterNext
<1>5. RoomsInOrder'
  <2>1. ASSUME NEW q \in Client, ~failed', ~reorders', q \notin unsureRoom', ~Owed(q)'
        PROVE  RoomQueue(packets'[q], room_num'[q], synced'[q], member'[q])
    BY <1>0, <1>1, <1>4, <2>1 DEF RoomsInOrder
  <2> QED BY <2>1, RoomsNext
<1>6. ListsInOrder'
  <2>1. ASSUME NEW q \in Client, ~failed', ~reorders', q \notin unsureList', ~Due(q)'
        PROVE  ListQueue(q, packets'[q], peer_list'[q], synced'[q], Roster(q)')
    BY <1>0, <1>1, <1>4, <2>1 DEF ListsInOrder
  <2> QED BY <2>1, ListsNext
<1>7. AllMet'
  BY <1>0, <1>1, SameMet DEF SameReplies
<1> QED BY <1>2, <1>3, <1>5, <1>6, <1>7 DEF IInv

LEMMA InitInv ==
    ASSUME Init
    PROVE  IInv
<1>1. /\ member = [p \in Peer |-> 0] /\ failed = FALSE /\ task = [t \in Threads |-> Idle] /\ tasks = 0
      /\ room_num = [p \in Client |-> 0] /\ peer_list = [p \in Client |-> {}]
      /\ packets = [p \in Client |-> << >>] /\ synced = [p \in Client |-> TRUE] /\ reorders \in BOOLEAN
      /\ met = [p \in Client |-> {}] /\ unsureRoom = {} /\ unsureList = {} /\ misled = {}
  BY DEF Init, RoomInit
<1>2. Client \subseteq Peer /\ NoPeer \notin Peer /\ MaxTasks \in Nat
  BY ChatAssumption
<1>3. task \in [Threads -> Task] /\ \A t \in Threads : task[t] = Idle
  BY <1>1, IdleFacts
<1>4. TypeOK
  <2>1. {} \in Lists /\ << >> \in Seq(Packet)
    BY DEF Lists
  <2>2. packets \in [Client -> Seq(Packet)] /\ peer_list \in [Client -> Lists] /\ tasks \in 0..MaxTasks
    BY <1>1, <1>2, <2>1
  <2> QED BY <1>1, <1>3, <2>2 DEF TypeOK
<1>5. ThreadsKept
  <2>1. ASSUME NEW t \in Threads PROVE TaskShape(t) /\ TaskAlone(t) /\ TaskTrusted(t) /\ Alone(t)
    <3>1. task[t] = Idle
      BY <1>3
    <3> QED BY <3>1, IdleFacts DEF TaskShape, TaskAlone, TaskTrusted, Alone, Busy
  <2>2. task["main"].peer = NoPeer
    BY <1>3, IdleFacts DEF Threads
  <2> QED BY <1>2, <2>1, <2>2 DEF ThreadsKept
<1>6. \A p \in Client : /\ packets[p] = << >> /\ room_num[p] = 0 /\ peer_list[p] = {} /\ member[p] = 0
                        /\ Roster(p) = {}
  BY <1>1, <1>2 DEF Roster
<1>7. RoomsInOrder /\ ListsInOrder
  <2>1. \A x : RoomQueue(<< >>, 0, x, 0)
    BY DEF RoomQueue
  <2>2. \A p, x : ListQueue(p, << >>, {}, x, {})
    BY DEF ListQueue
  <2> QED BY <1>6, <2>1, <2>2 DEF RoomsInOrder, ListsInOrder
<1>8. AllMet
  BY <1>3, <1>6, IdleFacts DEF AllMet
<1> QED BY <1>4, <1>5, <1>7, <1>8 DEF IInv

(***************************************************************************)
(* Theorems.                                                               *)
(***************************************************************************)
\* The inductive invariant holds in every state: what each thread of the tracker
\* relies on between its unlocked steps, that the packets under way to a client end
\* in the room and the roster the tracker has for it unless the threads were at work
\* at once, and that lists made by a thread alone name only whom the client has met.
THEOREM ChatInvariant == Spec => []IInv
<1>1. Init => IInv
  BY InitInv
<1>2. ASSUME IInv, [Next]_vars PROVE IInv'
  <2>1. ASSUME NEW t \in Threads, ThreadStep(t) PROVE IInv'
    BY <1>2, <2>1, DeleteInv, ReplyInv, CopyInv, RosterInv, SentInv, AstrayInv DEF ThreadStep
  <2>2. ASSUME Tracker PROVE IInv'
    BY <1>2, <2>1, <2>2, RequestInv, FindInv, AddInv DEF Tracker
  <2>3. ASSUME NEW p \in Client, ClientStep(p) PROVE IInv'
    BY <1>2, <2>3, ReceiveInv, RestartInv, LoseInv DEF ClientStep
  <2>4. CASE UNCHANGED vars
    BY <1>2, <2>4, StutterInv
  <2> QED BY <1>2, <2>2, <2>3, <2>4 DEF Next
<1> QED BY <1>1, <1>2, PTL DEF Spec

\* Types, in particular that no client ends in a room that does not exist.
THEOREM ChatTypes == Spec => []TypeOK
<1>1. IInv => TypeOK
  BY DEF IInv
<1> QED BY <1>1, ChatInvariant, PTL

\* A client with no packet under way and no reply owed is in the room the tracker has
\* it in, unless both threads of the tracker were at work on this very client
\* (create_room_reply(), join_room_reply() and leave_room_reply() against tracker.c).
THEOREM RoomsAgree == Spec => []RoomAgreement
<1>1. ASSUME IInv PROVE RoomAgreement
  <2>1. ASSUME NEW p \in Client, ~failed, ~reorders, packets[p] = << >>, synced[p],
               p \notin unsureRoom, ~Owed(p)
        PROVE  room_num[p] = member[p]
    <3>1. RoomQueue(packets[p], room_num[p], synced[p], member[p])
      BY <1>1, <2>1 DEF IInv, RoomsInOrder
    <3> QED BY <2>1, <3>1 DEF RoomQueue
  <2> QED BY <2>1 DEF RoomAgreement
<1> QED BY <1>1, ChatInvariant, PTL

\* Its list of peers is the roster of its room when no roster is still to be sent to
\* it, as soon as a thread that works alone has sent it one (peer_list() in
\* tracker.c, user_connection_updates() in client.c).
THEOREM ListsAgree == Spec => []ListAgreement
<1>1. ASSUME IInv PROVE ListAgreement
  <2>1. ASSUME NEW p \in Client, ~failed, ~reorders, packets[p] = << >>, synced[p],
               p \notin unsureList, ~Due(p)
        PROVE  peer_list[p] = Roster(p)
    <3>1. ListQueue(p, packets[p], peer_list[p], synced[p], Roster(p))
      BY <1>1, <2>1 DEF IInv, ListsInOrder
    <3> QED BY <2>1, <3>1 DEF ListQueue
  <2> QED BY <2>1 DEF ListAgreement
<1> QED BY <1>1, ChatInvariant, PTL

\* send_message() reaches only peers that have shared a room with the sender, even if
\* packets are lost or overtake one another and clients are started again, unless
\* the client was sent a roster while both threads of the tracker were at work.
THEOREM RoommatesOnly == Spec => []OnlyToRoommates
<1>1. IInv => OnlyToRoommates
  BY DEF IInv, AllMet, OnlyToRoommates
<1> QED BY <1>1, ChatInvariant, PTL
=============================================================================
