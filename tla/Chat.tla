-------------------------------- MODULE Chat --------------------------------
(***************************************************************************)
(* The chat clients (src/examples/p2p-chat-example/client.c) and what the  *)
(* tracker sends them (tracker.c).  Two threads of the tracker change the  *)
(* rooms: main serves requests, and ping_output() evicts peers that did    *)
(* not answer.  Each of them looks an entry up, changes the table, sends   *)
(* the reply, counts the room, copies its roster and sends it to one peer  *)
(* after another, and each of these is a step: the lock is held for the    *)
(* change only.  Rooms has the table; ChatTracker looks into it (entries,  *)
(* freed blocks, pings).  A request reaches the tracker at any time, or    *)
(* not at all, and a refused one is answered and changes nothing.          *)
(*                                                                         *)
(* A client has two threads: receive_packet() takes one packet at a time,  *)
(* and peer_list_lock makes each reply handler one step; read_input()      *)
(* sends requests and messages, which changes no state of the client.      *)
(* send_message() walks peer_list under the lock, at any time, so that a   *)
(* message goes to the whole of one state's peer_list.                     *)
(***************************************************************************)
EXTENDS Rooms, Sequences, SequencesExt

CONSTANTS
    NoPeer,
    Client,        \* the peers whose program is modelled (clients do not affect one
                   \* another, so that the others are only known to the tracker)
    Faulty,        \* clients that may be killed and started again, or lose packets
    MaxPackets,    \* packets under way to one client (a bound)
    MaxTasks       \* requests and evictions taken up in all (a bound)

ASSUME ChatAssumption ==
    /\ IsFiniteSet(Peer) /\ Client \subseteq Peer
    /\ Faulty \subseteq Client /\ NoPeer \notin Peer
    /\ MaxRooms \in Nat \ {0} /\ MaxRoomSize \in Nat \ {0} /\ MaxPackets \in Nat \ {0}
    /\ MaxTasks \in Nat

VARIABLES
    task,         \* what each of the tracker's two threads is at
    tasks,        \* how many requests and evictions they have taken up
    room_num,     \* the room each client believes it is in
    peer_list,    \* the addresses it sends messages to; peer_num is their number
    packets,      \* packets from the tracker under way to each client
    synced,       \* whether a client took a reply to a request since it started
                  \* and since a packet to it was last lost (history)
    reorders,     \* whether packets may overtake one another (fixed at the start)
    met,          \* whom each client has shared a room with (history)
    unsureRoom,   \* clients on whom both threads were at work, and that were sent no
                  \* reply since by a thread that had the table for itself (history)
    unsureList,   \* clients that were sent no reply or roster by such a thread since
                  \* the two were last at work at once (history)
    misled        \* clients that were ever sent a roster by any other thread (history)

clientVars == <<room_num, peer_list, synced, reorders>>
trackerVars == <<member, failed, task, tasks, met, unsureRoom, unsureList, misled>>
vars == <<trackerVars, clientVars, packets>>

Lists == SUBSET (Peer \cup {NoPeer})

Packet == [type : {"c"}, room : RoomNumbers]
          \cup [type : {"j"}, room : RoomNumbers, list : Lists]
          \cup [type : {"u"}, list : Lists] \cup [type : {"l"}]

Threads == {"main", "output"}

\* pc: what is next.  op: "c" create, "j" join, "l" leave or eviction, "old" the
\* roster of the room a joiner switched from. list and done
\* belong to the roster being sent; table is "own" if the other thread was idle all along.
Idle == [pc |-> "idle", op |-> "none", peer |-> NoPeer, room |-> 0, old |-> 0,
         list |-> {}, done |-> {}, table |-> "own"]

Task == [pc : {"idle", "find", "change", "reply", "copy", "send"},
         op : {"none", "c", "j", "l", "old"}, peer : Peer \cup {NoPeer},
         room : RoomNumbers \cup {0}, old : RoomNumbers \cup {0},
         list : Lists, done : SUBSET Client, table : {"own", "shared"}]

Init ==
    /\ RoomInit
    /\ task = [t \in Threads |-> Idle] /\ tasks = 0
    /\ room_num = [p \in Client |-> 0]
    /\ peer_list = [p \in Client |-> {}]
    /\ packets = [p \in Client |-> << >>]
    /\ synced = [p \in Client |-> TRUE]
    /\ reorders \in BOOLEAN
    /\ met = [p \in Client |-> {}]
    /\ unsureRoom = {} /\ unsureList = {} /\ misled = {}

(***************************************************************************)
(* The tracker: what a thread takes up, and the change of the table.       *)
(***************************************************************************)
Other(t) == IF t = "main" THEN "output" ELSE "main"
Busy(t) == task[t].pc # "idle"
Alone(t) == task[t].table = "own"
TableOf(t) == IF Busy(Other(t)) THEN "shared" ELSE "own"

\* From here on neither thread has the table for itself if the other is at work.
Begin(t, p, op, r, pc) ==
    /\ ~failed /\ ~Busy(t)
    /\ tasks < MaxTasks /\ tasks' = tasks + 1
    /\ task' = [task EXCEPT ![t] = [Idle EXCEPT !.pc = pc, !.op = op, !.peer = p, !.room = r,
                                                !.table = TableOf(t)],
                            ![Other(t)].table = TableOf(t)]
    /\ unsureRoom' = IF task[Other(t)].peer = p THEN unsureRoom \cup ({p} \cap Client) ELSE unsureRoom
    /\ unsureList' = IF Busy(Other(t)) THEN Client ELSE unsureList
    /\ UNCHANGED <<member, failed, met, misled, clientVars, packets>>

\* The first number found free, by a walk for each: lower ones may have become free
\* behind it.  One of the first MAX_NUM_ROOMS was free when the rooms were counted.
FreeRooms == (1..MaxRooms) \ Occupied

peer_create_room(p) ==
    /\ Cardinality(Occupied) < MaxRooms
    /\ \E r \in FreeRooms : Begin("main", p, "c", r, "find")

peer_join(p, r) ==
    /\ r \in Occupied
    /\ Cardinality(Occupants(r)) < MaxRoomSize
    /\ Begin("main", p, "j", r, "find")

\* A request to leave (main), or an eviction by delete_dead_peers() (output).
peer_leave(t, p) ==
    /\ member[p] # 0
    /\ Begin(t, p, "l", member[p], "change")

\* main's HASH_FIND_STR(), after its walks: a request to create a room or to join
\* one is refused if the peer is in a room, in that room.
FindEntry ==
    LET k == task["main"]
    IN  /\ ~failed /\ k.pc = "find"
        /\ task' = [task EXCEPT !["main"] =
                       IF member[k.peer] = 0 \/ (k.op = "j" /\ member[k.peer] # k.room)
                       THEN [k EXCEPT !.pc = "change", !.old = member[k.peer]] ELSE Idle]
        /\ UNCHANGED <<tasks, member, failed, met, unsureRoom, unsureList, misled, clientVars, packets>>

\* Who is in a room with whom, after the step.
Meet == met' = [p \in Client |->
                   met[p] \cup {q \in Peer : member'[p] # 0 /\ member'[q] = member'[p]}]

\* HASH_ADD_STR(), or HASH_REPLACE_STR(), which looks for the entry again.
AddEntry ==
    LET k == task["main"]
    IN  /\ ~failed /\ k.pc = "change" /\ k.op # "l"
        /\ member' = [member EXCEPT ![k.peer] = k.room]
        /\ task' = [task EXCEPT !["main"].pc = IF k.op = "c" THEN "reply" ELSE "copy"]
        /\ Meet
        /\ UNCHANGED <<tasks, failed, unsureRoom, unsureList, misled, clientVars, packets>>

\* HASH_DEL() of the entry found, which must still be there.
DeleteEntry(t) ==
    LET k == task[t]
    IN  /\ ~failed /\ k.pc = "change" /\ k.op = "l" /\ member[k.peer] = k.room
        /\ member' = [member EXCEPT ![k.peer] = 0]
        /\ task' = [task EXCEPT ![t].pc = "reply"]
        /\ Meet
        /\ UNCHANGED <<tasks, failed, unsureRoom, unsureList, misled, clientVars, packets>>

(***************************************************************************)
(* The tracker: what it sends.                                             *)
(***************************************************************************)
Sent(p, pkt) == [q \in Client |-> IF q = p THEN Append(packets[q], pkt) ELSE packets[q]]
CanSend(p) == p \in Client => Len(packets[p]) < MaxPackets

\* The reply to a created room ends the request; after 'l' the room left is told.
SendReply(t) ==
    LET k == task[t]
    IN  /\ ~failed /\ k.pc = "reply" /\ CanSend(k.peer)
        /\ packets' = Sent(k.peer, IF k.op = "c" THEN [type |-> "c", room |-> k.room]
                                                 ELSE [type |-> "l"])
        /\ task' = [task EXCEPT ![t] = IF k.op = "c" THEN Idle ELSE [k EXCEPT !.pc = "copy"]]
        /\ unsureRoom' = IF Alone(t) THEN unsureRoom \ {k.peer} ELSE unsureRoom
        /\ unsureList' = IF Alone(t) THEN unsureList \ {k.peer} ELSE unsureList
        /\ UNCHANGED <<tasks, member, failed, met, misled, clientVars>>

\* The walks of the ping thread see entries that main adds, frees and uses again
\* meanwhile: they meet what they meet.  main meets whatever is not deleted.
Straying(t) == t = "output" /\ ~Alone(t)

\* The two walks of peer_list() that count the room and copy its roster.  When the
\* second meets fewer entries than the first, list[] ends in what the stack held
\* there; NoPeer stands for addresses of which nothing is known.
Rosters(t) ==
    IF Straying(t) THEN {{}, {NoPeer}}
    ELSE {Occupants(task[t].room)} \cup
         (IF Alone(t) THEN {} ELSE {Occupants(task[t].room) \cup {NoPeer}})

\* Mutant: everyone in the table, not only in the room.
CopyRoomEveryone(t) ==
    /\ ~failed /\ task[t].pc = "copy"
    /\ task' = [task EXCEPT ![t].pc = "send", ![t].list = {p \in Peer : member[p] # 0},
                            ![t].done = {}]
    /\ UNCHANGED <<tasks, member, failed, met, unsureRoom, unsureList, misled, clientVars, packets>>

CopyRoom(t) ==
    /\ ~failed /\ task[t].pc = "copy"
    /\ \E L \in Rosters(t) :
          task' = [task EXCEPT ![t].pc = "send", ![t].list = L, ![t].done = {}]
    /\ UNCHANGED <<tasks, member, failed, met, unsureRoom, unsureList, misled, clientVars, packets>>

\* Mutant: the joiner is sent the update, as everyone else in the room.
SendRosterUpdatesOnly(t, q) ==
    LET k == task[t]
    IN  /\ ~failed /\ k.pc = "send" /\ q \notin k.done /\ CanSend(q)
        /\ member[q] = k.room \/ ~Alone(t)
        /\ packets' = Sent(q, [type |-> "u", list |-> k.list])
        /\ task' = [task EXCEPT ![t].done = @ \cup {q}]
        /\ unsureRoom' = IF Alone(t) /\ k.op = "j" /\ q = k.peer THEN unsureRoom \ {q} ELSE unsureRoom
        /\ unsureList' = IF Alone(t) THEN unsureList \ {q} ELSE unsureList
        /\ misled' = IF Alone(t) THEN misled ELSE misled \cup {q}
        /\ UNCHANGED <<tasks, member, failed, met, clientVars>>

\* Third walk, one peer: the joiner gets the roster as its reply.  The entry a walk
\* stands on may be freed by the other thread, and lead to others that are.
SendRoster(t, q) ==
    LET k == task[t]
        reply == k.op = "j" /\ q = k.peer
    IN  /\ ~failed /\ k.pc = "send" /\ q \notin k.done /\ CanSend(q)
        /\ member[q] = k.room \/ ~Alone(t)
        /\ packets' = Sent(q, IF reply THEN [type |-> "j", room |-> k.room, list |-> k.list]
                                       ELSE [type |-> "u", list |-> k.list])
        /\ task' = [task EXCEPT ![t].done = @ \cup {q}]
        /\ unsureRoom' = IF Alone(t) /\ reply THEN unsureRoom \ {q} ELSE unsureRoom
        /\ unsureList' = IF Alone(t) THEN unsureList \ {q} ELSE unsureList
        /\ misled' = IF Alone(t) THEN misled ELSE misled \cup {q}
        /\ UNCHANGED <<tasks, member, failed, met, clientVars>>

\* The third walk ends; it may miss peers if it strays.
RosterEnds(t) ==
    LET k == task[t]
    IN  /\ ~failed /\ k.pc = "send"
        /\ Straying(t) \/ Occupants(k.room) \cap Client \subseteq k.done

\* Mutant: the room that the joiner switched from is not told.
RosterSentForgetsOld(t) ==
    /\ RosterEnds(t)
    /\ task' = [task EXCEPT ![t] = Idle]
    /\ UNCHANGED <<tasks, member, failed, met, unsureRoom, unsureList, misled, clientVars, packets>>

\* After the joiner's new room, the room it switched from is told.
RosterSent(t) ==
    /\ RosterEnds(t)
    /\ LET k == task[t]
       IN  task' = [task EXCEPT ![t] =
                       IF k.op = "j" /\ k.old # 0
                       THEN [k EXCEPT !.pc = "copy", !.op = "old", !.room = k.old, !.old = 0,
                                 !.list = {}, !.done = {}]
                       ELSE Idle]
    /\ UNCHANGED <<tasks, member, failed, met, unsureRoom, unsureList, misled, clientVars, packets>>

\* An entry that was found is freed by now, a list is longer than its array, or a
\* walk stands on a freed entry.  The tracker is done for.
Astray(t) ==
    LET k == task[t]
    IN  /\ ~Alone(t)
        /\ \/ k.pc = "change" /\ k.op = "l"
           \/ t = "output" /\ k.pc \in {"copy", "send"}
        /\ Fail
        /\ task' = [o \in Threads |-> Idle]
        /\ UNCHANGED <<tasks, met, unsureRoom, unsureList, misled, clientVars, packets>>

(***************************************************************************)
(* receive_packet().                                                       *)
(***************************************************************************)
\* The packet recvfrom() returns: the oldest one, or any.
Arrives(p, j) == j \in DOMAIN packets[p] /\ (j = 1 \/ reorders)

create_room_reply(p, pkt) ==
    /\ pkt.type = "c"
    /\ room_num' = [room_num EXCEPT ![p] = pkt.room]
    /\ peer_list' = [peer_list EXCEPT ![p] = {p}]
    /\ synced' = [synced EXCEPT ![p] = TRUE]

join_room_reply(p, pkt) ==
    /\ pkt.type = "j"
    /\ room_num' = [room_num EXCEPT ![p] = IF pkt.list = {} THEN 0 ELSE pkt.room]
    /\ peer_list' = [peer_list EXCEPT ![p] = pkt.list]
    /\ synced' = [synced EXCEPT ![p] = TRUE]

\* Mutant: another mark for "in no room".
leave_room_replyMinusOne(p, pkt) ==
    /\ pkt.type = "l"
    /\ room_num' = [room_num EXCEPT ![p] = -1]
    /\ peer_list' = [peer_list EXCEPT ![p] = {}]
    /\ synced' = [synced EXCEPT ![p] = TRUE]

leave_room_reply(p, pkt) ==
    /\ pkt.type = "l"
    /\ room_num' = [room_num EXCEPT ![p] = 0]
    /\ peer_list' = [peer_list EXCEPT ![p] = {}]
    /\ synced' = [synced EXCEPT ![p] = TRUE]

\* A roster without a room: it is taken whatever room it is of.
user_connection_updates(p, pkt) ==
    /\ pkt.type = "u"
    /\ peer_list' = IF pkt.list = {} THEN peer_list ELSE [peer_list EXCEPT ![p] = pkt.list]
    /\ UNCHANGED <<room_num, synced>>

receive_packet(p) ==
    /\ \E j \in 1..MaxPackets :
          /\ Arrives(p, j)
          /\ packets' = [packets EXCEPT ![p] = RemoveAt(@, j)]
          /\ LET pkt == packets[p][j]
             IN  \/ create_room_reply(p, pkt) \/ join_room_reply(p, pkt)
                 \/ leave_room_reply(p, pkt) \/ user_connection_updates(p, pkt)
    /\ UNCHANGED <<trackerVars, reorders>>

\* The packet that would be next is lost.
Lose(p) ==
    /\ p \in Faulty
    /\ packets[p] # << >>
    /\ packets' = [packets EXCEPT ![p] = Tail(@)]
    /\ synced' = [synced EXCEPT ![p] = FALSE]
    /\ UNCHANGED <<trackerVars, room_num, peer_list, reorders>>

\* The client is killed and started again on the same port.
Restart(p) ==
    /\ p \in Faulty
    /\ room_num' = [room_num EXCEPT ![p] = 0]
    /\ peer_list' = [peer_list EXCEPT ![p] = {}]
    /\ synced' = [synced EXCEPT ![p] = member[p] = 0 /\ packets[p] = << >>]
    /\ UNCHANGED <<trackerVars, packets, reorders>>

Requests == \E p \in Peer : \/ peer_create_room(p)
                            \/ \E r \in RoomNumbers : peer_join(p, r)
                            \/ \E t \in Threads : peer_leave(t, p)

ThreadStep(t) == \/ DeleteEntry(t) \/ SendReply(t) \/ CopyRoom(t)
                 \/ (\E q \in Client : SendRoster(t, q)) \/ RosterSent(t) \/ Astray(t)

Tracker == Requests \/ FindEntry \/ AddEntry \/ (\E t \in Threads : ThreadStep(t))

ClientStep(p) == receive_packet(p) \/ Restart(p) \/ Lose(p)

Next == Tracker \/ (\E p \in Client : ClientStep(p))

Spec == Init /\ [][Next]_vars

(***************************************************************************)
(* Properties.                                                             *)
(***************************************************************************)
\* Type invariant.
TypeOK ==
    /\ member \in [Peer -> RoomNumbers \cup {0}]
    /\ failed \in BOOLEAN
    /\ task \in [Threads -> Task] /\ tasks \in 0..MaxTasks
    /\ room_num \in [Client -> RoomNumbers \cup {0}]
    /\ peer_list \in [Client -> Lists]
    /\ packets \in [Client -> Seq(Packet)]
    /\ synced \in [Client -> BOOLEAN]
    /\ reorders \in BOOLEAN
    /\ met \in [Client -> SUBSET Peer]
    /\ unsureRoom \subseteq Client /\ unsureList \subseteq Client /\ misled \subseteq Client

\* Whom the tracker has in the room of p.
Roster(p) == IF member[p] = 0 THEN {} ELSE Occupants(member[p])

\* A reply to p is still to be sent: its membership has changed.
OwedBy(k, p) ==
    /\ k.peer = p
    /\ \/ k.pc = "reply"
       \/ k.op = "j" /\ k.pc \in {"copy", "send"} /\ p \notin k.done

Owed(p) == \E t \in Threads : OwedBy(task[t], p)

\* Unless packets overtake one another, a client for which no packet is under way
\* and no reply is owed is in the room the tracker has it in, whatever the two
\* threads did at the same time for other peers, and whatever rosters crossed.  If
\* both were at work on the client itself, after a restart, or after a lost packet,
\* it is so again as soon as it has taken a reply of a thread that worked alone.
RoomAgreement ==
    \A p \in Client :
        ~failed /\ ~reorders /\ packets[p] = << >> /\ synced[p] /\ p \notin unsureRoom /\ ~Owed(p) =>
            room_num[p] = member[p]

\* A roster is still to be sent to p, which is in room m: its room has changed.
DueBy(k, p, m) ==
    /\ m # 0
    /\ \/ k.room = m /\ k.op = "l" /\ k.pc = "reply"
       \/ k.room = m /\ k.pc = "copy"
       \/ k.room = m /\ k.pc = "send" /\ p \notin k.done
       \/ k.old = m /\ k.op = "j" /\ k.pc \in {"copy", "send"}

Due(p) == Owed(p) \/ \E t \in Threads : DueBy(task[t], p, member[p])

\* Likewise its peer_list is the roster of its room, when none is still to be sent
\* to it.  The threads spoil a list when they are at work at once (the older of two
\* rosters is sent last, or a roster goes to a peer that has just come), and the
\* next reply or roster sent by a thread that works alone repairs it.
ListAgreement ==
    \A p \in Client :
        ~failed /\ ~reorders /\ packets[p] = << >> /\ synced[p] /\ p \notin unsureList /\ ~Due(p) =>
            peer_list[p] = Roster(p)

\* A message goes only to clients that have shared a room with its sender, although
\* rosters come without a room number and may be of a room that was left, packets
\* overtake one another, and a client that was started again takes packets meant
\* for the one before it.  Only a roster made while both threads of the tracker
\* were at work may name a stranger.
OnlyToRoommates == \A p \in Client : p \notin misled => peer_list[p] \subseteq met[p]

(***************************************************************************)
(* Why these hold.                                                         *)
(***************************************************************************)
\* What a client makes of a packet: its peer_list, and its room if it is a reply.
ListOf(p, pkt) ==
    IF pkt.type = "c" THEN {p} ELSE IF pkt.type = "l" THEN {} ELSE pkt.list
IsReply(pkt) == pkt.type # "u"
RoomOf(pkt) == IF pkt.type = "l" \/ (pkt.type = "j" /\ pkt.list = {}) THEN 0 ELSE pkt.room

\* Packets q that arrive in order leave a client in room m: their last reply has it, or
\* the client has it already (its room is n, and s says whether it is in step).
RoomQueue(q, n, s, m) ==
    /\ \A j \in DOMAIN q :
          IsReply(q[j]) /\ (\A k \in (j + 1)..Len(q) : ~IsReply(q[k])) => RoomOf(q[j]) = m
    /\ s /\ (\A j \in DOMAIN q : ~IsReply(q[j])) => n = m

\* They leave client p with the list R: the last one has it, or p has it already.
ListQueue(p, q, l, s, R) ==
    /\ q # << >> => /\ ListOf(p, q[Len(q)]) = R
                    /\ q[Len(q)].type = "u" => R # {}
    /\ s /\ q = << >> => l = R

RoomsInOrder ==
    \A p \in Client : ~failed /\ ~reorders /\ p \notin unsureRoom /\ ~Owed(p) =>
        RoomQueue(packets[p], room_num[p], synced[p], member[p])

ListsInOrder ==
    \A p \in Client : ~failed /\ ~reorders /\ p \notin unsureList /\ ~Due(p) =>
        ListQueue(p, packets[p], peer_list[p], synced[p], Roster(p))

\* What a thread may be at.
TaskShape(t) ==
    LET k == task[t]
    IN  \/ k = Idle
        \/ /\ k.peer \in Peer /\ k.room \in RoomNumbers
           /\ \/ k.op = "c" /\ k.pc \in {"find", "change", "reply"}
              \/ k.op = "j" /\ k.pc \in {"find", "change", "copy", "send"}
              \/ k.op = "l" /\ k.pc \in {"change", "reply", "copy", "send"}
              \/ k.op = "old" /\ k.pc \in {"copy", "send"}
           /\ k.op # "l" => t = "main"
           /\ k.pc # "send" => k.done = {}

\* A thread that has the table for itself knows what is in it.
TaskAlone(t) ==
    LET k == task[t]
    IN  Alone(t) =>
        /\ Busy(t) => ~Busy(Other(t))
        /\ k.op = "c" /\ k.pc \in {"find", "change"} => Occupants(k.room) = {}
        /\ k.op = "c" /\ k.pc = "change" => member[k.peer] = 0
        /\ k.op = "c" /\ k.pc = "reply" => Occupants(k.room) = {k.peer}
        /\ k.op = "j" /\ k.pc = "change" => member[k.peer] = k.old
        /\ k.pc = "send" => k.list = Occupants(k.room)

\* Whether only this thread changes its peer's membership.
Trusted(t) == Alone(t) \/ task[t].peer \in Client \ unsureRoom

\* What it replies is then still so when it is sent, whatever the other thread does.
TaskTrusted(t) ==
    LET k == task[t]
    IN  Trusted(t) =>
        /\ k.op = "c" /\ k.pc = "reply" => member[k.peer] = k.room
        /\ k.op = "l" /\ k.pc = "reply" => member[k.peer] = 0
        /\ k.op = "j" /\ k.pc \in {"copy", "send"} => member[k.peer] = k.room
        /\ k.op = "j" /\ k.pc = "send" => k.peer \in k.list

\* When the threads are at work at once, no list is sure, and no room of a client
\* both are at work on.
ThreadsKept ==
    /\ \A t \in Threads : TaskShape(t) /\ TaskAlone(t) /\ TaskTrusted(t)
    /\ \A t \in Threads : ~Alone(t) => unsureList = Client
    /\ task["main"].peer = task["output"].peer /\ task["main"].peer \in Client =>
          task["main"].peer \in unsureRoom

\* Whoever a list names, held or under way, has been met, and whoever is in the room.
AllMet ==
    \A p \in Client :
        /\ member[p] # 0 => Occupants(member[p]) \subseteq met[p]
        /\ \A t \in Threads : task[t].peer = p /\ task[t].op = "c" /\ task[t].pc = "reply" => p \in met[p]
        /\ p \notin misled => /\ peer_list[p] \subseteq met[p]
                              /\ \A j \in DOMAIN packets[p] : ListOf(p, packets[p][j]) \subseteq met[p]

IInv == TypeOK /\ ThreadsKept /\ RoomsInOrder /\ ListsInOrder /\ AllMet
=============================================================================
