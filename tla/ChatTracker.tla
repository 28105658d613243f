---------------------------- MODULE ChatTracker ----------------------------
(***************************************************************************)
(* The chat tracker (src/examples/p2p-chat-example/tracker.c): a main      *)
(* thread that serves requests, a thread that pings the peers and evicts   *)
(* the silent ones, and a thread that reads the answers.  They share the   *)
(* hash table `peers'.  peers_lock covers single changes of the table;     *)
(* finding an entry and walking the list take no lock.                     *)
(*                                                                         *)
(* A step is one walk over the list, one HASH_FIND, or one critical        *)
(* section.  A walk takes no lock, and entries may be freed while it lasts *)
(* (they keep room and next).  But only main adds entries: while main      *)
(* walks, its room only shrinks, one entry at a time, and all it keeps of  *)
(* the walk is a count or a flag, which the table gives at some moment of  *)
(* it.  A walk of the ping thread may mix several tables; all that depends *)
(* on it is whether it sends a roster or overruns one.  Requests and       *)
(* answers to pings come from any running peer, at any time or never,      *)
(* which covers what UDP lost, repeated, delayed or reordered.  What the   *)
(* tracker answers is Chat's subject; an error answer changes nothing      *)
(* here.                                                                   *)
(*                                                                         *)
(* An entry is a block of the heap.  A freed block keeps its contents but  *)
(* for the key (the allocator's links lie over it) until malloc() hands it *)
(* out again; deleting an entry that is not in the table, or writing past  *)
(* a buffer, ends what can be said (undefined).                            *)
(***************************************************************************)
EXTENDS Integers, FiniteSets, Sequences, SequencesExt

CONSTANTS
    Peer,          \* clients, each with its address and port
    Node,          \* blocks for struct peer (a bound)
    NoNode,        \* NULL
    NoPeer,        \* the key of a freed block
    MayAnswer,     \* clients that may answer pings
    MayCrash,      \* clients that may be killed
    MaxRooms,      \* MAX_NUM_ROOMS
    MaxRoomSize    \* MAX_ROOM_SIZE

ASSUME ChatAssumption ==
    /\ IsFiniteSet(Peer) /\ IsFiniteSet(Node)
    /\ NoNode \notin Node /\ NoPeer \notin Peer 
    /\ MayAnswer \subseteq Peer /\ MayCrash \subseteq Peer
    /\ MaxRooms \in Nat \ {0} /\ MaxRoomSize \in Nat \ {0}

VARIABLES
    peers,      \* the entries in the table, in the order they were added
    heap,       \* the contents of every block
    leaked,     \* blocks that left the table and were not freed
    thread,     \* locals of the main thread and of ping_output()
    marking,    \* the entry mark_peer_alive() has found
    up,         \* the clients that run
    undefined   \* why nothing more is defined, or "none"

vars == <<peers, heap, leaked, thread, marking, up, undefined>>

Threads == {"main", "output"}
RoomNumber == 1..(2 * MaxRooms)

\* peer: whose request or eviction; room, old: the room entered or left, the one
\* switched from; node: the entry found; new: the block malloc() returned; walk:
\* the loop's s; count, listed: what peer_list() has counted, and whether the
\* joiner is among what it has copied.
Idle == [pc |-> "recv", peer |-> NoPeer, room |-> 0, old |-> 0, node |-> NoNode,
         new |-> NoNode, walk |-> NoNode, joiner |-> NoPeer, count |-> 0, listed |-> FALSE]

Entries == {peers[j] : j \in DOMAIN peers}
First == IF peers = << >> THEN NoNode ELSE peers[1]
Place(b) == CHOOSE j \in DOMAIN peers : peers[j] = b

\* The entry's next pointer; a removed entry keeps the one it had.
Succ(b) ==
    IF b \notin Entries THEN heap[b].next
    ELSE IF Place(b) = Len(peers) THEN NoNode ELSE peers[Place(b) + 1]

HASH_FIND(p) ==
    IF \E b \in Entries : heap[b].key = p
    THEN CHOOSE b \in Entries : heap[b].key = p ELSE NoNode

\* HASH_ADD: at the end of the list.
HASH_ADD(list, b) == Append(list, b)

\* HASH_DELETE: the list without b, and the heap with b's old next pointer.
Without(b) == RemoveAt(peers, Place(b))
Unlinked(b) == [heap EXCEPT ![b].next = Succ(b)]

InRoom(r) == {b \in Entries : heap[b].room = r}
UsedRooms == {heap[b].room : b \in Entries}

Held(b) ==
    \/ marking = b
    \/ \E t \in Threads : b \in {thread[t].node, thread[t].new, thread[t].walk}

\* What malloc() may return: memory that is not in use, or never was.
Mallocable == {b \in Node \ Entries : ~(Held(b) /\ b \in leaked)} \ {thread["main"].new}

NewEntry(p, r) == [key |-> p, room |-> r, alive |-> TRUE, next |-> NoNode]

Set(t, rec) == thread' = [thread EXCEPT ![t] = rec]

(***************************************************************************)
(* peer_create_room(): three reads of the table before the one change.     *)
(***************************************************************************)
get_total_num_rooms == Cardinality(UsedRooms)

CreateCount(p) ==
    /\ thread["main"].pc = "recv"
    /\ p \in up
    /\ get_total_num_rooms < MaxRooms
    /\ Set("main", [thread["main"] EXCEPT !.pc = "number", !.peer = p])
    /\ UNCHANGED <<peers, heap, leaked, marking, up, undefined>>

\* Mutant: rooms are numbered from 0.
CreateNumberFromZero ==
    /\ thread["main"].pc = "number"
    /\ \E b \in Mallocable, r \in (0..MaxRooms) \ UsedRooms :
          /\ heap' = [heap EXCEPT ![b] = NewEntry(thread["main"].peer, r)]
          /\ Set("main", [thread["main"] EXCEPT !.pc = "create", !.room = r, !.new = b])
          /\ leaked' = leaked \ {b}
    /\ UNCHANGED <<peers, marking, up, undefined>>

\* One walk for each number, up to the first that is free: lower ones may have become
\* free behind it.  One of the first MAX_NUM_ROOMS was free when the rooms were counted.
CreateNumber ==
    /\ thread["main"].pc = "number"
    /\ \E b \in Mallocable, r \in (1..MaxRooms) \ UsedRooms :
          /\ heap' = [heap EXCEPT ![b] = NewEntry(thread["main"].peer, r)]
          /\ Set("main", [thread["main"] EXCEPT !.pc = "create", !.room = r, !.new = b])
          /\ leaked' = leaked \ {b}
    /\ UNCHANGED <<peers, marking, up, undefined>>

\* The peer is in a room already: an error, and the new block is forgotten.
CreateFound ==
    /\ thread["main"].pc = "create"
    /\ HASH_FIND(thread["main"].peer) # NoNode
    /\ leaked' = leaked \cup {thread["main"].new}
    /\ Set("main", Idle)
    /\ UNCHANGED <<peers, heap, marking, up, undefined>>

CreateAbsent ==
    /\ thread["main"].pc = "create"
    /\ HASH_FIND(thread["main"].peer) = NoNode
    /\ Set("main", [thread["main"] EXCEPT !.pc = "add"])
    /\ UNCHANGED <<peers, heap, leaked, marking, up, undefined>>

\* HASH_ADD_STR under peers_lock, then the answer.
CreateAdd ==
    /\ thread["main"].pc = "add"
    /\ peers' = HASH_ADD(peers, thread["main"].new)
    /\ Set("main", Idle)
    /\ UNCHANGED <<heap, leaked, marking, up, undefined>>

(***************************************************************************)
(* peer_join().                                                            *)
(***************************************************************************)
\* Mutant: one peer too many.
JoinCountOneMore(p, r) ==
    /\ thread["main"].pc = "recv"
    /\ p \in up
    /\ InRoom(r) # {}
    /\ Cardinality(InRoom(r)) <= MaxRoomSize
    /\ \E b \in Mallocable :
          /\ heap' = [heap EXCEPT ![b] = NewEntry(p, r)]
          /\ Set("main", [thread["main"] EXCEPT !.pc = "join", !.peer = p, !.room = r, !.new = b])
          /\ leaked' = leaked \ {b}
    /\ UNCHANGED <<peers, marking, up, undefined>>

JoinCount(p, r) ==
    /\ thread["main"].pc = "recv"
    /\ p \in up
    /\ InRoom(r) # {}
    /\ Cardinality(InRoom(r)) < MaxRoomSize
    /\ \E b \in Mallocable :
          /\ heap' = [heap EXCEPT ![b] = NewEntry(p, r)]
          /\ Set("main", [thread["main"] EXCEPT !.pc = "join", !.peer = p, !.room = r, !.new = b])
          /\ leaked' = leaked \ {b}
    /\ UNCHANGED <<peers, marking, up, undefined>>

AlreadyIn(p, r) == HASH_FIND(p) # NoNode /\ heap[HASH_FIND(p)].room = r

JoinAlreadyIn ==
    /\ thread["main"].pc = "join"
    /\ AlreadyIn(thread["main"].peer, thread["main"].room)
    /\ leaked' = leaked \cup {thread["main"].new}
    /\ Set("main", Idle)
    /\ UNCHANGED <<peers, heap, marking, up, undefined>>

JoinFind ==
    /\ thread["main"].pc = "join"
    /\ ~AlreadyIn(thread["main"].peer, thread["main"].room)
    /\ LET s == HASH_FIND(thread["main"].peer)
       IN  Set("main", [thread["main"] EXCEPT
              !.pc = "enter", !.old = IF s = NoNode THEN 0 ELSE heap[s].room])
    /\ UNCHANGED <<peers, heap, leaked, marking, up, undefined>>

\* The rosters peer_join() sends next: its room's, and the one it came from.
Entered == [Idle EXCEPT !.pc = "count", !.room = thread["main"].room,
                        !.old = thread["main"].old, !.joiner = thread["main"].peer]

\* HASH_ADD_STR under peers_lock.
JoinAdd ==
    /\ thread["main"].pc = "enter"
    /\ thread["main"].old = 0
    /\ peers' = HASH_ADD(peers, thread["main"].new)
    /\ Set("main", Entered)
    /\ UNCHANGED <<heap, leaked, marking, up, undefined>>

\* Mutant: HASH_ADD_STR in place of HASH_REPLACE_STR.
JoinReplaceAdds ==
    /\ thread["main"].pc = "enter"
    /\ thread["main"].old # 0
    /\ peers' = HASH_ADD(peers, thread["main"].new)
    /\ Set("main", Entered)
    /\ UNCHANGED <<heap, leaked, marking, up, undefined>>

\* HASH_REPLACE_STR finds the entry again under peers_lock; it is not freed.
JoinReplace ==
    /\ thread["main"].pc = "enter"
    /\ thread["main"].old # 0
    /\ LET s == HASH_FIND(thread["main"].peer)
       IN  IF s = NoNode
           THEN peers' = HASH_ADD(peers, thread["main"].new) /\ UNCHANGED <<heap, leaked>>
           ELSE /\ peers' = HASH_ADD(Without(s), thread["main"].new)
                /\ heap' = Unlinked(s)
                /\ leaked' = leaked \cup {s}
    /\ Set("main", Entered)
    /\ UNCHANGED <<marking, up, undefined>>

(***************************************************************************)
(* peer_leave(), called by the main thread for a request and by the ping   *)
(* thread for an eviction.                                                 *)
(***************************************************************************)
LeaveFind(p) ==
    /\ thread["main"].pc = "recv"
    /\ p \in up
    /\ HASH_FIND(p) # NoNode
    /\ Set("main", [thread["main"] EXCEPT !.pc = "del", !.node = HASH_FIND(p),
                                          !.room = heap[HASH_FIND(p)].room])
    /\ UNCHANGED <<peers, heap, leaked, marking, up, undefined>>

\* Mutant: what follows the entry in the list is unlinked with it.
LeaveDeleteTail(t) ==
    /\ thread[t].pc = "del"
    /\ LET s == thread[t].node
       IN  IF s \in Entries
           THEN /\ peers' = SubSeq(peers, 1, Place(s) - 1)
                /\ heap' = [Unlinked(s) EXCEPT ![s].key = NoPeer]
                /\ Set(t, [Idle EXCEPT !.pc = "count", !.room = thread[t].room,
                                       !.walk = thread[t].walk])
                /\ UNCHANGED undefined
           ELSE undefined' = "deleted twice" /\ UNCHANGED <<peers, heap, thread>>
    /\ UNCHANGED <<leaked, marking, up>>

\* HASH_DEL and free() under peers_lock.
LeaveDelete(t) ==
    /\ thread[t].pc = "del"
    /\ LET s == thread[t].node
       IN  IF s \in Entries
           THEN /\ peers' = Without(s)
                /\ heap' = [Unlinked(s) EXCEPT ![s].key = NoPeer]
                /\ Set(t, [Idle EXCEPT !.pc = "count", !.room = thread[t].room,
                                       !.walk = thread[t].walk])
                /\ UNCHANGED undefined
           ELSE undefined' = "deleted twice" /\ UNCHANGED <<peers, heap, thread>>
    /\ UNCHANGED <<leaked, marking, up>>

(***************************************************************************)
(* peer_list(): three walks, to count, to copy and to send.                *)
(***************************************************************************)
\* Mutant: the joiner is not counted.
RosterCountOthers(t) ==
    /\ thread[t].pc = "count"
    /\ Set(t, [thread[t] EXCEPT !.pc = "fill",
                  !.count = Cardinality({b \in InRoom(thread[t].room) : heap[b].key # thread[t].joiner})])
    /\ UNCHANGED <<peers, heap, leaked, marking, up, undefined>>

RosterCount(t) ==
    /\ thread[t].pc = "count"
    /\ Set(t, [thread[t] EXCEPT !.pc = "fill", !.count = Cardinality(InRoom(thread[t].room))])
    /\ UNCHANGED <<peers, heap, leaked, marking, up, undefined>>

\* Mutant: the list is copied one entry short.
RosterFillShort(t) ==
    /\ thread[t].pc = "fill"
    /\ LET here == InRoom(thread[t].room) \ (IF peers = << >> THEN {} ELSE {peers[Len(peers)]})
       IN  IF Cardinality(here) <= thread[t].count
           THEN /\ Set(t, [thread[t] EXCEPT !.pc = "send", !.listed = \E b \in here : heap[b].key = thread[t].joiner])
                /\ UNCHANGED undefined
           ELSE /\ undefined' = IF t = "main" THEN "main roster" ELSE "output roster"
                /\ UNCHANGED thread
    /\ UNCHANGED <<peers, heap, leaked, marking, up>>

\* The second walk writes past list[num_in_room] if it meets more entries.
RosterFill(t) ==
    /\ thread[t].pc = "fill"
    /\ LET here == InRoom(thread[t].room)
       IN  IF Cardinality(here) <= thread[t].count
           THEN /\ Set(t, [thread[t] EXCEPT !.pc = "send", !.listed = \E b \in here : heap[b].key = thread[t].joiner])
                /\ UNCHANGED undefined
           ELSE /\ undefined' = IF t = "main" THEN "main roster" ELSE "output roster"
                /\ UNCHANGED thread
    /\ UNCHANGED <<peers, heap, leaked, marking, up>>

\* The roster goes to everyone in the room; then peer_join() sends the old
\* room's, and delete_dead_peers() moves on from an entry it has freed.
RosterSend(t) ==
    /\ thread[t].pc = "send"
    /\ Set(t, IF thread[t].old # 0
              THEN [Idle EXCEPT !.pc = "count", !.room = thread[t].old]
              ELSE IF t = "main" THEN Idle
              ELSE [Idle EXCEPT !.pc = "check", !.walk = Succ(thread[t].walk)])
    /\ UNCHANGED <<peers, heap, leaked, marking, up, undefined>>

(***************************************************************************)
(* room_list(): the arrays are sized by a first walk and filled by a       *)
(* second one, which looks a new room up at index -1; the text buffer has  *)
(* room for one entry.                                                     *)
(***************************************************************************)
RoomListCount(p) ==
    /\ thread["main"].pc = "recv"
    /\ p \in up
    /\ Set("main", [thread["main"] EXCEPT !.pc = "rooms", !.count = get_total_num_rooms])
    /\ UNCHANGED <<peers, heap, leaked, marking, up, undefined>>

RoomListReply ==
    /\ thread["main"].pc = "rooms"
    /\ Set("main", Idle)
    /\ UNCHANGED <<peers, heap, leaked, marking, up, undefined>>

RoomListOverrun ==
    /\ thread["main"].pc = "rooms"
    /\ thread["main"].count > 0
    /\ undefined' = "room list"
    /\ UNCHANGED <<peers, heap, leaked, thread, marking, up>>

(***************************************************************************)
(* ping_output().                                                          *)
(***************************************************************************)
\* Mutant: the entry is pinged and not marked.
SendPingUnmarked ==
    /\ thread["output"].pc = "ping"
    /\ thread["output"].walk # NoNode
    /\ Set("output", [thread["output"] EXCEPT !.walk = Succ(thread["output"].walk)])
    /\ UNCHANGED <<peers, heap, leaked, marking, up, undefined>>

\* send_pings(): mark one entry dead under peers_lock and send it a ping.
SendPing ==
    /\ thread["output"].pc = "ping"
    /\ thread["output"].walk # NoNode
    /\ LET s == thread["output"].walk
       IN  /\ heap' = [heap EXCEPT ![s].alive = FALSE]
           /\ Set("output", [thread["output"] EXCEPT !.walk = Succ(s)])
    /\ UNCHANGED <<peers, leaked, marking, up, undefined>>

AllPinged ==
    /\ thread["output"].pc = "ping"
    /\ thread["output"].walk = NoNode
    /\ Set("output", [thread["output"] EXCEPT !.pc = "wait"])
    /\ UNCHANGED <<peers, heap, leaked, marking, up, undefined>>

\* Five seconds of processor time have passed.
PingTimeout ==
    /\ thread["output"].pc = "wait"
    /\ Set("output", [thread["output"] EXCEPT !.pc = "check", !.walk = First])
    /\ UNCHANGED <<peers, heap, leaked, marking, up, undefined>>

\* delete_dead_peers(): one entry.
CheckPeer ==
    /\ thread["output"].pc = "check"
    /\ thread["output"].walk # NoNode
    /\ LET s == thread["output"].walk
       IN  Set("output", IF heap[s].alive
                         THEN [thread["output"] EXCEPT !.walk = Succ(s)]
                         ELSE [thread["output"] EXCEPT !.pc = "evict", !.peer = heap[s].key])
    /\ UNCHANGED <<peers, heap, leaked, marking, up, undefined>>

\* peer_leave() looks the peer up by its address.
EvictFind ==
    /\ thread["output"].pc = "evict"
    /\ LET s == HASH_FIND(thread["output"].peer)
       IN  Set("output", IF s = NoNode
                         THEN [Idle EXCEPT !.pc = "check", !.walk = Succ(thread["output"].walk)]
                         ELSE [Idle EXCEPT !.pc = "del", !.walk = thread["output"].walk,
                                           !.node = s, !.room = heap[s].room])
    /\ UNCHANGED <<peers, heap, leaked, marking, up, undefined>>

AllChecked ==
    /\ thread["output"].pc = "check"
    /\ thread["output"].walk = NoNode
    /\ Set("output", [Idle EXCEPT !.pc = "ping", !.walk = First])
    /\ UNCHANGED <<peers, heap, leaked, marking, up, undefined>>

(***************************************************************************)
(* ping_input(): mark_peer_alive() finds the entry and marks it later,     *)
(* under peers_lock.                                                       *)
(***************************************************************************)
\* A running client answers a ping, sooner or later or, if a packet is lost, never.
reply_to_ping(p) == p \in up \cap MayAnswer

PongFind(p) ==
    /\ marking = NoNode
    /\ reply_to_ping(p)
    /\ HASH_FIND(p) # NoNode
    /\ marking' = HASH_FIND(p)
    /\ UNCHANGED <<peers, heap, leaked, thread, up, undefined>>

PongMark ==
    /\ marking # NoNode
    /\ heap' = [heap EXCEPT ![marking].alive = TRUE]
    /\ marking' = NoNode
    /\ UNCHANGED <<peers, leaked, thread, up, undefined>>

(***************************************************************************)
(* The clients.                                                            *)
(***************************************************************************)
Crash(p) ==
    /\ p \in up \cap MayCrash
    /\ up' = up \ {p}
    /\ UNCHANGED <<peers, heap, leaked, thread, marking, undefined>>

Init ==
    /\ peers = << >>
    /\ heap = [b \in Node |-> [key |-> NoPeer, room |-> 0, alive |-> FALSE, next |-> NoNode]]
    /\ leaked = {}
    /\ thread = [t \in Threads |-> IF t = "main" THEN Idle ELSE [Idle EXCEPT !.pc = "ping"]]
    /\ marking = NoNode
    /\ up = Peer
    /\ undefined = "none"

Request ==
    \E p \in Peer : \/ CreateCount(p) \/ LeaveFind(p) \/ RoomListCount(p)
                    \/ \E r \in RoomNumber : JoinCount(p, r)

MainStep ==
    \/ CreateNumber \/ CreateFound \/ CreateAbsent \/ CreateAdd
    \/ JoinAlreadyIn \/ JoinFind \/ JoinAdd \/ JoinReplace
    \/ LeaveDelete("main") \/ RosterCount("main") \/ RosterFill("main") \/ RosterSend("main")
    \/ RoomListReply \/ RoomListOverrun

OutputStep ==
    \/ SendPing \/ AllPinged \/ PingTimeout \/ CheckPeer \/ EvictFind \/ AllChecked
    \/ LeaveDelete("output") \/ RosterCount("output") \/ RosterFill("output") \/ RosterSend("output")

InputStep == PongMark \/ \E p \in Peer : PongFind(p)

ClientStep == \E p \in Peer : Crash(p)

Next == undefined = "none" /\ (Request \/ MainStep \/ OutputStep \/ InputStep \/ ClientStep)

\* The threads are scheduled; nobody has to send requests or answer pings.
Fairness ==
    /\ WF_vars(undefined = "none" /\ MainStep)
    /\ WF_vars(undefined = "none" /\ OutputStep)
    /\ WF_vars(undefined = "none" /\ InputStep)

SafetySpec == Init /\ [][Next]_vars
Spec == SafetySpec /\ Fairness

(***************************************************************************)
(* Properties.                                                             *)
(***************************************************************************)
ThreadState ==
    [pc : {"recv", "number", "create", "add", "join", "enter", "del", "count", "fill",
           "send", "rooms", "ping", "wait", "check", "evict"},
     peer : Peer \cup {NoPeer}, room : RoomNumber \cup {0}, old : RoomNumber \cup {0},
     node : Node \cup {NoNode}, new : Node \cup {NoNode}, walk : Node \cup {NoNode},
     joiner : Peer \cup {NoPeer}, count : 0..Cardinality(Node), listed : BOOLEAN]

\* The state is well formed, and what is in the table is an entry, not a freed block.
TypeOK ==
    /\ peers \in Seq(Node)
    /\ \A b \in Entries : heap[b].key \in Peer /\ heap[b].room \in RoomNumber
    /\ heap \in [Node -> [key : Peer \cup {NoPeer}, room : RoomNumber \cup {0},
                          alive : BOOLEAN, next : Node \cup {NoNode}]]
    /\ leaked \subseteq Node
    /\ thread \in [Threads -> ThreadState]
    /\ marking \in Node \cup {NoNode}
    /\ up \subseteq Peer
    /\ undefined \in {"none", "deleted twice", "main roster", "output roster", "room list"}

\* Although peer_create_room() and peer_join() check the limits in walks of their
\* own, steps before the entry is added and without peers_lock, there are never
\* more than MAX_NUM_ROOMS rooms (get_total_num_rooms() has no place to count
\* more) and never more than MAX_ROOM_SIZE entries in one of them.
LimitsKept ==
    /\ Cardinality(UsedRooms) <= MaxRooms
    /\ \A r \in RoomNumber : Cardinality(InRoom(r)) <= MaxRoomSize

\* The table has one entry for each peer at most, although HASH_FIND and HASH_ADD
\* are separate steps and the ping thread deletes entries between them.
OneEntryPerPeer ==
    \A j, k \in DOMAIN peers : heap[peers[j]].key = heap[peers[k]].key => j = k

\* The main thread sizes an array by one walk and fills it by another, in
\* peer_list() and in room_list(): the second never meets more than the first.
\* (The ping thread has no such guarantee: a peer may join between its walks.)
MainWalksAgree ==
    /\ undefined # "main roster"
    /\ thread["main"].pc = "rooms" => get_total_num_rooms <= thread["main"].count

\* When peer_list() is about to send the roster of the room it reports to its
\* joiner, the joiner, if still in the room, is on that roster.
JoinerOnRoster ==
    LET m == thread["main"]
    IN  m.pc = "send" /\ (\E b \in InRoom(m.room) : heap[b].key = m.joiner)
        => m.listed

EntryOf(p) == {b \in Entries : heap[b].key = p}

\* What a request has found out in one walk still holds when a later step acts on
\* it, although peer_leave() of the ping thread changes the table in between: there
\* is still a free number and a free place, the new entry is nobody else's, a peer
\* that was absent is absent, and one that moves is not in the room it moves to.
\* And the ping thread is on a block whenever it evicts, and never sends the roster
\* of a second room, after which it would not know where it was in the list.
RequestKept ==
    LET m == thread["main"]
        o == thread["output"]
    IN  /\ m.pc = "number" => m.peer \in Peer /\ Cardinality(UsedRooms) < MaxRooms
        /\ m.pc \in {"create", "add", "join", "enter"} =>
              /\ m.peer \in Peer /\ m.room \in RoomNumber /\ m.new \in Node \ Entries
              /\ heap[m.new].key = m.peer /\ heap[m.new].room = m.room
              /\ Cardinality(UsedRooms \cup {m.room}) <= MaxRooms
              /\ Cardinality(InRoom(m.room)) < MaxRoomSize
        /\ m.pc = "add" => EntryOf(m.peer) = {}
        /\ m.pc = "enter" => \A b \in EntryOf(m.peer) : m.old # 0 /\ heap[b].room # m.room
        /\ m.pc = "fill" => Cardinality(InRoom(m.room)) <= m.count
        /\ o.pc \in {"evict", "del", "count", "fill", "send"} => o.walk \in Node
        /\ o.old = 0

\* Seen from outside the tracker is the one of Rooms, whatever the threads do.
RoomOfPeer == [p \in Peer |-> IF HASH_FIND(p) = NoNode THEN 0 ELSE heap[HASH_FIND(p)].room]

InRoomsOf == INSTANCE Rooms WITH member <- RoomOfPeer, failed <- undefined # "none"

ImplementsRooms == InRoomsOf!RoomSpec

\* Once no more requests come, a client that was killed is removed from its room
\* by the ping thread, whatever was under way when it was killed.
KilledForgotten ==
    <>[](thread["main"].pc = "recv")
    => \A p \in Peer : p \notin up ~> (HASH_FIND(p) = NoNode \/ undefined # "none")
=============================================================================
