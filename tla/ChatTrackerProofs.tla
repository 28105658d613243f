------------------------- MODULE ChatTrackerProofs -------------------------
(***************************************************************************)
(* Proofs about ChatTracker, for any number of peers, of blocks, of rooms  *)
(* and of places in a room, and every interleaving of the three threads.   *)
(***************************************************************************)
EXTENDS ChatTracker, ListFacts

(***************************************************************************)
(* The table as a set of entries E with their contents h, whatever their   *)
(* order in the list.                                                      *)
(***************************************************************************)
RoomIn(E, h, r) == {b \in E : h[b].room = r}
RoomsIn(E, h) == {h[b].room : b \in E}

TableOK(E, h) ==
    /\ E \subseteq Node
    /\ \A b \in E : h[b].key \in Peer /\ h[b].room \in RoomNumber
    /\ \A b, c \in E : h[b].key = h[c].key => b = c
    /\ Cardinality(RoomsIn(E, h)) <= MaxRooms
    /\ \A r \in RoomNumber : Cardinality(RoomIn(E, h, r)) <= MaxRoomSize

\* There is a place in room r for block b, the entry of peer p.
PlaceFor(E, h, b, p, r) ==
    /\ p \in Peer /\ r \in RoomNumber /\ b \in Node \ E
    /\ h[b].key = p /\ h[b].room = r
    /\ Cardinality(RoomsIn(E, h) \cup {r}) <= MaxRooms
    /\ Cardinality(RoomIn(E, h, r)) < MaxRoomSize

\* What the main thread relies on, with m its locals.
MainOK(E, h, m) ==
    /\ m.pc = "number" => m.peer \in Peer /\ Cardinality(RoomsIn(E, h)) < MaxRooms
    /\ m.pc \in {"create", "add", "join", "enter"} => PlaceFor(E, h, m.new, m.peer, m.room)
    /\ m.pc = "add" => \A b \in E : h[b].key # m.peer
    /\ m.pc = "enter" => \A b \in E : h[b].key = m.peer => m.old # 0 /\ h[b].room # m.room
    /\ m.pc = "fill" => Cardinality(RoomIn(E, h, m.room)) <= m.count
    /\ m.pc = "rooms" => Cardinality(RoomsIn(E, h)) <= m.count

\* A joiner that is in its room is on the roster that is sent.
SendOK(E, h, m) ==
    m.pc = "send" => (\A b \in E : h[b].room = m.room /\ h[b].key = m.joiner => m.listed)

OutOK(o) ==
    /\ o.pc \in {"evict", "del", "count", "fill", "send"} => o.walk \in Node
    /\ o.old = 0

LEMMA ConstantFacts ==
    /\ IsFiniteSet(Node) /\ Cardinality(Node) \in Nat
    /\ MaxRooms \in Nat /\ MaxRooms > 0 /\ MaxRoomSize \in Nat /\ MaxRoomSize > 0
    /\ RoomNumber \subseteq Nat \ {0}
    /\ IsFiniteSet(RoomNumber) /\ Cardinality(RoomNumber) = 2 * MaxRooms
<1>1. /\ MaxRooms \in Nat /\ MaxRooms > 0 /\ MaxRoomSize \in Nat /\ MaxRoomSize > 0
      /\ RoomNumber \subseteq Nat \ {0} /\ IsFiniteSet(Node)
  BY ChatAssumption DEF RoomNumber
<1>2. 1 \in Int /\ 2 * MaxRooms \in Int /\ ~(1 > 2 * MaxRooms) /\ 2 * MaxRooms - 1 + 1 = 2 * MaxRooms
  BY <1>1
<1>3. IsFiniteSet(1..(2 * MaxRooms))
      /\ Cardinality(1..(2 * MaxRooms)) = IF 1 > 2 * MaxRooms THEN 0 ELSE 2 * MaxRooms - 1 + 1
  BY <1>2, FS_Interval
<1>4. Cardinality(Node) \in Nat
  BY <1>1, FS_CardinalityType
<1> QED BY <1>1, <1>2, <1>3, <1>4 DEF RoomNumber

\* Rooms are finite, and no larger than the heap.
LEMMA RoomSizes ==
    ASSUME NEW E \in SUBSET Node, NEW h, NEW r
    PROVE  /\ IsFiniteSet(RoomIn(E, h, r)) /\ Cardinality(RoomIn(E, h, r)) \in 0..Cardinality(Node)
           /\ IsFiniteSet(RoomsIn(E, h)) /\ Cardinality(RoomsIn(E, h)) \in 0..Cardinality(Node)
<1>1. IsFiniteSet(E) /\ Cardinality(E) \in Nat /\ Cardinality(E) <= Cardinality(Node)
  BY ConstantFacts, FS_Subset, FS_CardinalityType
<1>2. /\ IsFiniteSet(RoomIn(E, h, r)) /\ Cardinality(RoomIn(E, h, r)) \in Nat
      /\ Cardinality(RoomIn(E, h, r)) <= Cardinality(E)
  <2>1. RoomIn(E, h, r) \in SUBSET E
    BY DEF RoomIn
  <2> QED BY <1>1, <2>1, FS_Subset, FS_CardinalityType
<1>3. /\ IsFiniteSet(RoomsIn(E, h)) /\ Cardinality(RoomsIn(E, h)) \in Nat
      /\ Cardinality(RoomsIn(E, h)) <= Cardinality(E)
  <2> DEFINE f == [b \in E |-> h[b].room]
             T == RoomsIn(E, h)
  <2>1. f \in [E -> T] /\ \A y \in T : \E x \in E : f[x] = y
    BY DEF RoomsIn
  <2> HIDE DEF f, T
  <2>2. IsFiniteSet(T) /\ Cardinality(T) <= Cardinality(E)
    BY <1>1, <2>1, ImageFacts
  <2> QED BY <2>2, FS_CardinalityType DEF T
<1> QED BY <1>1, <1>2, <1>3, ConstantFacts

\* Where nothing but deletions and other fields happen, rooms only get smaller.
LEMMA SmallerRooms ==
    ASSUME NEW E \in SUBSET Node, NEW F \in SUBSET E, NEW h, NEW g, NEW r,
           \A b \in F : g[b].key = h[b].key /\ g[b].room = h[b].room
    PROVE  /\ Cardinality(RoomIn(F, g, r)) <= Cardinality(RoomIn(E, h, r))
           /\ Cardinality(RoomsIn(F, g)) <= Cardinality(RoomsIn(E, h))
           /\ Cardinality(RoomsIn(F, g) \cup {r}) <= Cardinality(RoomsIn(E, h) \cup {r})
<1>1. RoomIn(F, g, r) \in SUBSET RoomIn(E, h, r)
  BY DEF RoomIn
<1>2. RoomsIn(F, g) \in SUBSET RoomsIn(E, h)
  BY DEF RoomsIn
<1>3. RoomsIn(F, g) \cup {r} \in SUBSET (RoomsIn(E, h) \cup {r})
  BY <1>2
<1>4. IsFiniteSet(RoomIn(E, h, r)) /\ IsFiniteSet(RoomsIn(E, h))
  BY RoomSizes
<1>5. IsFiniteSet(RoomsIn(E, h) \cup {r})
  BY <1>4, FS_AddElement
<1>6. Cardinality(RoomIn(F, g, r)) <= Cardinality(RoomIn(E, h, r))
  BY <1>1, <1>4, FS_Subset
<1>7. Cardinality(RoomsIn(F, g)) <= Cardinality(RoomsIn(E, h))
  BY <1>2, <1>4, FS_Subset
<1>8. Cardinality(RoomsIn(F, g) \cup {r}) <= Cardinality(RoomsIn(E, h) \cup {r})
  BY <1>3, <1>5, FS_Subset
<1> QED BY <1>6, <1>7, <1>8

LEMMA SmallerTable ==
    ASSUME NEW E, NEW F \in SUBSET E, NEW h, NEW g, TableOK(E, h),
           \A b \in F : g[b].key = h[b].key /\ g[b].room = h[b].room
    PROVE  TableOK(F, g)
<1>1. E \in SUBSET Node /\ F \in SUBSET Node
  BY DEF TableOK
<1>2. \A r : /\ Cardinality(RoomIn(F, g, r)) <= Cardinality(RoomIn(E, h, r))
             /\ Cardinality(RoomsIn(F, g)) <= Cardinality(RoomsIn(E, h))
  BY <1>1, SmallerRooms
<1>3. \A r : /\ Cardinality(RoomIn(F, g, r)) \in Nat /\ Cardinality(RoomIn(E, h, r)) \in Nat
             /\ Cardinality(RoomsIn(F, g)) \in Nat /\ Cardinality(RoomsIn(E, h)) \in Nat
  <2>1. \A r : /\ Cardinality(RoomIn(F, g, r)) \in 0..Cardinality(Node)
               /\ Cardinality(RoomIn(E, h, r)) \in 0..Cardinality(Node)
               /\ Cardinality(RoomsIn(F, g)) \in 0..Cardinality(Node)
               /\ Cardinality(RoomsIn(E, h)) \in 0..Cardinality(Node)
    BY <1>1, RoomSizes
  <2> QED BY <2>1, ConstantFacts
<1>4. Cardinality(RoomsIn(F, g)) <= MaxRooms
  BY <1>2, <1>3, ConstantFacts DEF TableOK
<1>5. \A r \in RoomNumber : Cardinality(RoomIn(F, g, r)) <= MaxRoomSize
  BY <1>2, <1>3, ConstantFacts DEF TableOK
<1> QED BY <1>4, <1>5 DEF TableOK

LEMMA SmallerPlace ==
    ASSUME NEW E \in SUBSET Node, NEW F \in SUBSET E, NEW h, NEW g, NEW b, NEW p, NEW r,
           PlaceFor(E, h, b, p, r), g[b].key = h[b].key, g[b].room = h[b].room,
           \A c \in F : g[c].key = h[c].key /\ g[c].room = h[c].room
    PROVE  PlaceFor(F, g, b, p, r)
<1>1. /\ Cardinality(RoomIn(F, g, r)) <= Cardinality(RoomIn(E, h, r))
      /\ Cardinality(RoomsIn(F, g) \cup {r}) <= Cardinality(RoomsIn(E, h) \cup {r})
  BY SmallerRooms
<1>2. /\ Cardinality(RoomIn(F, g, r)) \in Nat /\ Cardinality(RoomIn(E, h, r)) \in Nat
      /\ Cardinality(RoomsIn(F, g) \cup {r}) \in Nat /\ Cardinality(RoomsIn(E, h) \cup {r}) \in Nat
  <2>1. F \in SUBSET Node
    OBVIOUS
  <2>2. /\ IsFiniteSet(RoomIn(F, g, r)) /\ IsFiniteSet(RoomIn(E, h, r))
        /\ IsFiniteSet(RoomsIn(F, g)) /\ IsFiniteSet(RoomsIn(E, h))
    BY <2>1, RoomSizes
  <2>3. IsFiniteSet(RoomsIn(F, g) \cup {r}) /\ IsFiniteSet(RoomsIn(E, h) \cup {r})
    BY <2>2, FS_AddElement
  <2> QED BY <2>2, <2>3, FS_CardinalityType
<1>3. Cardinality(RoomIn(F, g, r)) < MaxRoomSize /\ Cardinality(RoomsIn(F, g) \cup {r}) <= MaxRooms
  BY <1>1, <1>2, ConstantFacts DEF PlaceFor
<1> QED BY <1>3 DEF PlaceFor

\* What the main thread relies on survives what the other threads do.
LEMMA SmallerMain ==
    ASSUME NEW E \in SUBSET Node, NEW F \in SUBSET E, NEW h, NEW g, NEW m, m.count \in Nat,
           MainOK(E, h, m),
           m.new \in Node \ E => g[m.new].key = h[m.new].key /\ g[m.new].room = h[m.new].room,
           \A c \in F : g[c].key = h[c].key /\ g[c].room = h[c].room
    PROVE  MainOK(F, g, m)
<1>1. /\ Cardinality(RoomIn(F, g, m.room)) <= Cardinality(RoomIn(E, h, m.room))
      /\ Cardinality(RoomsIn(F, g)) <= Cardinality(RoomsIn(E, h))
  BY SmallerRooms
<1>2. /\ Cardinality(RoomIn(F, g, m.room)) \in Nat /\ Cardinality(RoomIn(E, h, m.room)) \in Nat
      /\ Cardinality(RoomsIn(F, g)) \in Nat /\ Cardinality(RoomsIn(E, h)) \in Nat
  <2>1. F \in SUBSET Node
    OBVIOUS
  <2>2. /\ Cardinality(RoomIn(F, g, m.room)) \in 0..Cardinality(Node)
        /\ Cardinality(RoomIn(E, h, m.room)) \in 0..Cardinality(Node)
        /\ Cardinality(RoomsIn(F, g)) \in 0..Cardinality(Node)
        /\ Cardinality(RoomsIn(E, h)) \in 0..Cardinality(Node)
    BY <2>1, RoomSizes
  <2> QED BY <2>2, ConstantFacts
<1>3. m.pc = "number" => m.peer \in Peer /\ Cardinality(RoomsIn(F, g)) < MaxRooms
  BY <1>1, <1>2, ConstantFacts DEF MainOK
<1>4. m.pc \in {"create", "add", "join", "enter"} => PlaceFor(F, g, m.new, m.peer, m.room)
  <2>1. SUFFICES ASSUME m.pc \in {"create", "add", "join", "enter"}
                 PROVE  PlaceFor(F, g, m.new, m.peer, m.room)
    OBVIOUS
  <2>2. PlaceFor(E, h, m.new, m.peer, m.room)
    BY <2>1 DEF MainOK
  <2>3. m.new \in Node \ E
    BY <2>2 DEF PlaceFor
  <2> QED BY <2>2, <2>3, SmallerPlace
<1>5. m.pc = "add" => \A b \in F : g[b].key # m.peer
  BY DEF MainOK
<1>6. m.pc = "enter" => \A b \in F : g[b].key = m.peer => m.old # 0 /\ g[b].room # m.room
  BY DEF MainOK
<1>7. m.pc = "fill" => Cardinality(RoomIn(F, g, m.room)) <= m.count
  BY <1>1, <1>2 DEF MainOK
<1>8. m.pc = "rooms" => Cardinality(RoomsIn(F, g)) <= m.count
  BY <1>1, <1>2 DEF MainOK
<1> QED BY <1>3, <1>4, <1>5, <1>6, <1>7, <1>8 DEF MainOK

LEMMA SmallerSend ==
    ASSUME NEW E, NEW F \in SUBSET E, NEW h, NEW g, NEW m, SendOK(E, h, m),
           \A c \in F : g[c].key = h[c].key /\ g[c].room = h[c].room
    PROVE  SendOK(F, g, m)
BY DEF SendOK

\* A block for which there is a place, of a peer with no entry, may be added.
LEMMA LargerTable ==
    ASSUME NEW E, NEW h, NEW b, NEW p, NEW r, TableOK(E, h), PlaceFor(E, h, b, p, r),
           \A c \in E : h[c].key # p
    PROVE  TableOK(E \cup {b}, h)
<1> DEFINE F == E \cup {b}
<1>1. E \in SUBSET Node /\ F \in SUBSET Node
  BY DEF TableOK, PlaceFor
<1>2. \A c \in F : h[c].key \in Peer /\ h[c].room \in RoomNumber
  BY DEF TableOK, PlaceFor
<1>3. \A c, d \in F : h[c].key = h[d].key => c = d
  BY DEF TableOK, PlaceFor
<1>4. Cardinality(RoomsIn(F, h)) <= MaxRooms
  <2>1. RoomsIn(F, h) = RoomsIn(E, h) \cup {r}
    BY DEF RoomsIn, PlaceFor
  <2> QED BY <2>1 DEF PlaceFor
<1>5. ASSUME NEW q \in RoomNumber PROVE Cardinality(RoomIn(F, h, q)) <= MaxRoomSize
  <2>1. CASE q # r
    <3>1. RoomIn(F, h, q) = RoomIn(E, h, q)
      BY <2>1 DEF RoomIn, PlaceFor
    <3> QED BY <3>1 DEF TableOK
  <2>2. CASE q = r
    <3>1. RoomIn(F, h, q) = RoomIn(E, h, r) \cup {b} /\ b \notin RoomIn(E, h, r)
      BY <2>2 DEF RoomIn, PlaceFor
    <3>2. IsFiniteSet(RoomIn(E, h, r)) /\ Cardinality(RoomIn(E, h, r)) \in 0..Cardinality(Node)
      BY <1>1, RoomSizes
    <3>3. Cardinality(RoomIn(E, h, r) \cup {b}) = Cardinality(RoomIn(E, h, r)) + 1
      BY <3>1, <3>2, FS_AddElement
    <3>4. Cardinality(RoomIn(E, h, r)) < MaxRoomSize
      BY DEF PlaceFor
    <3>5. \A k \in 0..Cardinality(Node) : k < MaxRoomSize => k + 1 <= MaxRoomSize
      BY ConstantFacts
    <3> QED BY <3>1, <3>2, <3>3, <3>4, <3>5
  <2> QED BY <2>1, <2>2
<1> HIDE DEF F
<1>6. TableOK(F, h)
  BY <1>1, <1>2, <1>3, <1>4, <1>5 DEF TableOK
<1> QED BY <1>6 DEF F

(***************************************************************************)
(* The list of entries.                                                    *)
(***************************************************************************)
LEMMA ListAdded ==
    ASSUME NEW S, NEW s \in Seq(S), IsInjective(s), NEW x \in S, x \notin Range(s)
    PROVE  /\ Append(s, x) \in Seq(S) /\ IsInjective(Append(s, x))
           /\ Range(Append(s, x)) = Range(s) \cup {x}
<1> DEFINE t == Append(s, x)
<1>1. /\ t \in Seq(S) /\ Len(s) \in Nat /\ DOMAIN t = 1..(Len(s) + 1) /\ DOMAIN s = 1..Len(s)
      /\ (\A k \in 1..Len(s) : t[k] = s[k]) /\ t[Len(s) + 1] = x
  BY AppendFacts
<1> HIDE DEF t
<1>2. \A k \in DOMAIN t : k \in DOMAIN s \/ k = Len(s) + 1
  BY <1>1
<1>3. Range(t) = Range(s) \cup {x}
  BY <1>1, <1>2 DEF Range
<1>4. IsInjective(t)
  <2>1. \A k \in DOMAIN s : s[k] # x
    BY DEF Range
  <2> QED BY <1>1, <1>2, <2>1 DEF IsInjective
<1> QED BY <1>1, <1>3, <1>4 DEF t

LEMMA ListRemoved ==
    ASSUME NEW S, NEW s \in Seq(S), IsInjective(s), NEW j \in DOMAIN s
    PROVE  /\ RemoveAt(s, j) \in Seq(S) /\ IsInjective(RemoveAt(s, j))
           /\ Range(RemoveAt(s, j)) = Range(s) \ {s[j]}
<1> DEFINE t == RemoveAt(s, j)
           n == Len(s)
<1>1. n \in Nat /\ DOMAIN s = 1..n /\ j \in 1..n
  OBVIOUS
<1>2. /\ t \in Seq(S) /\ Len(t) = n - 1
      /\ \A k \in 1..(n - 1) : t[k] = IF k < j THEN s[k] ELSE s[k + 1]
  BY <1>1, RemoveAtFacts
<1> HIDE DEF t, n
<1>3. DOMAIN t = 1..(n - 1)
  BY <1>1, <1>2
<1>4. \A k, i \in 1..n : s[k] = s[i] => k = i
  BY <1>1 DEF IsInjective
<1>5. \A k \in 1..(n - 1) : k \in 1..n /\ k + 1 \in 1..n
  BY <1>1
<1>6. IsInjective(t)
  <2>1. SUFFICES ASSUME NEW k \in 1..(n - 1), NEW i \in 1..(n - 1), t[k] = t[i] PROVE k = i
    BY <1>3 DEF IsInjective
  <2>2. k \in Int /\ i \in Int /\ j \in Int
    BY <1>1
  <2>3. CASE k < j /\ i < j
    BY <1>2, <1>4, <1>5, <2>1, <2>3
  <2>4. CASE ~(k < j) /\ ~(i < j)
    <3>1. s[k + 1] = s[i + 1]
      BY <1>2, <2>1, <2>4
    <3>2. k + 1 = i + 1
      BY <1>4, <1>5, <3>1
    <3> QED BY <2>2, <3>2
  <2>5. CASE k < j /\ ~(i < j)
    <3>1. s[k] = s[i + 1]
      BY <1>2, <2>1, <2>5
    <3>2. k = i + 1
      BY <1>4, <1>5, <3>1
    <3> QED BY <2>2, <2>5, <3>2
  <2>6. CASE ~(k < j) /\ i < j
    <3>1. s[k + 1] = s[i]
      BY <1>2, <2>1, <2>6
    <3>2. k + 1 = i
      BY <1>4, <1>5, <3>1
    <3> QED BY <2>2, <2>6, <3>2
  <2> QED BY <2>3, <2>4, <2>5, <2>6
<1>7. ASSUME NEW x \in Range(t) PROVE x \in Range(s) \ {s[j]}
  <2>1. PICK k \in 1..(n - 1) : x = t[k]
    BY <1>3 DEF Range
  <2>2. PICK i \in 1..n : x = s[i] /\ i # j
    <3>1. CASE k < j
      BY <1>1, <1>2, <1>5, <2>1, <3>1
    <3>2. CASE ~(k < j)
      <4>1. k + 1 \in 1..n /\ k + 1 # j /\ t[k] = s[k + 1]
        BY <1>1, <1>2, <1>5, <3>2
      <4> QED BY <2>1, <4>1
    <3> QED BY <3>1, <3>2
  <2>3. s[i] # s[j]
    BY <1>1, <1>4, <2>2
  <2> QED BY <1>1, <2>2, <2>3 DEF Range
<1>8. ASSUME NEW x \in Range(s) \ {s[j]} PROVE x \in Range(t)
  <2>1. PICK k \in 1..n : x = s[k] /\ k # j
    BY <1>1 DEF Range
  <2>2. CASE k < j
    BY <1>1, <1>2, <1>3, <2>1, <2>2 DEF Range
  <2>3. CASE k > j
    <3>1. k - 1 \in 1..(n - 1) /\ ~(k - 1 < j) /\ (k - 1) + 1 = k
      BY <1>1, <2>3
    <3>2. t[k - 1] = s[k]
      BY <1>2, <3>1
    <3> QED BY <1>3, <2>1, <3>1, <3>2 DEF Range
  <2> QED BY <1>1, <2>1, <2>2, <2>3
<1> QED BY <1>2, <1>6, <1>7, <1>8 DEF t

(***************************************************************************)
(* The invariant.                                                          *)
(***************************************************************************)
\* The invariants together, which no step breaks; and its parts.
TrackerInv ==
    TypeOK /\ OneEntryPerPeer /\ LimitsKept /\ MainWalksAgree /\ JoinerOnRoster /\ RequestKept

Block == [key : Peer \cup {NoPeer}, room : RoomNumber \cup {0},
          alive : BOOLEAN, next : Node \cup {NoNode}]

Types ==
    /\ peers \in Seq(Node)
    /\ heap \in [Node -> Block]
    /\ leaked \subseteq Node
    /\ thread \in [Threads -> ThreadState]
    /\ marking \in Node \cup {NoNode}
    /\ up \subseteq Peer
    /\ undefined \in {"none", "deleted twice", "output roster", "room list"}

LEMMA TableNames ==
    /\ UsedRooms = RoomsIn(Entries, heap)
    /\ \A r : InRoom(r) = RoomIn(Entries, heap, r)
    /\ Entries = Range(peers)
BY DEF UsedRooms, RoomsIn, InRoom, RoomIn, Entries, Range

\* The parts of Types one by one.
LEMMA TypeParts ==
    ASSUME Types
    PROVE  /\ peers \in Seq(Node) /\ heap \in [Node -> Block] /\ leaked \subseteq Node
           /\ thread \in [Threads -> ThreadState] /\ marking \in Node \cup {NoNode}
           /\ up \subseteq Peer
BY Zenon DEF Types

LEMMA EntryFacts ==
    ASSUME Types
    PROVE  /\ Len(peers) \in Nat /\ DOMAIN peers = 1..Len(peers)
           /\ \A k \in DOMAIN peers : peers[k] \in Node
           /\ Entries \in SUBSET Node
<1>1. peers \in Seq(Node)
  BY TypeParts
<1>2. Len(peers) \in Nat /\ DOMAIN peers = 1..Len(peers) /\ \A k \in DOMAIN peers : peers[k] \in Node
  BY <1>1
<1> QED BY <1>2, Zenon DEF Entries

LEMMA PartsOfTrackerInv ==
    TrackerInv <=> /\ Types /\ IsInjective(peers)
                   /\ TableOK(Entries, heap) /\ MainOK(Entries, heap, thread["main"])
                   /\ SendOK(Entries, heap, thread["main"]) /\ OutOK(thread["output"])
<1>1. TypeOK /\ undefined # "main roster"
      <=> Types /\ \A b \in Entries : heap[b].key \in Peer /\ heap[b].room \in RoomNumber
  BY Zenon DEF TypeOK, Types, Block
<1>2. Types => Entries \subseteq Node
  BY EntryFacts
<1>3. OneEntryPerPeer
      <=> IsInjective(peers) /\ \A b, c \in Entries : heap[b].key = heap[c].key => b = c
  <2>1. ASSUME OneEntryPerPeer
        PROVE  IsInjective(peers) /\ \A b, c \in Entries : heap[b].key = heap[c].key => b = c
    BY <2>1, Zenon DEF OneEntryPerPeer, IsInjective, Entries
  <2>2. ASSUME IsInjective(peers), \A b, c \in Entries : heap[b].key = heap[c].key => b = c
        PROVE  OneEntryPerPeer
    <3>1. SUFFICES ASSUME NEW j \in DOMAIN peers, NEW k \in DOMAIN peers,
                          heap[peers[j]].key = heap[peers[k]].key
                   PROVE  j = k
      BY Zenon DEF OneEntryPerPeer
    <3>2. peers[j] \in Entries /\ peers[k] \in Entries
      BY Zenon DEF Entries
    <3>3. peers[j] = peers[k]
      BY <2>2, <3>1, <3>2, Zenon
    <3> QED BY <2>2, <3>3, Zenon DEF IsInjective
  <2> QED BY <2>1, <2>2
<1>4. LimitsKept <=> /\ Cardinality(RoomsIn(Entries, heap)) <= MaxRooms
                     /\ \A r \in RoomNumber : Cardinality(RoomIn(Entries, heap, r)) <= MaxRoomSize
  BY TableNames, Zenon DEF LimitsKept
<1>5. JoinerOnRoster <=> SendOK(Entries, heap, thread["main"])
  BY Zenon DEF JoinerOnRoster, SendOK, InRoom
<1>6. (MainWalksAgree /\ RequestKept)
      <=> /\ undefined # "main roster" /\ MainOK(Entries, heap, thread["main"])
          /\ OutOK(thread["output"])
  <2>1. \A p : EntryOf(p) = {b \in Entries : heap[b].key = p}
    BY Zenon DEF EntryOf
  <2> QED BY <2>1, TableNames, Zenon
          DEF MainWalksAgree, RequestKept, MainOK, OutOK, PlaceFor, get_total_num_rooms
<1> QED BY <1>1, <1>2, <1>3, <1>4, <1>5, <1>6, Zenon DEF TrackerInv, TableOK

LEMMA PartsOfNextTrackerInv ==
    TrackerInv' <=> /\ Types' /\ IsInjective(peers)'
                    /\ TableOK(Entries, heap)' /\ MainOK(Entries, heap, thread["main"])'
                    /\ SendOK(Entries, heap, thread["main"])' /\ OutOK(thread["output"])'
BY PartsOfTrackerInv, PTL

\* HASH_FIND finds the entry of a peer, or there is none.
LEMMA HashFind ==
    ASSUME Types, NEW p
    PROVE  \/ /\ HASH_FIND(p) = NoNode
              /\ \A b \in Entries : heap[b].key # p
           \/ /\ HASH_FIND(p) \in Entries /\ HASH_FIND(p) \in Node /\ HASH_FIND(p) # NoNode
              /\ heap[HASH_FIND(p)].key = p
<1>1. Entries \subseteq Node
  BY EntryFacts
<1> QED BY <1>1, ChatAssumption, Zenon DEF HASH_FIND

LEMMA PlaceFacts ==
    ASSUME NEW b \in Entries PROVE Place(b) \in DOMAIN peers /\ peers[Place(b)] = b
<1>1. \E j \in DOMAIN peers : peers[j] = b
  BY DEF Entries
<1> QED BY <1>1, Zenon DEF Place

LEMMA SuccFacts ==
    ASSUME Types, NEW b \in Node PROVE Succ(b) \in Node \cup {NoNode}
<1>1. CASE b \notin Entries
  <2>1. heap[b] \in Block
    BY DEF Types
  <2>2. heap[b].next \in Node \cup {NoNode}
    BY <2>1 DEF Block
  <2> QED BY <1>1, <2>2 DEF Succ
<1>2. CASE b \in Entries
  <2>1. Place(b) \in 1..Len(peers) /\ Len(peers) \in Nat
    BY <1>2, PlaceFacts, EntryFacts
  <2>2. Place(b) # Len(peers) => Place(b) + 1 \in 1..Len(peers)
    BY <2>1
  <2>3. \A k \in 1..Len(peers) : peers[k] \in Node
    BY EntryFacts
  <2> QED BY <1>2, <2>2, <2>3 DEF Succ
<1> QED BY <1>1, <1>2

LEMMA FirstFacts == ASSUME Types PROVE First \in Node \cup {NoNode}
<1>1. peers \in Seq(Node)
  BY TypeParts
<1>2. peers # << >> => peers[1] \in Node
  BY <1>1
<1> QED BY <1>2 DEF First

\* A thread's locals are replaced.
LEMMA SetFacts ==
    ASSUME Types, NEW t \in Threads, NEW rec \in ThreadState, Set(t, rec)
    PROVE  /\ thread' \in [Threads -> ThreadState]
           /\ thread'[t] = rec
           /\ \A u \in Threads : u # t => thread'[u] = thread[u]
BY TypeParts DEF Set

(***************************************************************************)
(* Steps.                                                                  *)
(***************************************************************************)
\* A step that adds no entry keeps the invariant if its thread is as it should be.
LEMMA StepKeepsInv ==
    ASSUME TrackerInv, Types', IsInjective(peers'), Entries' \subseteq Entries,
           \A b \in Entries' : heap'[b].key = heap[b].key /\ heap'[b].room = heap[b].room,
           MainOK(Entries', heap', thread'["main"]), SendOK(Entries', heap', thread'["main"]),
           OutOK(thread'["output"])
    PROVE  TrackerInv'
<1>1. TableOK(Entries, heap)
  BY PartsOfTrackerInv
<1>2. TableOK(Entries', heap')
  BY <1>1, SmallerTable
<1> QED BY <1>2, PartsOfNextTrackerInv

\* A step of another thread than the main one.
LEMMA OthersKeepInv ==
    ASSUME TrackerInv, Types', IsInjective(peers'), Entries' \subseteq Entries,
           \A b \in Entries' : heap'[b].key = heap[b].key /\ heap'[b].room = heap[b].room,
           \A b \in Node \ Entries : heap'[b].key = heap[b].key /\ heap'[b].room = heap[b].room,
           thread'["main"] = thread["main"], OutOK(thread'["output"])
    PROVE  TrackerInv'
<1> DEFINE m == thread["main"]
<1>1. Entries \in SUBSET Node /\ Entries' \in SUBSET Entries
  BY PartsOfTrackerInv, EntryFacts
<1>2. MainOK(Entries, heap, m) /\ SendOK(Entries, heap, m) /\ Types
  BY PartsOfTrackerInv
<1>3. m.count \in Nat
  <2>1. m \in ThreadState
    BY <1>2, TypeParts DEF Threads
  <2> QED BY <2>1, ConstantFacts DEF ThreadState
<1> HIDE DEF m
<1>4. MainOK(Entries', heap', m)
  BY <1>1, <1>2, <1>3, SmallerMain
<1>5. SendOK(Entries', heap', m)
  BY <1>1, <1>2, SmallerSend
<1> QED BY <1>4, <1>5, StepKeepsInv DEF m

\* One thread moves on, and the table stays as it is.
LEMMA OutputMoves ==
    ASSUME TrackerInv, NEW rec \in ThreadState, OutOK(rec), Set("output", rec),
           UNCHANGED <<peers, heap, leaked, marking, up, undefined>>
    PROVE  TrackerInv'
<1>1. Types /\ IsInjective(peers)
  BY PartsOfTrackerInv
<1>2. thread' \in [Threads -> ThreadState] /\ thread'["output"] = rec /\ thread'["main"] = thread["main"]
  BY <1>1, SetFacts DEF Threads
<1>3. Types'
  BY <1>1, <1>2, Zenon DEF Types
<1>4. Entries' = Entries /\ heap' = heap /\ IsInjective(peers')
  BY <1>1 DEF Entries
<1> QED BY <1>2, <1>3, <1>4, OthersKeepInv

LEMMA MainMoves ==
    ASSUME TrackerInv, NEW rec \in ThreadState, MainOK(Entries, heap, rec), SendOK(Entries, heap, rec),
           Set("main", rec), leaked' \subseteq Node, UNCHANGED <<peers, heap, marking, up, undefined>>
    PROVE  TrackerInv'
<1>1. Types /\ IsInjective(peers) /\ OutOK(thread["output"])
  BY PartsOfTrackerInv
<1>2. thread' \in [Threads -> ThreadState] /\ thread'["main"] = rec /\ thread'["output"] = thread["output"]
  BY <1>1, SetFacts DEF Threads
<1>3. Types'
  BY <1>1, <1>2, Zenon DEF Types
<1>4. Entries' = Entries /\ heap' = heap /\ IsInjective(peers')
  BY <1>1 DEF Entries
<1> QED BY <1>1, <1>2, <1>3, <1>4, StepKeepsInv

\* What is known of a thread's locals.
LEMMA LocalFacts ==
    ASSUME Types, NEW t \in Threads
    PROVE  /\ thread[t] \in ThreadState
           /\ thread[t].peer \in Peer \cup {NoPeer} /\ thread[t].room \in RoomNumber \cup {0}
           /\ thread[t].old \in RoomNumber \cup {0} /\ thread[t].node \in Node \cup {NoNode}
           /\ thread[t].new \in Node \cup {NoNode} /\ thread[t].walk \in Node \cup {NoNode}
           /\ thread[t].joiner \in Peer \cup {NoPeer} /\ thread[t].count \in 0..Cardinality(Node)
<1>1. thread[t] \in ThreadState
  BY TypeParts
<1> QED BY <1>1 DEF ThreadState

LEMMA IdleFacts == Idle \in ThreadState
<1>1. 0 \in 0..Cardinality(Node)
  BY ConstantFacts
<1> QED BY <1>1 DEF Idle, ThreadState

\* The ping thread is at pc, on block w, and about to send nobody the roster of a
\* second room.
LEMMA AtBlock ==
    ASSUME NEW w \in Node \cup {NoNode}, NEW pc \in {"ping", "check"}
    PROVE  /\ [Idle EXCEPT !.pc = pc, !.walk = w] \in ThreadState
           /\ OutOK([Idle EXCEPT !.pc = pc, !.walk = w])
BY IdleFacts DEF ThreadState, OutOK, Idle

LEMMA PingKeepsInv == ASSUME TrackerInv, SendPing PROVE TrackerInv'
<1> DEFINE o == thread["output"]
           s == o.walk
           rec == [o EXCEPT !.walk = Succ(s)]
<1>1. Types /\ IsInjective(peers) /\ OutOK(o)
  BY PartsOfTrackerInv
<1>2. /\ s # NoNode /\ o.pc = "ping" /\ heap' = [heap EXCEPT ![s].alive = FALSE] /\ Set("output", rec)
      /\ UNCHANGED <<peers, leaked, marking, up, undefined>>
  BY DEF SendPing
<1>3. s \in Node /\ o \in ThreadState
  BY <1>1, <1>2, LocalFacts DEF Threads
<1>4. Succ(s) \in Node \cup {NoNode}
  BY <1>1, <1>3, SuccFacts
<1>5. rec \in ThreadState /\ rec.pc = "ping" /\ rec.old = o.old
  BY <1>2, <1>3, <1>4 DEF ThreadState
<1>6. OutOK(rec)
  BY <1>1, <1>5 DEF OutOK
<1>7. thread' \in [Threads -> ThreadState] /\ thread'["output"] = rec /\ thread'["main"] = thread["main"]
  BY <1>1, <1>2, <1>5, SetFacts DEF Threads
<1>8. /\ heap' \in [Node -> Block]
      /\ \A b \in Node : heap'[b].key = heap[b].key /\ heap'[b].room = heap[b].room
  <2>1. heap \in [Node -> Block]
    BY <1>1, TypeParts
  <2> QED BY <1>2, <1>3, <2>1 DEF Block
<1>9. Types'
  BY <1>1, <1>2, <1>7, <1>8, Zenon DEF Types
<1>10. Entries' = Entries /\ Entries \subseteq Node /\ IsInjective(peers')
  BY <1>1, <1>2, EntryFacts DEF Entries
<1> QED BY <1>6, <1>7, <1>8, <1>9, <1>10, OthersKeepInv

LEMMA MarkKeepsInv == ASSUME TrackerInv, PongMark PROVE TrackerInv'
<1>1. Types /\ IsInjective(peers) /\ OutOK(thread["output"])
  BY PartsOfTrackerInv
<1>2. /\ marking # NoNode /\ heap' = [heap EXCEPT ![marking].alive = TRUE] /\ marking' = NoNode
      /\ UNCHANGED <<peers, leaked, thread, up, undefined>>
  BY DEF PongMark
<1>3. marking \in Node
  BY <1>1, <1>2, TypeParts
<1>4. /\ heap' \in [Node -> Block]
      /\ \A b \in Node : heap'[b].key = heap[b].key /\ heap'[b].room = heap[b].room
  <2>1. heap \in [Node -> Block]
    BY <1>1, TypeParts
  <2> QED BY <1>2, <1>3, <2>1 DEF Block
<1>5. Types'
  <2>1. marking' \in Node \cup {NoNode}
    BY <1>2
  <2> QED BY <1>1, <1>2, <1>4, <2>1, Zenon DEF Types
<1>6. Entries' = Entries /\ Entries \subseteq Node /\ IsInjective(peers') /\ thread' = thread
  BY <1>1, <1>2, EntryFacts DEF Entries
<1> QED BY <1>1, <1>4, <1>5, <1>6, OthersKeepInv

LEMMA PongKeepsInv == ASSUME TrackerInv, NEW p, PongFind(p) PROVE TrackerInv'
<1>1. Types /\ IsInjective(peers) /\ OutOK(thread["output"])
  BY PartsOfTrackerInv
<1>2. marking' = HASH_FIND(p) /\ UNCHANGED <<peers, heap, leaked, thread, up, undefined>>
  BY DEF PongFind
<1>3. marking' \in Node \cup {NoNode}
  BY <1>1, <1>2, HashFind
<1>4. Types'
  BY <1>1, <1>2, <1>3, Zenon DEF Types
<1>5. Entries' = Entries /\ heap' = heap /\ IsInjective(peers') /\ thread' = thread
  BY <1>1, <1>2 DEF Entries
<1> QED BY <1>1, <1>4, <1>5, OthersKeepInv

LEMMA CrashKeepsInv == ASSUME TrackerInv, NEW p, Crash(p) PROVE TrackerInv'
<1>1. Types /\ IsInjective(peers) /\ OutOK(thread["output"])
  BY PartsOfTrackerInv
<1>2. up' = up \ {p} /\ UNCHANGED <<peers, heap, leaked, thread, marking, undefined>>
  BY DEF Crash
<1>3. up' \subseteq Peer
  BY <1>1, <1>2, TypeParts
<1>4. Types'
  BY <1>1, <1>2, <1>3, Zenon DEF Types
<1>5. Entries' = Entries /\ heap' = heap /\ IsInjective(peers') /\ thread' = thread
  BY <1>1, <1>2 DEF Entries
<1> QED BY <1>1, <1>4, <1>5, OthersKeepInv

\* ping_output() and delete_dead_peers(), without the deletion itself.
LEMMA WalkKeepsInv ==
    ASSUME TrackerInv, AllPinged \/ PingTimeout \/ CheckPeer \/ EvictFind \/ AllChecked
    PROVE  TrackerInv'
<1> DEFINE o == thread["output"]
<1>1. Types /\ OutOK(o) /\ o \in ThreadState /\ o.old = 0
  BY PartsOfTrackerInv, LocalFacts DEF Threads, OutOK
<1>2. CASE AllPinged
  <2> DEFINE rec == [o EXCEPT !.pc = "wait"]
  <2>1. rec \in ThreadState /\ OutOK(rec)
    BY <1>1 DEF ThreadState, OutOK
  <2>2. Set("output", rec) /\ UNCHANGED <<peers, heap, leaked, marking, up, undefined>>
    BY <1>2 DEF AllPinged
  <2> QED BY <2>1, <2>2, OutputMoves
<1>3. CASE PingTimeout
  <2> DEFINE rec == [o EXCEPT !.pc = "check", !.walk = First]
  <2>1. rec \in ThreadState /\ OutOK(rec)
    <3>1. First \in Node \cup {NoNode}
      BY <1>1, FirstFacts
    <3>2. rec \in ThreadState /\ rec.pc = "check" /\ rec.old = 0
      BY <1>1, <3>1 DEF ThreadState
    <3> HIDE DEF rec
    <3> QED BY <3>2 DEF OutOK
  <2>2. Set("output", rec) /\ UNCHANGED <<peers, heap, leaked, marking, up, undefined>>
    BY <1>3 DEF PingTimeout
  <2> QED BY <2>1, <2>2, OutputMoves
<1>4. CASE CheckPeer
  <2> DEFINE s == o.walk
             on == [o EXCEPT !.walk = Succ(s)]
             dead == [o EXCEPT !.pc = "evict", !.peer = heap[s].key]
  <2>1. /\ s # NoNode /\ o.pc = "check" /\ Set("output", IF heap[s].alive THEN on ELSE dead)
        /\ UNCHANGED <<peers, heap, leaked, marking, up, undefined>>
    BY <1>4 DEF CheckPeer
  <2>2. s \in Node
    BY <1>1, <2>1, LocalFacts DEF Threads
  <2>3. Succ(s) \in Node \cup {NoNode}
    BY <1>1, <2>2, SuccFacts
  <2>4. heap[s].key \in Peer \cup {NoPeer}
    <3>1. heap[s] \in Block
      BY <1>1, <2>2, TypeParts
    <3> QED BY <3>1 DEF Block
  <2>5. on \in ThreadState /\ OutOK(on)
    <3>1. on.pc = "check" /\ on.old = 0
      BY <1>1, <2>1 DEF ThreadState
    <3> QED BY <1>1, <2>3, <3>1 DEF ThreadState, OutOK
  <2>6. dead \in ThreadState /\ OutOK(dead)
    BY <1>1, <2>1, <2>2, <2>4 DEF ThreadState, OutOK
  <2> HIDE DEF on, dead
  <2> QED BY <2>1, <2>5, <2>6, OutputMoves
<1>5. CASE EvictFind
  <2> DEFINE s == HASH_FIND(o.peer)
             on == [Idle EXCEPT !.pc = "check", !.walk = Succ(o.walk)]
             del == [Idle EXCEPT !.pc = "del", !.walk = o.walk, !.node = s, !.room = heap[s].room]
  <2>1. /\ o.pc = "evict" /\ Set("output", IF s = NoNode THEN on ELSE del)
        /\ UNCHANGED <<peers, heap, leaked, marking, up, undefined>>
    BY <1>5 DEF EvictFind
  <2>2. o.walk \in Node
    BY <1>1, <2>1 DEF OutOK
  <2>3. Succ(o.walk) \in Node \cup {NoNode}
    BY <1>1, <2>2, SuccFacts
  <2>4. on \in ThreadState /\ OutOK(on)
    BY <2>3, AtBlock
  <2>5. s # NoNode => del \in ThreadState /\ OutOK(del)
    <3>1. SUFFICES ASSUME s # NoNode PROVE del \in ThreadState /\ OutOK(del)
      OBVIOUS
    <3>2. s \in Node
      BY <1>1, <3>1, HashFind
    <3>3. heap[s].room \in RoomNumber \cup {0}
      <4>1. heap[s] \in Block
        BY <1>1, <3>2, TypeParts
      <4> QED BY <4>1 DEF Block
    <3> HIDE DEF s
    <3> QED BY <2>2, <3>2, <3>3, IdleFacts DEF ThreadState, OutOK, Idle
  <2> HIDE DEF on, del
  <2> QED BY <2>1, <2>4, <2>5, OutputMoves
<1>6. CASE AllChecked
  <2> DEFINE rec == [Idle EXCEPT !.pc = "ping", !.walk = First]
  <2>1. rec \in ThreadState /\ OutOK(rec)
    BY <1>1, FirstFacts, AtBlock
  <2>2. Set("output", rec) /\ UNCHANGED <<peers, heap, leaked, marking, up, undefined>>
    BY <1>6 DEF AllChecked
  <2> QED BY <2>1, <2>2, OutputMoves
<1> QED BY <1>2, <1>3, <1>4, <1>5, <1>6

\* A thread stops in undefined behaviour, and nothing else changes.
LEMMA StopKeepsInv ==
    ASSUME TrackerInv, undefined' \in {"deleted twice", "output roster", "room list"},
           UNCHANGED <<peers, heap, leaked, thread, marking, up>>
    PROVE  TrackerInv'
<1>1. Types /\ IsInjective(peers) /\ OutOK(thread["output"])
  BY PartsOfTrackerInv
<1>2. undefined' \in {"none", "deleted twice", "output roster", "room list"}
  OBVIOUS
<1>3. Types'
  BY <1>1, <1>2, Zenon DEF Types
<1>4. Entries' = Entries /\ heap' = heap /\ IsInjective(peers') /\ thread' = thread
  BY <1>1 DEF Entries
<1> QED BY <1>1, <1>3, <1>4, OthersKeepInv

\* peer_list() of the ping thread.
LEMMA OutputRosterKeepsInv ==
    ASSUME TrackerInv, RosterCount("output") \/ RosterFill("output") \/ RosterSend("output")
    PROVE  TrackerInv'
<1> DEFINE o == thread["output"]
<1>1. Types /\ OutOK(o) /\ o \in ThreadState /\ o.old = 0 /\ Entries \in SUBSET Node
  BY PartsOfTrackerInv, LocalFacts, EntryFacts DEF Threads, OutOK
<1>2. CASE RosterCount("output")
  <2> DEFINE rec == [o EXCEPT !.pc = "fill", !.count = Cardinality(InRoom(o.room))]
  <2>1. Cardinality(InRoom(o.room)) \in 0..Cardinality(Node)
    BY <1>1, TableNames, RoomSizes
  <2>2. /\ o.pc = "count" /\ Set("output", rec)
        /\ UNCHANGED <<peers, heap, leaked, marking, up, undefined>>
    BY <1>2 DEF RosterCount
  <2>3. rec \in ThreadState /\ OutOK(rec)
    BY <1>1, <2>1, <2>2 DEF ThreadState, OutOK
  <2> QED BY <2>2, <2>3, OutputMoves
<1>3. CASE RosterFill("output")
  <2> DEFINE found == \E b \in InRoom(o.room) : heap[b].key = o.joiner
             rec == [o EXCEPT !.pc = "send", !.listed = found]
  <2>1. /\ o.pc = "fill"
        /\ UNCHANGED <<peers, heap, leaked, marking, up>>
        /\ \/ Set("output", rec) /\ UNCHANGED undefined
           \/ undefined' = "output roster" /\ UNCHANGED thread
    BY <1>3 DEF RosterFill
  <2>2. found \in BOOLEAN
    BY Zenon
  <2> HIDE DEF found
  <2>3. rec \in ThreadState /\ OutOK(rec)
    BY <1>1, <2>1, <2>2 DEF ThreadState, OutOK
  <2> HIDE DEF rec
  <2>4. CASE Set("output", rec) /\ UNCHANGED undefined
    BY <2>1, <2>3, <2>4, OutputMoves
  <2>5. CASE undefined' = "output roster" /\ UNCHANGED thread
    BY <2>1, <2>5, StopKeepsInv
  <2> QED BY <2>1, <2>4, <2>5
<1>4. CASE RosterSend("output")
  <2> DEFINE rec == [Idle EXCEPT !.pc = "check", !.walk = Succ(o.walk)]
  <2>1. /\ o.pc = "send" /\ Set("output", rec)
        /\ UNCHANGED <<peers, heap, leaked, marking, up, undefined>>
    BY <1>1, <1>4 DEF RosterSend
  <2>2. o.walk \in Node
    BY <1>1, <2>1 DEF OutOK
  <2>3. Succ(o.walk) \in Node \cup {NoNode}
    BY <1>1, <2>2, SuccFacts
  <2>4. rec \in ThreadState /\ OutOK(rec)
    BY <2>3, AtBlock
  <2> QED BY <2>1, <2>4, OutputMoves
<1> QED BY <1>2, <1>3, <1>4

\* HASH_DELETE of an entry.
LEMMA Removed ==
    ASSUME Types, IsInjective(peers), NEW s \in Entries
    PROVE  /\ Without(s) \in Seq(Node) /\ IsInjective(Without(s))
           /\ Range(Without(s)) = Entries \ {s}
           /\ Unlinked(s) \in [Node -> Block]
           /\ \A b \in Node : Unlinked(s)[b].key = heap[b].key /\ Unlinked(s)[b].room = heap[b].room
<1>1. Place(s) \in DOMAIN peers /\ peers[Place(s)] = s
  BY PlaceFacts
<1>2. peers \in Seq(Node) /\ heap \in [Node -> Block] /\ s \in Node /\ Entries = Range(peers)
  BY TypeParts, EntryFacts, TableNames
<1>3. /\ RemoveAt(peers, Place(s)) \in Seq(Node) /\ IsInjective(RemoveAt(peers, Place(s)))
      /\ Range(RemoveAt(peers, Place(s))) = Range(peers) \ {peers[Place(s)]}
  BY <1>1, <1>2, ListRemoved
<1>4. Succ(s) \in Node \cup {NoNode}
  BY <1>2, SuccFacts
<1>5. /\ Unlinked(s) \in [Node -> Block]
      /\ \A b \in Node : Unlinked(s)[b].key = heap[b].key /\ Unlinked(s)[b].room = heap[b].room
  BY <1>2, <1>4 DEF Unlinked, Block
<1> QED BY <1>1, <1>2, <1>3, <1>5 DEF Without

\* HASH_ADD of a block that is not in the list.
LEMMA Added ==
    ASSUME NEW s \in Seq(Node), IsInjective(s), NEW b \in Node, b \notin Range(s)
    PROVE  /\ HASH_ADD(s, b) \in Seq(Node) /\ IsInjective(HASH_ADD(s, b))
           /\ Range(HASH_ADD(s, b)) = Range(s) \cup {b}
BY ListAdded DEF HASH_ADD

LEMMA DeleteKeepsInv ==
    ASSUME TrackerInv, NEW t \in Threads, LeaveDelete(t) PROVE TrackerInv'
<1> DEFINE s == thread[t].node
           rec == [Idle EXCEPT !.pc = "count", !.room = thread[t].room, !.walk = thread[t].walk]
           h == [Unlinked(s) EXCEPT ![s].key = NoPeer]
<1>1. Types /\ IsInjective(peers) /\ OutOK(thread["output"])
  BY PartsOfTrackerInv
<1>2. thread[t].pc = "del" /\ UNCHANGED <<leaked, marking, up>>
  BY DEF LeaveDelete
<1>3. CASE s \notin Entries
  <2>1. undefined' = "deleted twice" /\ UNCHANGED <<peers, heap, thread>>
    BY <1>3 DEF LeaveDelete
  <2> QED BY <1>2, <2>1, StopKeepsInv
<1>4. CASE s \in Entries
  <2>1. peers' = Without(s) /\ heap' = h /\ Set(t, rec) /\ undefined' = undefined
    BY <1>4 DEF LeaveDelete
  <2>2. /\ Without(s) \in Seq(Node) /\ IsInjective(Without(s))
        /\ Range(Without(s)) = Entries \ {s}
        /\ Unlinked(s) \in [Node -> Block]
        /\ \A b \in Node : Unlinked(s)[b].key = heap[b].key /\ Unlinked(s)[b].room = heap[b].room
    BY <1>1, <1>4, Removed
  <2>3. s \in Node /\ Entries \subseteq Node /\ Entries' = Range(peers')
    BY <1>1, <1>4, EntryFacts DEF Entries, Range
  <2>4. /\ h \in [Node -> Block]
        /\ \A b \in Node : b # s => h[b].key = heap[b].key /\ h[b].room = heap[b].room
    BY <2>2, <2>3 DEF Block
  <2> HIDE DEF h
  <2>5. rec \in ThreadState /\ rec.pc = "count" /\ rec.walk = thread[t].walk /\ rec.old = 0
    <3>1. thread[t].room \in RoomNumber \cup {0} /\ thread[t].walk \in Node \cup {NoNode}
      BY <1>1, LocalFacts
    <3> QED BY <3>1, IdleFacts DEF ThreadState, Idle
  <2> HIDE DEF rec, s
  <2>6. /\ thread' \in [Threads -> ThreadState] /\ thread'[t] = rec
        /\ \A u \in Threads : u # t => thread'[u] = thread[u]
    BY <1>1, <2>1, <2>5, SetFacts
  <2>7. peers' \in Seq(Node) /\ IsInjective(peers') /\ heap' \in [Node -> Block] /\ Entries' = Entries \ {s}
    BY <2>1, <2>2, <2>3, <2>4
  <2>8. Types'
    BY <1>1, <1>2, <2>1, <2>6, <2>7, Zenon DEF Types
  <2>9. /\ \A b \in Entries' : heap'[b].key = heap[b].key /\ heap'[b].room = heap[b].room
        /\ \A b \in Node \ Entries : heap'[b].key = heap[b].key /\ heap'[b].room = heap[b].room
        /\ Entries' \subseteq Entries
    BY <1>4, <2>1, <2>3, <2>4, <2>7
  <2>10. CASE t = "output"
    <3>1. thread'["main"] = thread["main"] /\ thread'["output"] = rec
      BY <2>6, <2>10 DEF Threads
    <3>2. OutOK(rec)
      BY <1>1, <1>2, <2>5, <2>10 DEF OutOK
    <3> QED BY <2>7, <2>8, <2>9, <3>1, <3>2, OthersKeepInv
  <2>11. CASE t = "main"
    <3>1. thread'["main"] = rec /\ thread'["output"] = thread["output"]
      BY <2>6, <2>11 DEF Threads
    <3>2. MainOK(Entries', heap', rec) /\ SendOK(Entries', heap', rec)
      BY <2>5 DEF MainOK, SendOK
    <3> QED BY <1>1, <2>7, <2>8, <2>9, <3>1, <3>2, StepKeepsInv
  <2> QED BY <2>10, <2>11 DEF Threads
<1> QED BY <1>3, <1>4

(***************************************************************************)
(* The main thread.                                                        *)
(***************************************************************************)
\* Where the main thread relies on nothing.
LEMMA Carefree ==
    ASSUME NEW E, NEW h, NEW m, m.pc \in {"recv", "del", "count"}
    PROVE  MainOK(E, h, m) /\ SendOK(E, h, m)
BY DEF MainOK, SendOK

LEMMA MainFacts ==
    ASSUME TrackerInv
    PROVE  /\ Types /\ IsInjective(peers) /\ TableOK(Entries, heap)
           /\ MainOK(Entries, heap, thread["main"]) /\ SendOK(Entries, heap, thread["main"])
           /\ thread["main"] \in ThreadState /\ OutOK(thread["output"])
           /\ Entries \in SUBSET Node /\ leaked \subseteq Node
BY PartsOfTrackerInv, LocalFacts, EntryFacts, TypeParts DEF Threads

\* The request is done with, or refused.
LEMMA DoneKeepsInv ==
    ASSUME TrackerInv, CreateFound \/ JoinAlreadyIn \/ RoomListReply PROVE TrackerInv'
<1>1. /\ Set("main", Idle) /\ UNCHANGED <<peers, heap, marking, up, undefined>>
      /\ \/ leaked' = leaked
         \/ leaked' = leaked \cup {thread["main"].new} /\ thread["main"].pc \in {"create", "join"}
  BY DEF CreateFound, JoinAlreadyIn, RoomListReply
<1>2. thread["main"].pc \in {"create", "join"} => thread["main"].new \in Node
  BY MainFacts DEF MainOK, PlaceFor
<1>3. leaked' \subseteq Node
  BY <1>1, <1>2, MainFacts
<1>4. MainOK(Entries, heap, Idle) /\ SendOK(Entries, heap, Idle)
  <2>1. Idle.pc = "recv"
    BY DEF Idle
  <2> QED BY <2>1, Carefree
<1> QED BY <1>1, <1>3, <1>4, IdleFacts, MainMoves

\* A request is taken up, up to its first look at the table.
LEMMA RequestKeepsInv ==
    ASSUME TrackerInv, NEW p \in Peer, CreateCount(p) \/ LeaveFind(p) \/ RoomListCount(p)
    PROVE  TrackerInv'
<1> DEFINE m == thread["main"]
<1>1. m \in ThreadState /\ Types /\ Entries \in SUBSET Node /\ leaked \subseteq Node
  BY MainFacts
<1>2. CASE CreateCount(p)
  <2> DEFINE rec == [m EXCEPT !.pc = "number", !.peer = p]
  <2>1. /\ get_total_num_rooms < MaxRooms /\ Set("main", rec)
        /\ UNCHANGED <<peers, heap, leaked, marking, up, undefined>>
    BY <1>2 DEF CreateCount
  <2>2. rec \in ThreadState /\ rec.pc = "number" /\ rec.peer = p
    BY <1>1 DEF ThreadState
  <2> HIDE DEF rec
  <2>3. Cardinality(RoomsIn(Entries, heap)) < MaxRooms
    BY <2>1, TableNames DEF get_total_num_rooms
  <2>4. MainOK(Entries, heap, rec) /\ SendOK(Entries, heap, rec)
    BY <2>2, <2>3 DEF MainOK, SendOK
  <2> QED BY <1>1, <2>1, <2>2, <2>4, MainMoves
<1>3. CASE LeaveFind(p)
  <2> DEFINE s == HASH_FIND(p)
             rec == [m EXCEPT !.pc = "del", !.node = s, !.room = heap[s].room]
  <2>1. /\ s # NoNode /\ Set("main", rec)
        /\ UNCHANGED <<peers, heap, leaked, marking, up, undefined>>
    BY <1>3 DEF LeaveFind
  <2>2. s \in Node
    BY <1>1, <2>1, HashFind
  <2>3. heap[s].room \in RoomNumber \cup {0}
    <3>1. heap[s] \in Block
      BY <1>1, <2>2, TypeParts
    <3> QED BY <3>1 DEF Block
  <2> HIDE DEF s
  <2>4. rec \in ThreadState /\ rec.pc = "del"
    BY <1>1, <2>2, <2>3 DEF ThreadState
  <2> HIDE DEF rec
  <2>5. MainOK(Entries, heap, rec) /\ SendOK(Entries, heap, rec)
    BY <2>4, Carefree
  <2> QED BY <1>1, <2>1, <2>4, <2>5, MainMoves
<1>4. CASE RoomListCount(p)
  <2> DEFINE rec == [m EXCEPT !.pc = "rooms", !.count = get_total_num_rooms]
  <2>1. Set("main", rec) /\ UNCHANGED <<peers, heap, leaked, marking, up, undefined>>
    BY <1>4 DEF RoomListCount
  <2>2. /\ get_total_num_rooms = Cardinality(RoomsIn(Entries, heap))
        /\ get_total_num_rooms \in 0..Cardinality(Node)
    BY <1>1, TableNames, RoomSizes DEF get_total_num_rooms
  <2>3. rec \in ThreadState /\ rec.pc = "rooms" /\ rec.count = get_total_num_rooms
    BY <1>1, <2>2 DEF ThreadState
  <2> HIDE DEF rec
  <2>4. MainOK(Entries, heap, rec) /\ SendOK(Entries, heap, rec)
    <3>1. Cardinality(RoomsIn(Entries, heap)) <= rec.count
      BY <2>2, <2>3, ConstantFacts
    <3> QED BY <2>3, <3>1 DEF MainOK, SendOK
  <2> QED BY <1>1, <2>1, <2>3, <2>4, MainMoves
<1> QED BY <1>2, <1>3, <1>4

\* HASH_FIND of peer_create_room() and of peer_join().
LEMMA FindKeepsInv ==
    ASSUME TrackerInv, CreateAbsent \/ JoinFind PROVE TrackerInv'
<1> DEFINE m == thread["main"]
           s == HASH_FIND(m.peer)
<1>1. /\ m \in ThreadState /\ Types /\ Entries \in SUBSET Node /\ leaked \subseteq Node
      /\ MainOK(Entries, heap, m) /\ TableOK(Entries, heap)
  BY MainFacts
<1>2. \/ s = NoNode /\ \A b \in Entries : heap[b].key # m.peer
      \/ s \in Entries /\ s \in Node /\ s # NoNode /\ heap[s].key = m.peer
  BY <1>1, HashFind
<1>3. CASE CreateAbsent
  <2> DEFINE rec == [m EXCEPT !.pc = "add"]
  <2>1. /\ m.pc = "create" /\ s = NoNode /\ Set("main", rec)
        /\ UNCHANGED <<peers, heap, leaked, marking, up, undefined>>
    BY <1>3 DEF CreateAbsent
  <2>2. /\ rec \in ThreadState /\ rec.pc = "add" /\ rec.peer = m.peer /\ rec.new = m.new
        /\ rec.room = m.room
    BY <1>1 DEF ThreadState
  <2> HIDE DEF rec
  <2>3. PlaceFor(Entries, heap, rec.new, rec.peer, rec.room)
    BY <1>1, <2>1, <2>2 DEF MainOK
  <2>4. \A b \in Entries : heap[b].key # rec.peer
    BY <1>2, <2>1, <2>2
  <2>5. MainOK(Entries, heap, rec) /\ SendOK(Entries, heap, rec)
    BY <2>2, <2>3, <2>4 DEF MainOK, SendOK
  <2> QED BY <1>1, <2>1, <2>2, <2>5, MainMoves
<1>4. CASE JoinFind
  <2> DEFINE old == IF s = NoNode THEN 0 ELSE heap[s].room
             rec == [m EXCEPT !.pc = "enter", !.old = old]
  <2>1. /\ m.pc = "join" /\ ~AlreadyIn(m.peer, m.room) /\ Set("main", rec)
        /\ UNCHANGED <<peers, heap, leaked, marking, up, undefined>>
    BY <1>4 DEF JoinFind
  <2>2. s # NoNode => heap[s].room \in RoomNumber /\ heap[s].room # m.room
    BY <1>1, <1>2, <2>1 DEF TableOK, AlreadyIn
  <2>3. old \in RoomNumber \cup {0} /\ (s # NoNode => old # 0)
    BY <2>2, ConstantFacts
  <2> HIDE DEF old
  <2>4. /\ rec \in ThreadState /\ rec.pc = "enter" /\ rec.peer = m.peer /\ rec.new = m.new
        /\ rec.room = m.room /\ rec.old = old
    BY <1>1, <2>3 DEF ThreadState
  <2> HIDE DEF rec
  <2>5. PlaceFor(Entries, heap, rec.new, rec.peer, rec.room)
    BY <1>1, <2>1, <2>4 DEF MainOK
  <2>6. ASSUME NEW b \in Entries, heap[b].key = rec.peer
        PROVE  rec.old # 0 /\ heap[b].room # rec.room
    <3>1. s \in Entries /\ heap[s].key = heap[b].key /\ s # NoNode
      BY <1>2, <2>4, <2>6
    <3>2. b = s
      BY <1>1, <3>1 DEF TableOK
    <3> QED BY <2>2, <2>3, <2>4, <3>1, <3>2
  <2>7. MainOK(Entries, heap, rec) /\ SendOK(Entries, heap, rec)
    BY <2>4, <2>5, <2>6 DEF MainOK, SendOK
  <2> QED BY <1>1, <2>1, <2>4, <2>7, MainMoves
<1> QED BY <1>3, <1>4

\* peer_list() of the main thread.
LEMMA MainRosterKeepsInv ==
    ASSUME TrackerInv,
           RosterCount("main") \/ RosterFill("main") \/ RosterSend("main")
    PROVE  TrackerInv'
<1> DEFINE m == thread["main"]
           here == InRoom(m.room)
<1>1. /\ m \in ThreadState /\ Types /\ Entries \in SUBSET Node /\ leaked \subseteq Node
      /\ MainOK(Entries, heap, m)
  BY MainFacts
<1>2. here = RoomIn(Entries, heap, m.room) /\ Cardinality(here) \in 0..Cardinality(Node)
  BY <1>1, TableNames, RoomSizes
<1>3. CASE RosterCount("main")
  <2> DEFINE rec == [m EXCEPT !.pc = "fill", !.count = Cardinality(here)]
  <2>1. Set("main", rec) /\ UNCHANGED <<peers, heap, leaked, marking, up, undefined>>
    BY <1>3 DEF RosterCount
  <2> HIDE DEF here
  <2>2. /\ rec \in ThreadState /\ rec.pc = "fill" /\ rec.count = Cardinality(here)
        /\ rec.room = m.room
    BY <1>1, <1>2 DEF ThreadState
  <2> HIDE DEF rec
  <2>3. Cardinality(RoomIn(Entries, heap, rec.room)) <= rec.count
    BY <1>2, <2>2, ConstantFacts
  <2>4. MainOK(Entries, heap, rec) /\ SendOK(Entries, heap, rec)
    BY <2>2, <2>3 DEF MainOK, SendOK
  <2> QED BY <1>1, <2>1, <2>2, <2>4, MainMoves
<1>4. CASE RosterFill("main")
  <2> DEFINE found == \E b \in here : heap[b].key = m.joiner
             rec == [m EXCEPT !.pc = "send", !.listed = found]
  <2>1. m.pc = "fill" /\ UNCHANGED <<peers, heap, leaked, marking, up>>
    BY <1>4 DEF RosterFill
  <2>2. Cardinality(here) <= m.count
    BY <1>1, <1>2, <2>1 DEF MainOK
  <2>3. Set("main", rec) /\ UNCHANGED undefined
    BY <1>4, <2>2 DEF RosterFill
  <2>4. found \in BOOLEAN /\ \A b \in Entries : heap[b].room = m.room /\ heap[b].key = m.joiner => found
    BY Zenon DEF InRoom
  <2> HIDE DEF found
  <2>5. /\ rec \in ThreadState /\ rec.pc = "send" /\ rec.room = m.room /\ rec.joiner = m.joiner
        /\ rec.listed = found
    BY <1>1, <2>4 DEF ThreadState
  <2> HIDE DEF rec
  <2>6. MainOK(Entries, heap, rec)
    BY <2>5 DEF MainOK
  <2>7. SendOK(Entries, heap, rec)
    BY <2>4, <2>5, Zenon DEF SendOK
  <2> QED BY <1>1, <2>1, <2>3, <2>5, <2>6, <2>7, MainMoves
<1>5. CASE RosterSend("main")
  <2> DEFINE rec == [Idle EXCEPT !.pc = "count", !.room = m.old]
             nxt == IF m.old # 0 THEN rec ELSE Idle
  <2>1. Set("main", nxt) /\ UNCHANGED <<peers, heap, leaked, marking, up, undefined>>
    BY <1>5 DEF RosterSend
  <2>2. m.old \in RoomNumber \cup {0}
    BY <1>1, LocalFacts DEF Threads
  <2>3. rec \in ThreadState /\ rec.pc = "count" /\ Idle.pc = "recv"
    BY <2>2, IdleFacts DEF ThreadState, Idle
  <2> HIDE DEF rec
  <2>4. nxt \in ThreadState /\ nxt.pc \in {"recv", "count"}
    BY <2>3, IdleFacts
  <2> HIDE DEF nxt
  <2>5. MainOK(Entries, heap, nxt) /\ SendOK(Entries, heap, nxt)
    BY <2>4, Carefree
  <2> QED BY <1>1, <2>1, <2>4, <2>5, MainMoves
<1> QED BY <1>3, <1>4, <1>5

\* malloc() hands out a block, and the new entry is made in it.
LEMMA NewBlockKeepsInv ==
    ASSUME TrackerInv, NEW b \in Mallocable, NEW p \in Peer, NEW r \in RoomNumber,
           NEW rec \in ThreadState, rec.pc \in {"create", "join"}, rec.peer = p, rec.room = r,
           rec.new = b, heap' = [heap EXCEPT ![b] = NewEntry(p, r)], Set("main", rec),
           leaked' = leaked \ {b}, UNCHANGED <<peers, marking, up, undefined>>,
           Cardinality(UsedRooms \cup {r}) <= MaxRooms, Cardinality(InRoom(r)) < MaxRoomSize
    PROVE  TrackerInv'
<1>1. /\ Types /\ IsInjective(peers) /\ OutOK(thread["output"])
      /\ Entries \in SUBSET Node /\ leaked \subseteq Node
  BY MainFacts
<1>2. b \in Node \ Entries
  BY DEF Mallocable
<1>3. NewEntry(p, r) \in Block /\ NewEntry(p, r).key = p /\ NewEntry(p, r).room = r
  BY DEF NewEntry, Block
<1>4. heap \in [Node -> Block]
  BY <1>1, TypeParts
<1>5. /\ heap' \in [Node -> Block] /\ heap'[b].key = p /\ heap'[b].room = r
      /\ \A c \in Entries : heap'[c] = heap[c]
  BY <1>1, <1>2, <1>3, <1>4
<1>6. thread' \in [Threads -> ThreadState] /\ thread'["main"] = rec /\ thread'["output"] = thread["output"]
  BY <1>1, SetFacts DEF Threads
<1>7. Types'
  <2>1. leaked' \subseteq Node
    BY <1>1
  <2> QED BY <1>1, <1>5, <1>6, <2>1, Zenon DEF Types
<1>8. Entries' = Entries /\ IsInjective(peers')
  BY <1>1 DEF Entries
<1>9. /\ RoomIn(Entries, heap', r) = RoomIn(Entries, heap, r)
      /\ RoomsIn(Entries, heap') = RoomsIn(Entries, heap)
  BY <1>5 DEF RoomIn, RoomsIn
<1>10. PlaceFor(Entries, heap', b, p, r)
  BY <1>2, <1>5, <1>9, TableNames DEF PlaceFor
<1>11. MainOK(Entries, heap', rec) /\ SendOK(Entries, heap', rec)
  BY <1>10 DEF MainOK, SendOK
<1> QED BY <1>1, <1>5, <1>6, <1>7, <1>8, <1>11, StepKeepsInv

LEMMA NumberKeepsInv == ASSUME TrackerInv, CreateNumber PROVE TrackerInv'
<1> DEFINE m == thread["main"]
<1>1. /\ m \in ThreadState /\ Types /\ TableOK(Entries, heap) /\ MainOK(Entries, heap, m)
      /\ Entries \in SUBSET Node
  BY MainFacts
<1>2. PICK b \in Mallocable, r \in (1..MaxRooms) \ UsedRooms :
         /\ heap' = [heap EXCEPT ![b] = NewEntry(m.peer, r)]
         /\ Set("main", [m EXCEPT !.pc = "create", !.room = r, !.new = b])
         /\ leaked' = leaked \ {b}
  BY Zenon DEF CreateNumber
<1>3. m.pc = "number" /\ UNCHANGED <<peers, marking, up, undefined>>
  BY DEF CreateNumber
<1>4. m.peer \in Peer /\ Cardinality(UsedRooms) < MaxRooms
  BY <1>1, <1>3, TableNames DEF MainOK
<1>5. UsedRooms \subseteq RoomNumber /\ IsFiniteSet(UsedRooms) /\ Cardinality(UsedRooms) \in Nat
  <2>1. UsedRooms \subseteq RoomNumber
    BY <1>1 DEF TableOK, UsedRooms
  <2>2. IsFiniteSet(UsedRooms)
    BY <1>1, TableNames, RoomSizes
  <2> QED BY <2>1, <2>2, FS_CardinalityType
<1>6. r \in RoomNumber /\ r \notin UsedRooms
  <2>1. MaxRooms \in Nat /\ r \in 1..MaxRooms /\ r \notin UsedRooms
    BY ChatAssumption
  <2> QED BY <2>1 DEF RoomNumber
<1>7. Cardinality(UsedRooms \cup {r}) <= MaxRooms
  <2>1. Cardinality(UsedRooms \cup {r}) = Cardinality(UsedRooms) + 1
    BY <1>5, <1>6, FS_AddElement
  <2> QED BY <1>4, <1>5, <2>1, ConstantFacts
<1>8. Cardinality(InRoom(r)) < MaxRoomSize
  <2>1. InRoom(r) = {}
    BY <1>6 DEF InRoom, UsedRooms
  <2> QED BY <2>1, FS_EmptySet, ConstantFacts
<1> DEFINE rec == [m EXCEPT !.pc = "create", !.room = r, !.new = b]
<1>9. /\ rec \in ThreadState /\ rec.pc = "create" /\ rec.peer = m.peer /\ rec.room = r
      /\ rec.new = b
  <2>1. b \in Node
    BY DEF Mallocable
  <2> QED BY <1>1, <1>6, <2>1 DEF ThreadState
<1>10. Set("main", rec)
  BY <1>2
<1> HIDE DEF rec
<1> QED BY <1>2, <1>3, <1>4, <1>6, <1>7, <1>8, <1>9, <1>10, NewBlockKeepsInv

LEMMA JoinCountKeepsInv ==
    ASSUME TrackerInv, NEW p \in Peer, NEW r \in RoomNumber, JoinCount(p, r) PROVE TrackerInv'
<1> DEFINE m == thread["main"]
<1>1. /\ m \in ThreadState /\ TableOK(Entries, heap)
  BY MainFacts
<1>2. PICK b \in Mallocable :
         /\ heap' = [heap EXCEPT ![b] = NewEntry(p, r)]
         /\ Set("main", [m EXCEPT !.pc = "join", !.peer = p, !.room = r, !.new = b])
         /\ leaked' = leaked \ {b}
  BY Zenon DEF JoinCount
<1>3. InRoom(r) # {} /\ Cardinality(InRoom(r)) < MaxRoomSize /\ UNCHANGED <<peers, marking, up, undefined>>
  BY DEF JoinCount
<1>4. Cardinality(UsedRooms \cup {r}) <= MaxRooms
  <2>1. UsedRooms \cup {r} = UsedRooms
    BY <1>3 DEF InRoom, UsedRooms
  <2> QED BY <1>1, <2>1, TableNames DEF TableOK
<1> DEFINE rec == [m EXCEPT !.pc = "join", !.peer = p, !.room = r, !.new = b]
<1>5. /\ rec \in ThreadState /\ rec.pc = "join" /\ rec.peer = p /\ rec.room = r /\ rec.new = b
  <2>1. b \in Node
    BY DEF Mallocable
  <2> QED BY <1>1, <2>1 DEF ThreadState
<1>6. Set("main", rec)
  BY <1>2
<1> HIDE DEF rec
<1> QED BY <1>2, <1>3, <1>4, <1>5, <1>6, NewBlockKeepsInv

\* The new entry is added to what is left of the list, where its peer has no entry.
LEMMA EnterKeepsInv ==
    ASSUME TrackerInv, thread["main"].pc \in {"add", "enter"},
           NEW list \in Seq(Node), IsInjective(list), Range(list) \subseteq Entries,
           \A b \in Range(list) : heap[b].key # thread["main"].peer,
           heap' \in [Node -> Block],
           \A b \in Node : heap'[b].key = heap[b].key /\ heap'[b].room = heap[b].room,
           peers' = HASH_ADD(list, thread["main"].new),
           NEW rec \in ThreadState, rec.pc \in {"recv", "count"}, Set("main", rec),
           leaked' \subseteq Node, UNCHANGED <<marking, up, undefined>>
    PROVE  TrackerInv'
<1> DEFINE m == thread["main"]
           F == Range(list)
<1>1. /\ Types /\ TableOK(Entries, heap) /\ MainOK(Entries, heap, m) /\ OutOK(thread["output"])
      /\ Entries \in SUBSET Node
  BY MainFacts
<1>2. PlaceFor(Entries, heap, m.new, m.peer, m.room)
  BY <1>1 DEF MainOK
<1>3. m.new \in Node /\ m.new \notin Entries
  BY <1>2 DEF PlaceFor
<1>4. peers' \in Seq(Node) /\ IsInjective(peers') /\ Range(peers') = F \cup {m.new}
  BY <1>3, Added
<1>5. Entries' = F \cup {m.new}
  BY <1>4 DEF Entries, Range
<1> HIDE DEF F
<1>6. F \in SUBSET Entries /\ F \in SUBSET Node /\ \A b \in F : heap[b].key # m.peer
  BY <1>1 DEF F
<1>7. \A b \in F \cup {m.new} : heap'[b].key = heap[b].key /\ heap'[b].room = heap[b].room
  BY <1>3, <1>6
<1> HIDE DEF m
<1>8. TableOK(F, heap')
  BY <1>1, <1>6, <1>7, SmallerTable
<1>9. PlaceFor(F, heap', m.new, m.peer, m.room)
  BY <1>1, <1>2, <1>6, <1>7, SmallerPlace
<1>10. \A b \in F : heap'[b].key # m.peer
  BY <1>6, <1>7
<1>11. TableOK(Entries', heap')
  BY <1>5, <1>8, <1>9, <1>10, LargerTable
<1>12. thread' \in [Threads -> ThreadState] /\ thread'["main"] = rec /\ thread'["output"] = thread["output"]
  BY <1>1, SetFacts DEF Threads
<1>13. Types'
  BY <1>1, <1>4, <1>12, Zenon DEF Types
<1>14. MainOK(Entries', heap', rec) /\ SendOK(Entries', heap', rec)
  BY Carefree
<1> QED BY <1>1, <1>4, <1>11, <1>12, <1>13, <1>14, PartsOfNextTrackerInv

LEMMA EnteredFacts ==
    ASSUME Types PROVE Entered \in ThreadState /\ Entered.pc = "count"
<1>1. /\ thread["main"].room \in RoomNumber \cup {0} /\ thread["main"].old \in RoomNumber \cup {0}
      /\ thread["main"].peer \in Peer \cup {NoPeer}
  BY LocalFacts DEF Threads
<1> QED BY <1>1, IdleFacts DEF Entered, ThreadState, Idle

LEMMA AddKeepsInv == ASSUME TrackerInv, CreateAdd \/ JoinAdd \/ JoinReplace PROVE TrackerInv'
<1> DEFINE m == thread["main"]
<1>1. /\ Types /\ TableOK(Entries, heap) /\ MainOK(Entries, heap, m) /\ IsInjective(peers)
      /\ Entries \in SUBSET Node /\ leaked \subseteq Node /\ peers \in Seq(Node)
      /\ heap \in [Node -> Block] /\ Entries = Range(peers)
  BY MainFacts, TypeParts, TableNames
<1>2. Idle.pc = "recv" /\ Entered.pc = "count" /\ Idle \in ThreadState /\ Entered \in ThreadState
  <2>1. Idle.pc = "recv"
    BY DEF Idle
  <2> QED BY <1>1, <2>1, IdleFacts, EnteredFacts
<1>3. CASE CreateAdd
  <2>1. /\ m.pc = "add" /\ peers' = HASH_ADD(peers, m.new) /\ Set("main", Idle)
        /\ UNCHANGED <<heap, leaked, marking, up, undefined>>
    BY <1>3 DEF CreateAdd
  <2>2. \A b \in Entries : heap[b].key # m.peer
    BY <1>1, <2>1 DEF MainOK
  <2> QED BY <1>1, <1>2, <2>1, <2>2, EnterKeepsInv
<1>4. CASE JoinAdd
  <2>1. /\ m.pc = "enter" /\ m.old = 0 /\ peers' = HASH_ADD(peers, m.new) /\ Set("main", Entered)
        /\ UNCHANGED <<heap, leaked, marking, up, undefined>>
    BY <1>4 DEF JoinAdd
  <2>2. \A b \in Entries : heap[b].key # m.peer
    BY <1>1, <2>1 DEF MainOK
  <2> QED BY <1>1, <1>2, <2>1, <2>2, EnterKeepsInv
<1>5. CASE JoinReplace
  <2> DEFINE s == HASH_FIND(m.peer)
  <2>1. m.pc = "enter" /\ Set("main", Entered) /\ UNCHANGED <<marking, up, undefined>>
    BY <1>5 DEF JoinReplace
  <2>2. \/ s = NoNode /\ \A b \in Entries : heap[b].key # m.peer
        \/ s \in Entries /\ s \in Node /\ s # NoNode /\ heap[s].key = m.peer
    BY <1>1, HashFind
  <2>3. CASE s = NoNode
    <3>1. peers' = HASH_ADD(peers, m.new) /\ UNCHANGED <<heap, leaked>>
      BY <1>5, <2>3 DEF JoinReplace
    <3>2. \A b \in Entries : heap[b].key # m.peer
      BY <2>2, <2>3
    <3> QED BY <1>1, <1>2, <2>1, <3>1, <3>2, EnterKeepsInv
  <2>4. CASE s # NoNode
    <3>1. /\ peers' = HASH_ADD(Without(s), m.new) /\ heap' = Unlinked(s)
          /\ leaked' = leaked \cup {s}
      BY <1>5, <2>4 DEF JoinReplace
    <3>2. s \in Entries /\ s \in Node /\ heap[s].key = m.peer
      BY <2>2, <2>4
    <3> HIDE DEF s
    <3>3. /\ Without(s) \in Seq(Node) /\ IsInjective(Without(s))
          /\ Range(Without(s)) = Entries \ {s}
          /\ heap' \in [Node -> Block]
          /\ \A b \in Node : heap'[b].key = heap[b].key /\ heap'[b].room = heap[b].room
      BY <1>1, <3>1, <3>2, Removed
    <3>4. \A b \in Entries \ {s} : heap[b].key # m.peer
      BY <1>1, <3>2 DEF TableOK
    <3>5. leaked' \subseteq Node /\ Range(Without(s)) \subseteq Entries
      BY <1>1, <3>1, <3>2, <3>3
    <3> QED BY <1>2, <2>1, <3>1, <3>3, <3>4, <3>5, EnterKeepsInv
  <2> QED BY <2>3, <2>4
<1> QED BY <1>3, <1>4, <1>5

LEMMA OverrunKeepsInv == ASSUME TrackerInv, RoomListOverrun PROVE TrackerInv'
BY StopKeepsInv DEF RoomListOverrun

LEMMA StutterKeepsTracker == ASSUME TrackerInv, UNCHANGED vars PROVE TrackerInv'
<1>1. Types /\ IsInjective(peers) /\ OutOK(thread["output"])
  BY PartsOfTrackerInv
<1>2. UNCHANGED <<peers, heap, leaked, thread, marking, up, undefined>>
  BY DEF vars
<1>3. Types'
  BY <1>1, <1>2, Zenon DEF Types
<1>4. Entries' = Entries /\ heap' = heap /\ IsInjective(peers') /\ thread' = thread
  BY <1>1, <1>2 DEF Entries
<1> QED BY <1>1, <1>3, <1>4, OthersKeepInv

LEMMA InitialTracker == Init => TrackerInv
<1> SUFFICES ASSUME Init PROVE TrackerInv
  OBVIOUS
<1>1. /\ peers = << >> /\ leaked = {} /\ marking = NoNode /\ up = Peer /\ undefined = "none"
      /\ heap = [b \in Node |-> [key |-> NoPeer, room |-> 0, alive |-> FALSE, next |-> NoNode]]
      /\ thread = [t \in Threads |-> IF t = "main" THEN Idle ELSE [Idle EXCEPT !.pc = "ping"]]
  BY DEF Init
<1>2. peers \in Seq(Node) /\ IsInjective(peers) /\ Entries = {}
  BY <1>1 DEF IsInjective, Entries
<1>3. heap \in [Node -> Block]
  BY <1>1 DEF Block
<1> DEFINE o == [Idle EXCEPT !.pc = "ping"]
<1>4. o \in ThreadState /\ o.pc = "ping" /\ o.old = 0 /\ Idle.pc = "recv"
  BY IdleFacts DEF ThreadState, Idle
<1> HIDE DEF o
<1>5. thread \in [Threads -> ThreadState] /\ thread["main"] = Idle /\ thread["output"] = o
  <2>1. thread = [t \in Threads |-> IF t = "main" THEN Idle ELSE o]
    BY <1>1 DEF o
  <2> QED BY <1>4, <2>1, IdleFacts DEF Threads
<1>6. Types
  <2>1. /\ leaked \subseteq Node /\ marking \in Node \cup {NoNode} /\ up \subseteq Peer
        /\ undefined \in {"none", "deleted twice", "output roster", "room list"}
    BY <1>1
  <2> QED BY <1>2, <1>3, <1>5, <2>1, Zenon DEF Types
<1>7. TableOK(Entries, heap)
  <2>1. RoomsIn(Entries, heap) = {} /\ \A r : RoomIn(Entries, heap, r) = {}
    BY <1>2 DEF RoomsIn, RoomIn
  <2>2. Cardinality(RoomsIn(Entries, heap)) = 0 /\ \A r : Cardinality(RoomIn(Entries, heap, r)) = 0
    BY <2>1, FS_EmptySet, Zenon
  <2>3. /\ Cardinality(RoomsIn(Entries, heap)) <= MaxRooms
        /\ \A r \in RoomNumber : Cardinality(RoomIn(Entries, heap, r)) <= MaxRoomSize
    BY <2>2, ConstantFacts
  <2> QED BY <1>2, <2>3, Zenon DEF TableOK
<1>8. MainOK(Entries, heap, thread["main"]) /\ SendOK(Entries, heap, thread["main"])
  BY <1>4, <1>5, Carefree
<1>9. OutOK(thread["output"])
  BY <1>4, <1>5 DEF OutOK
<1> QED BY <1>2, <1>6, <1>7, <1>8, <1>9, PartsOfTrackerInv

LEMMA NextKeepsTracker == TrackerInv /\ [Next]_vars => TrackerInv'
<1> SUFFICES ASSUME TrackerInv, [Next]_vars PROVE TrackerInv'
  OBVIOUS
<1>1. CASE UNCHANGED vars
  BY <1>1, StutterKeepsTracker
<1>2. CASE Request
  BY <1>2, RequestKeepsInv, JoinCountKeepsInv DEF Request
<1>3. CASE MainStep
  BY <1>3, NumberKeepsInv, DoneKeepsInv, FindKeepsInv, AddKeepsInv, DeleteKeepsInv,
     MainRosterKeepsInv, OverrunKeepsInv DEF MainStep, Threads
<1>4. CASE OutputStep
  BY <1>4, PingKeepsInv, WalkKeepsInv, DeleteKeepsInv, OutputRosterKeepsInv DEF OutputStep, Threads
<1>5. CASE InputStep
  BY <1>5, MarkKeepsInv, PongKeepsInv DEF InputStep
<1>6. CASE ClientStep
  BY <1>6, CrashKeepsInv DEF ClientStep
<1> QED BY <1>1, <1>2, <1>3, <1>4, <1>5, <1>6 DEF Next

(***************************************************************************)
(* The theorems.                                                           *)
(***************************************************************************)
\* The invariants together are kept by every step of the three threads.
THEOREM TrackerInvariant == SafetySpec => []TrackerInv
BY InitialTracker, NextKeepsTracker, PTL DEF SafetySpec

\* The state is well formed, and the table holds entries and no freed block.
THEOREM TableTypes == SafetySpec => []TypeOK
<1>1. TrackerInv => TypeOK
  BY Zenon DEF TrackerInv
<1> QED BY <1>1, TrackerInvariant, PTL

\* MAX_NUM_ROOMS and MAX_ROOM_SIZE are kept, although they are checked in walks of
\* their own, without peers_lock, steps before the entry is added.
THEOREM RoomLimits == SafetySpec => []LimitsKept
<1>1. TrackerInv => LimitsKept
  BY Zenon DEF TrackerInv
<1> QED BY <1>1, TrackerInvariant, PTL

\* The table has one entry for each peer at most, although HASH_FIND and HASH_ADD
\* are separate steps.
THEOREM EntriesUnique == SafetySpec => []OneEntryPerPeer
<1>1. TrackerInv => OneEntryPerPeer
  BY Zenon DEF TrackerInv
<1> QED BY <1>1, TrackerInvariant, PTL

\* The main thread's second walk in peer_list() and room_list() never meets more
\* than the first one has counted.
THEOREM WalksAgree == SafetySpec => []MainWalksAgree
<1>1. TrackerInv => MainWalksAgree
  BY Zenon DEF TrackerInv
<1> QED BY <1>1, TrackerInvariant, PTL

\* A joiner that is still in its room when peer_list() sends is on the roster.
THEOREM JoinersListed == SafetySpec => []JoinerOnRoster
<1>1. TrackerInv => JoinerOnRoster
  BY Zenon DEF TrackerInv
<1> QED BY <1>1, TrackerInvariant, PTL

\* What a request has found out still holds when a later step acts on it.
THEOREM RequestsUndisturbed == SafetySpec => []RequestKept
<1>1. TrackerInv => RequestKept
  BY Zenon DEF TrackerInv
<1> QED BY <1>1, TrackerInvariant, PTL

(***************************************************************************)
(* The tracker implements Rooms.                                           *)
(***************************************************************************)
\* M says which room each peer is in, when the table is E with contents h.
MapIs(M, E, h) ==
    /\ M \in [Peer -> RoomNumber \cup {0}]
    /\ \A b \in E : M[h[b].key] = h[b].room
    /\ \A p \in Peer : (\A b \in E : h[b].key # p) => M[p] = 0

LEMMA MapFacts == TrackerInv => MapIs(RoomOfPeer, Entries, heap)
<1> SUFFICES ASSUME TrackerInv PROVE MapIs(RoomOfPeer, Entries, heap)
  OBVIOUS
<1>1. Types /\ TableOK(Entries, heap)
  BY MainFacts
<1>2. \A p \in Peer : RoomOfPeer[p] = IF HASH_FIND(p) = NoNode THEN 0 ELSE heap[HASH_FIND(p)].room
  BY DEF RoomOfPeer
<1>3. \A p : \/ HASH_FIND(p) = NoNode /\ \A b \in Entries : heap[b].key # p
             \/ /\ HASH_FIND(p) \in Entries /\ HASH_FIND(p) # NoNode
                /\ heap[HASH_FIND(p)].key = p
  BY <1>1, HashFind
<1>4. \A p \in Peer : RoomOfPeer[p] \in RoomNumber \cup {0}
  BY <1>1, <1>2, <1>3 DEF TableOK
<1>5. RoomOfPeer \in [Peer -> RoomNumber \cup {0}]
  <2>1. RoomOfPeer = [p \in Peer |-> RoomOfPeer[p]]
    BY DEF RoomOfPeer
  <2> QED BY <1>4, <2>1
<1>6. ASSUME NEW b \in Entries PROVE RoomOfPeer[heap[b].key] = heap[b].room
  <2> DEFINE p == heap[b].key
  <2>1. p \in Peer /\ b \in Entries
    BY <1>1 DEF TableOK
  <2>2. HASH_FIND(p) \in Entries /\ HASH_FIND(p) # NoNode /\ heap[HASH_FIND(p)].key = heap[b].key
    BY <1>3
  <2>3. HASH_FIND(p) = b
    BY <1>1, <2>2 DEF TableOK
  <2> QED BY <1>2, <2>1, <2>2, <2>3
<1>7. ASSUME NEW p \in Peer, \A b \in Entries : heap[b].key # p PROVE RoomOfPeer[p] = 0
  BY <1>2, <1>3, <1>7
<1> QED BY <1>5, <1>6, <1>7 DEF MapIs

LEMMA NextMapFacts == TrackerInv' => MapIs(RoomOfPeer', Entries', heap')
<1>1. TrackerInv' => MapIs(RoomOfPeer, Entries, heap)'
  BY MapFacts, PTL
<1> QED BY <1>1

\* The table is the same, but for fields that are nobody's business but the ping threads'.
LEMMA SameMap ==
    ASSUME NEW M, NEW N, NEW E, NEW h, NEW g, MapIs(M, E, h), MapIs(N, E, g), TableOK(E, h),
           \A b \in E : g[b].key = h[b].key /\ g[b].room = h[b].room
    PROVE  N = M
<1>1. M \in [Peer -> RoomNumber \cup {0}] /\ N \in [Peer -> RoomNumber \cup {0}]
  BY DEF MapIs
<1>2. ASSUME NEW p \in Peer PROVE N[p] = M[p]
  BY DEF MapIs
<1> QED BY <1>1, <1>2

\* The peers other than k have the same entries in the table D as in E.
OnlyDiffersIn(k, E, h, D, g) ==
    /\ \A c \in E : h[c].key # k => c \in D /\ g[c].key = h[c].key /\ g[c].room = h[c].room
    /\ \A c \in D : g[c].key # k => c \in E /\ g[c].key = h[c].key

LEMMA OtherRooms ==
    ASSUME NEW M, NEW N, NEW E, NEW D, NEW h, NEW g, NEW k, MapIs(M, E, h), MapIs(N, D, g),
           OnlyDiffersIn(k, E, h, D, g)
    PROVE  \A q \in Peer : q # k => N[q] = M[q]
<1> SUFFICES ASSUME NEW q \in Peer, q # k PROVE N[q] = M[q]
  OBVIOUS
<1>1. CASE \E c \in E : h[c].key = q
  <2>1. PICK c \in E : h[c].key = q
    BY <1>1
  <2>2. c \in D /\ g[c].key = q /\ g[c].room = h[c].room
    BY <2>1 DEF OnlyDiffersIn
  <2> QED BY <2>1, <2>2 DEF MapIs
<1>2. CASE \A c \in E : h[c].key # q
  <2>1. \A c \in D : g[c].key # q
    BY <1>2 DEF OnlyDiffersIn
  <2> QED BY <1>2, <2>1 DEF MapIs
<1> QED BY <1>1, <1>2

LEMMA SameCardinality == \A S : InRoomsOf!Cardinality(S) = Cardinality(S)
BY Zenon DEF InRoomsOf!Cardinality, Cardinality

LEMMA OccupantFacts ==
    ASSUME TrackerInv, NEW r \in RoomNumber
    PROVE  /\ InRoomsOf!Occupied = UsedRooms
           /\ Cardinality(InRoomsOf!Occupants(r)) \in Nat
           /\ Cardinality(InRoomsOf!Occupants(r)) <= Cardinality(InRoom(r))
<1>1. /\ MapIs(RoomOfPeer, Entries, heap) /\ TableOK(Entries, heap) /\ Entries \in SUBSET Node
  BY MapFacts, MainFacts
<1>2. ASSUME NEW p \in Peer, NEW q \in RoomNumber, RoomOfPeer[p] = q
      PROVE  \E b \in InRoom(q) : heap[b].key = p
  <2>1. q # 0
    BY ConstantFacts
  <2>2. PICK b \in Entries : heap[b].key = p
    BY <1>1, <1>2, <2>1 DEF MapIs
  <2>3. heap[b].room = q
    BY <1>1, <1>2, <2>2 DEF MapIs
  <2> QED BY <2>2, <2>3 DEF InRoom
<1>3. ASSUME NEW q \in RoomNumber, NEW b \in InRoom(q)
      PROVE  heap[b].key \in Peer /\ RoomOfPeer[heap[b].key] = q
  BY <1>1 DEF MapIs, TableOK, InRoom
<1>4. InRoomsOf!Occupied = UsedRooms
  <2>1. \A q \in UsedRooms : q \in RoomNumber /\ \E b \in InRoom(q) : TRUE
    BY <1>1 DEF TableOK, UsedRooms, InRoom
  <2>2. \A q \in RoomNumber : (\E b \in InRoom(q) : TRUE) => q \in UsedRooms
    BY DEF UsedRooms, InRoom
  <2>3. InRoomsOf!RoomNumbers = RoomNumber
    BY DEF InRoomsOf!RoomNumbers, RoomNumber
  <2> QED BY <1>2, <1>3, <2>1, <2>2, <2>3 DEF InRoomsOf!Occupied
<1> DEFINE S == InRoom(r)
           T == InRoomsOf!Occupants(r)
           f == [b \in S |-> heap[b].key]
<1>5. T = {p \in Peer : RoomOfPeer[p] = r}
  BY DEF InRoomsOf!Occupants
<1>6. IsFiniteSet(S) /\ Cardinality(S) \in 0..Cardinality(Node)
  BY <1>1, TableNames, RoomSizes
<1>7. f \in [S -> T] /\ \A p \in T : \E b \in S : f[b] = p
  BY <1>2, <1>3, <1>5
<1> HIDE DEF S, T, f
<1>8. IsFiniteSet(T) /\ Cardinality(T) <= Cardinality(S)
  BY <1>6, <1>7, ImageFacts
<1>9. Cardinality(T) \in Nat
  BY <1>8, FS_CardinalityType
<1> QED BY <1>4, <1>8, <1>9 DEF S, T

\* A step that leaves the entries as they are is one of Rooms: nothing, or the end.
LEMMA QuietRefines ==
    ASSUME TrackerInv, TrackerInv', undefined = "none", peers' = peers,
           \A b \in Entries : heap'[b].key = heap[b].key /\ heap'[b].room = heap[b].room
    PROVE  [InRoomsOf!RoomNext]_(InRoomsOf!roomVars)
<1>1. Entries' = Entries
  BY DEF Entries
<1>2. MapIs(RoomOfPeer, Entries, heap) /\ MapIs(RoomOfPeer', Entries, heap') /\ TableOK(Entries, heap)
  BY <1>1, MapFacts, NextMapFacts, MainFacts
<1>3. RoomOfPeer' = RoomOfPeer
  BY <1>2, SameMap
<1>4. CASE undefined' = "none"
  BY <1>3, <1>4 DEF InRoomsOf!roomVars
<1>5. CASE undefined' # "none"
  <2>1. InRoomsOf!Fail
    BY <1>3, <1>5 DEF InRoomsOf!Fail
  <2> QED BY <2>1 DEF InRoomsOf!RoomNext
<1> QED BY <1>4, <1>5

\* The steps that do so.
LEMMA QuietSteps ==
    ASSUME TrackerInv, [Next]_vars, ~(CreateAdd \/ JoinAdd \/ JoinReplace),
           \A t \in Threads : LeaveDelete(t) => thread[t].node \notin Entries
    PROVE  /\ peers' = peers
           /\ \A b \in Entries : heap'[b].key = heap[b].key /\ heap'[b].room = heap[b].room
<1>1. Types /\ Entries \in SUBSET Node /\ heap \in [Node -> Block]
  BY MainFacts, TypeParts
<1>2. CASE UNCHANGED vars
  BY <1>2 DEF vars
<1>3. CASE CreateNumber
  <2>1. PICK b \in Mallocable : \E r : heap' = [heap EXCEPT ![b] = NewEntry(thread["main"].peer, r)]
    BY <1>3, Zenon DEF CreateNumber
  <2>2. b \in Node \ Entries
    BY DEF Mallocable
  <2>3. \A c \in Entries : heap'[c] = heap[c]
    BY <1>1, <2>1, <2>2
  <2> QED BY <1>3, <2>3 DEF CreateNumber
<1>4. ASSUME NEW p \in Peer, NEW r \in RoomNumber, JoinCount(p, r)
      PROVE  /\ peers' = peers
             /\ \A b \in Entries : heap'[b].key = heap[b].key /\ heap'[b].room = heap[b].room
  <2>1. PICK b \in Mallocable : heap' = [heap EXCEPT ![b] = NewEntry(p, r)]
    BY <1>4, Zenon DEF JoinCount
  <2>2. b \in Node \ Entries
    BY DEF Mallocable
  <2>3. \A c \in Entries : heap'[c] = heap[c]
    BY <1>1, <2>1, <2>2
  <2> QED BY <1>4, <2>3 DEF JoinCount
<1>5. ASSUME NEW s \in Node, NEW v \in BOOLEAN, heap' = [heap EXCEPT ![s].alive = v]
      PROVE  \A b \in Entries : heap'[b].key = heap[b].key /\ heap'[b].room = heap[b].room
  BY <1>1, <1>5 DEF Block
<1>6. CASE SendPing
  <2>1. thread["output"].walk \in Node
    BY <1>1, <1>6, LocalFacts DEF SendPing, Threads
  <2> QED BY <1>5, <1>6, <2>1 DEF SendPing
<1>7. CASE PongMark
  <2>1. marking \in Node
    BY <1>1, <1>7, TypeParts DEF PongMark
  <2> QED BY <1>5, <1>7, <2>1 DEF PongMark
<1>8. ASSUME NEW t \in Threads, LeaveDelete(t) PROVE peers' = peers /\ heap' = heap
  BY <1>8 DEF LeaveDelete
<1>9. ASSUME NEW t \in Threads, RosterCount(t) \/ RosterFill(t) \/ RosterSend(t)
      PROVE  peers' = peers /\ heap' = heap
  BY <1>9 DEF RosterCount, RosterFill, RosterSend
<1>10. CASE Request
  BY <1>4, <1>10 DEF Request, CreateCount, LeaveFind, RoomListCount
<1>11. CASE MainStep
  BY <1>3, <1>8, <1>9, <1>11 DEF MainStep, CreateFound, CreateAbsent, JoinAlreadyIn, JoinFind,
     RoomListReply, RoomListOverrun, Threads
<1>12. CASE OutputStep
  BY <1>6, <1>8, <1>9, <1>12 DEF OutputStep, AllPinged, PingTimeout, CheckPeer, EvictFind, AllChecked,
     Threads
<1>13. CASE InputStep
  BY <1>7, <1>13 DEF InputStep, PongFind
<1>14. CASE ClientStep
  BY <1>14 DEF ClientStep, Crash
<1> QED BY <1>2, <1>10, <1>11, <1>12, <1>13, <1>14 DEF Next

\* peer_leave() of either thread is Leave of the peer whose entry it removes.
LEMMA DeleteRefines ==
    ASSUME TrackerInv, TrackerInv', undefined = "none", NEW t \in Threads, LeaveDelete(t),
           thread[t].node \in Entries
    PROVE  InRoomsOf!RoomNext
<1> DEFINE s == thread[t].node
           h == [Unlinked(s) EXCEPT ![s].key = NoPeer]
<1>1. Types /\ IsInjective(peers) /\ TableOK(Entries, heap) /\ Entries \in SUBSET Node
  BY MainFacts
<1>2. peers' = Without(s) /\ heap' = h /\ undefined' = undefined
  BY DEF LeaveDelete
<1>3. /\ Range(Without(s)) = Entries \ {s} /\ Unlinked(s) \in [Node -> Block]
      /\ \A b \in Node : Unlinked(s)[b].key = heap[b].key /\ Unlinked(s)[b].room = heap[b].room
  BY <1>1, Removed
<1>4. \A b \in Node : b # s => h[b].key = heap[b].key /\ h[b].room = heap[b].room
  BY <1>3
<1>5. Entries' = Entries \ {s}
  BY <1>2, <1>3 DEF Entries, Range
<1> DEFINE p == heap[s].key
<1>6. p \in Peer /\ heap[s].room \in RoomNumber
  BY <1>1 DEF TableOK
<1>7. MapIs(RoomOfPeer, Entries, heap) /\ MapIs(RoomOfPeer', Entries', heap')
  BY MapFacts, NextMapFacts
<1>8. \A b \in Entries \ {s} : heap'[b].key = heap[b].key /\ heap'[b].room = heap[b].room
  BY <1>1, <1>2, <1>4
<1>9. RoomOfPeer' = [RoomOfPeer EXCEPT ![p] = 0]
  <2>1. \A b \in Entries : heap[b].key # p <=> b # s
    BY <1>1 DEF TableOK
  <2>2. \A b \in Entries' : b \in Entries /\ heap'[b].key # p
    BY <1>5, <1>8, <2>1
  <2>3. \A q \in Peer : q # p => RoomOfPeer'[q] = RoomOfPeer[q]
    <3>1. OnlyDiffersIn(p, Entries, heap, Entries', heap')
      BY <1>5, <1>8, <2>1 DEF OnlyDiffersIn
    <3> HIDE DEF p
    <3> QED BY <1>7, <3>1, OtherRooms
  <2>4. RoomOfPeer'[p] = 0
    BY <1>6, <1>7, <2>2 DEF MapIs
  <2>5. /\ RoomOfPeer \in [Peer -> RoomNumber \cup {0}]
        /\ RoomOfPeer' \in [Peer -> RoomNumber \cup {0}]
    BY <1>7 DEF MapIs
  <2> QED BY <1>6, <2>3, <2>4, <2>5
<1>10. RoomOfPeer[p] # 0
  BY <1>6, <1>7, ConstantFacts DEF MapIs
<1> HIDE DEF p
<1>11. InRoomsOf!Leave(p)
  BY <1>2, <1>9, <1>10 DEF InRoomsOf!Leave
<1> QED BY <1>6, <1>11 DEF InRoomsOf!RoomNext

\* HASH_ADD of peer_create_room() and of peer_join() is Enter: there is a place, and
\* the peer is not in the room.
LEMMA AddRefines ==
    ASSUME TrackerInv, TrackerInv', undefined = "none", CreateAdd \/ JoinAdd \/ JoinReplace
    PROVE  InRoomsOf!RoomNext
<1> DEFINE m == thread["main"]
           s == HASH_FIND(m.peer)
           p == m.peer
           r == m.room
           E == Entries
           F == {b \in Entries : heap[b].key # p}
<1>1. /\ Types /\ IsInjective(peers) /\ TableOK(E, heap) /\ MainOK(E, heap, m)
      /\ E \in SUBSET Node /\ peers \in Seq(Node) /\ E = Range(peers)
  BY MainFacts, TypeParts, TableNames
<1>2. m.pc \in {"add", "enter"} /\ undefined' = undefined
  BY DEF CreateAdd, JoinAdd, JoinReplace
<1>3. PlaceFor(E, heap, m.new, p, r)
  BY <1>1, <1>2 DEF MainOK
<1>4. m.new \in Node /\ m.new \notin E /\ p \in Peer /\ r \in RoomNumber
  BY <1>3 DEF PlaceFor
<1>5. \A b \in E : heap[b].key = p => heap[b].room # r
  BY <1>1, <1>2 DEF MainOK
<1>6. /\ Entries' = F \cup {m.new}
      /\ \A b \in Node : heap'[b].key = heap[b].key /\ heap'[b].room = heap[b].room
  <2>1. \/ s = NoNode /\ \A b \in E : heap[b].key # p
        \/ s \in E /\ s # NoNode /\ heap[s].key = p
    BY <1>1, HashFind
  <2>2. CASE peers' = HASH_ADD(peers, m.new) /\ heap' = heap /\ (\A b \in E : heap[b].key # p)
    <3>1. Range(peers') = E \cup {m.new}
      BY <1>1, <1>4, <2>2, Added
    <3>2. F = E
      BY <2>2
    <3> QED BY <2>2, <3>1, <3>2 DEF Entries, Range
  <2>3. CASE JoinReplace /\ s # NoNode
    <3>1. peers' = HASH_ADD(Without(s), m.new) /\ heap' = Unlinked(s) /\ s \in E
      BY <2>1, <2>3 DEF JoinReplace
    <3> HIDE DEF s
    <3>2. /\ Without(s) \in Seq(Node) /\ IsInjective(Without(s))
          /\ Range(Without(s)) = E \ {s}
          /\ \A b \in Node : heap'[b].key = heap[b].key /\ heap'[b].room = heap[b].room
      BY <1>1, <3>1, Removed
    <3>3. Range(peers') = (E \ {s}) \cup {m.new}
      BY <1>4, <3>1, <3>2, Added
    <3>4. F = E \ {s}
      BY <1>1, <2>1, <2>3, <3>1 DEF TableOK, s
    <3> QED BY <3>2, <3>3, <3>4 DEF Entries, Range
  <2>4. CASE CreateAdd \/ JoinAdd
    <3>1. peers' = HASH_ADD(peers, m.new) /\ heap' = heap
      BY <2>4 DEF CreateAdd, JoinAdd
    <3>2. \A b \in E : heap[b].key # p
      BY <1>1, <2>4 DEF CreateAdd, JoinAdd, MainOK
    <3> QED BY <2>2, <3>1, <3>2
  <2>5. CASE JoinReplace /\ s = NoNode
    <3>1. peers' = HASH_ADD(peers, m.new) /\ heap' = heap
      BY <2>5 DEF JoinReplace
    <3> QED BY <2>1, <2>2, <2>5, <3>1
  <2> QED BY <2>3, <2>4, <2>5
<1>7. heap'[m.new].key = p /\ heap'[m.new].room = r
  BY <1>3, <1>4, <1>6 DEF PlaceFor
<1>8. MapIs(RoomOfPeer, E, heap) /\ MapIs(RoomOfPeer', Entries', heap')
  BY MapFacts, NextMapFacts
<1>9. RoomOfPeer' = [RoomOfPeer EXCEPT ![p] = r]
  <2>1. m.new \in Entries' /\ \A c \in Entries' : c \in E \/ heap'[c].key = p
    BY <1>6, <1>7
  <2>2. \A q \in Peer : q # p => RoomOfPeer'[q] = RoomOfPeer[q]
    <3>1. OnlyDiffersIn(p, E, heap, Entries', heap')
      BY <1>1, <1>6, <2>1 DEF OnlyDiffersIn
    <3> HIDE DEF p, E
    <3> QED BY <1>8, <3>1, OtherRooms
  <2>3. RoomOfPeer'[p] = r
    BY <1>7, <1>8, <2>1 DEF MapIs
  <2>4. /\ RoomOfPeer \in [Peer -> RoomNumber \cup {0}]
        /\ RoomOfPeer' \in [Peer -> RoomNumber \cup {0}]
    BY <1>8 DEF MapIs
  <2> QED BY <1>4, <2>2, <2>3, <2>4
<1>10. RoomOfPeer[p] # r
  <2>1. r # 0
    BY <1>4, ConstantFacts
  <2>2. CASE \E b \in E : heap[b].key = p
    BY <1>5, <1>8, <2>2 DEF MapIs
  <2>3. CASE \A b \in E : heap[b].key # p
    BY <1>4, <1>8, <2>1, <2>3 DEF MapIs
  <2> QED BY <2>2, <2>3
<1>11. /\ UsedRooms = RoomsIn(E, heap) /\ InRoom(r) = RoomIn(E, heap, r)
       /\ IsFiniteSet(UsedRooms) /\ Cardinality(UsedRooms) \in 0..Cardinality(Node)
       /\ Cardinality(InRoom(r)) \in 0..Cardinality(Node)
  BY <1>1, TableNames, RoomSizes
<1>12. /\ InRoomsOf!Occupied = UsedRooms /\ Cardinality(InRoomsOf!Occupants(r)) \in Nat
       /\ Cardinality(InRoomsOf!Occupants(r)) <= Cardinality(InRoom(r))
  BY <1>4, OccupantFacts
<1>13. Cardinality(InRoomsOf!Occupants(r)) < MaxRoomSize
  <2>1. Cardinality(InRoom(r)) < MaxRoomSize
    BY <1>3, <1>11 DEF PlaceFor
  <2> QED BY <1>11, <1>12, <2>1, ConstantFacts
<1>14. r \in InRoomsOf!Occupied \/ Cardinality(InRoomsOf!Occupied) < MaxRooms
  <2>1. Cardinality(UsedRooms \cup {r}) <= MaxRooms
    BY <1>3, <1>11 DEF PlaceFor
  <2>2. r \notin UsedRooms => Cardinality(UsedRooms \cup {r}) = Cardinality(UsedRooms) + 1
    BY <1>11, FS_AddElement
  <2> HIDE DEF r
  <2>3. r \notin UsedRooms => Cardinality(UsedRooms) < MaxRooms
    BY <1>11, <2>1, <2>2, ConstantFacts
  <2> QED BY <1>12, <2>3
<1> HIDE DEF p, r
<1>15. InRoomsOf!Enter(p, r)
  <2>1. ~(undefined # "none") /\ UNCHANGED (undefined # "none")
    BY <1>2
  <2> QED BY <1>9, <1>10, <1>13, <1>14, <2>1, SameCardinality, Zenon DEF InRoomsOf!Enter
<1>16. r \in InRoomsOf!RoomNumbers
  BY <1>4 DEF InRoomsOf!RoomNumbers, RoomNumber
<1> QED BY <1>4, <1>15, <1>16 DEF InRoomsOf!RoomNext

LEMMA StepRefines ==
    TrackerInv /\ TrackerInv' /\ [Next]_vars => [InRoomsOf!RoomNext]_(InRoomsOf!roomVars)
<1> SUFFICES ASSUME TrackerInv, TrackerInv', [Next]_vars
             PROVE  [InRoomsOf!RoomNext]_(InRoomsOf!roomVars)
  OBVIOUS
<1>1. CASE undefined # "none"
  <2>1. UNCHANGED <<peers, heap, undefined>>
    BY <1>1 DEF Next, vars
  <2>2. RoomOfPeer' = RoomOfPeer
    <3>1. Entries' = Entries
      BY <2>1 DEF Entries
    <3>2. MapIs(RoomOfPeer, Entries, heap) /\ MapIs(RoomOfPeer', Entries, heap) /\ TableOK(Entries, heap)
      BY <2>1, <3>1, MapFacts, NextMapFacts, MainFacts
    <3> QED BY <3>2, SameMap
  <2> QED BY <2>1, <2>2 DEF InRoomsOf!roomVars
<1>2. CASE undefined = "none" /\ (CreateAdd \/ JoinAdd \/ JoinReplace)
  BY <1>2, AddRefines
<1>3. CASE undefined = "none" /\ \E t \in Threads : LeaveDelete(t) /\ thread[t].node \in Entries
  BY <1>3, DeleteRefines
<1>4. CASE /\ undefined = "none" /\ ~(CreateAdd \/ JoinAdd \/ JoinReplace)
           /\ \A t \in Threads : LeaveDelete(t) => thread[t].node \notin Entries
  <2>1. /\ peers' = peers
        /\ \A b \in Entries : heap'[b].key = heap[b].key /\ heap'[b].room = heap[b].room
    BY <1>4, QuietSteps
  <2> QED BY <1>4, <2>1, QuietRefines
<1> QED BY <1>1, <1>2, <1>3, <1>4

LEMMA StartRefines == Init => InRoomsOf!RoomInit
<1> SUFFICES ASSUME Init PROVE InRoomsOf!RoomInit
  OBVIOUS
<1>1. Entries = {} /\ undefined = "none"
  BY DEF Init, Entries
<1>2. MapIs(RoomOfPeer, Entries, heap)
  BY InitialTracker, MapFacts
<1>3. RoomOfPeer = [p \in Peer |-> 0]
  BY <1>1, <1>2 DEF MapIs
<1> QED BY <1>1, <1>3 DEF InRoomsOf!RoomInit

\* Whatever the three threads do, the tracker's table is that of Rooms: a peer is in
\* one room, entering one and leaving the other is one indivisible step, and nobody
\* enters a full room or opens one room too many.
THEOREM TrackerImplementsRooms == SafetySpec => ImplementsRooms
<1>1. TrackerInv /\ TrackerInv' /\ [Next]_vars => [InRoomsOf!RoomNext]_(InRoomsOf!roomVars)
  BY StepRefines
<1> QED BY <1>1, StartRefines, TrackerInvariant, PTL DEF SafetySpec, ImplementsRooms, InRoomsOf!RoomSpec
=============================================================================
