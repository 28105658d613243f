# A TLA+ model of the Dubstep Ducks torrent system

The repository is a small BitTorrent-like system in C: a tracker server, a
client that is started on many hosts, and a tool that makes torrent files.
Beside it, under `examples/`, it keeps a tracker with one thread per client and
a peer-to-peer chat, whose tracker and client the design was learnt from. This
directory holds TLA+ modules translated from that code, the TLC configurations
that check them on small instances, and proofs for instances of any size.
`PROJECT.json` maps every definition to the lines it models and lists the runs,
the mutants, the hazards and the theorems.

To run one check: `tlc -config MCTracker.cfg MCTracker`. To check the proofs:
`tlapm TrackerProofs.tla`, and so on for each module named `...Proofs`.

## 1. The system

| Part | Source (under `src/src/` unless noted) | State | Operations | Hard because |
|---|---|---|---|---|
| Tracker server | `tracker_serv.c`, list and reply in `tracker.c` | linked list of addresses, its counter, the accepted sockets | accept, read a request, register, reply | one thread blocks on one client; sockets are never closed; the counter and the list are updated apart; the reply's size is computed from the counter and filled from the list |
| Tracker protocol, client side | `tracker.c` | the answer | `requestPeers`, `joinTracker` | a closed connection leaves a buffer nobody wrote to |
| Client start-up | `torrent.c` 11-176, `util.c` | peers still to greet, `fds` | register, listen, connect to each known peer, handshake | every client blocks on others that may be doing the same; peers may not listen yet or no longer |
| Client poll loop | `torrent.c` 177-441 | `fds`, `revents`, `max_peer_index`, `connections` | poll, accept, receive, answer, send | blocking `recv()` on every slot; the accepted socket replaces `fds[1]`; `i` is reused inside the pass |
| Peer wire protocol | `btp.c` | status flags, bitfields, the piece to send | build, parse, verify, set flags | flags that are cleared together or never; messages recognised by the length of a `recv()` |
| File constructor | `file_constructor.c` | the file | verify, read, write a piece | reached from the PIECE branch only, with a descriptor nobody set |
| Metainfo decoder | `bencode.c` | the tree, the fields taken from it | decode, `decodeFile` | recursion over bytes that need not be well formed; fields computed from others that may not be set yet, in a block that is too small for them |
| Metainfo encoder | `encode.c` | none | encode | fixed local buffers, hashes treated as strings |
| Threaded tracker | `examples/tracker/tracker2.c` | shared array and counter | one thread per client | no lock; arguments passed by the address of a variable that changes |
| Chat tracker | `examples/p2p-chat-example/tracker.c`, `uthash.h` | the table of peers, in rooms | create, join, leave, list; ping and evict | three threads; the lock covers single changes only, not the lookups and walks before them |
| Chat client | `examples/p2p-chat-example/client.c` | its room and the room's roster | requests, messages, rosters | UDP; rosters that do not say which room they are of; two threads |

How they interact: a client opens a TCP connection to the tracker and sends
`list`; the server registers the client's address and answers with all the
others. The client then opens its own listener, connects to each of these
addresses in turn, sends a handshake and blocks until it is answered; only then
does it enter the loop in which it accepts connections, answers handshakes and
exchanges pieces. What it exchanges it has read from a torrent file. Nothing is
persisted; a client that is started again comes from the same address and is
still in the tracker's list. The chat is a system of its own: clients ask the
tracker for a room, the tracker tells everybody in a room who is there, and
messages go from client to client; a thread of the tracker pings everyone and
removes whoever does not answer.

What makes each part correct:

- the tracker: two clients can find each other (at least one is told about the
  other), a reply never overruns its buffer, everyone who asks is answered;
- start-up: clients do not wait for each other in a circle, a handshake is not
  lost, every client gets out of start-up whatever the others do;
- the loop: a piece is sent only to who asked for it; a request goes to the peer
  that has the piece; who is unchoked is served; a pass over the entries stays
  inside the arrays;
- the decoder: it ends on every input and gives back what was encoded;
- the threaded tracker: errors of memory only where threads meet;
- the chat tracker: the limits on rooms hold, a peer has one entry, arrays
  sized by one walk are large enough for the next, a dead peer is removed;
- the chat client: its room and roster are the tracker's once things are quiet,
  and a message never goes to someone it was never in a room with.

## 2. The modules

| Module | What it is | Instance |
|---|---|---|
| `Registry` | what the tracker promises: one indivisible step registers the caller and tells it who was there before | |
| `Tracker` | `tracker_serv.c` and both ends of `tracker.c` | `MCTracker` |
| `Swarm` | several runs of `torrent.c` and the sockets between them | `MCSwarm` |
| `PeerWire` | one run of `torrent.c`: flags, requests and pieces | `MCPeerWire` |
| `Metainfo` | `bencode.c`: the decoder and `decodeFile` | `MCMetainfo` |
| `Bencode` | the format from the writer's side: it makes the files of `MCMetainfo` | |
| `ThreadedTracker` | `tracker2.c` | `MCThreadedTracker` |
| `Rooms` | what the chat tracker promises: who is in which room | |
| `ChatTracker` | the chat tracker's threads and the table they share | `MCChatTracker` |
| `Chat` | the chat clients, and what the two threads of the tracker that change rooms send them; `Rooms` is the table | `MCChat` |
| `TrackerProofs`, `SwarmProofs`, `PeerWireProofs`, `ThreadedTrackerProofs`, `ChatTrackerProofs`, `ChatProofs`, `MetainfoProofs` | the theorems about the module of that name | |
| `ListFacts` | lemmas on sequences that these share | |

Definitions marked `Mutant` are faulty versions of the definition that follows
them. No specification uses them: they stand for plausible slips in the code,
and each property is checked to notice one.

### Tracker

A member of `Conn` is one connection, so one run of a client; `ipOf` gives its
address, and two connections may share one. `list` is the linked list as a
sequence, `numClients` the counter beside it, `backlog` the kernel's listen
queue, `accepted` the sockets the server never closes. The server's steps are
the stretches between blocking calls: `Accept`, `ServeList` (line 68 on:
register, then `sendClients`), `ServeOther` (everything else ends in a
`printf`), `AcceptFails` (the loop ends, the list is freed). `RecvMsg` is what
`recv_msg` may hold: the message, or, when the client closed the connection
without one, whatever the memory held before, which may look like `list`.

A reply is the set of `<<slot, address>>` writes into a buffer of `numClients -
1` slots, with the count byte modulo `CountModulus` (256 in the code): writing
past the buffer, or sending a slot that was not written, is visible.

A client connects, asks (`SendList`, `SendJoin`), and reads the reply
(`RecvReply`); it may leave at any time, its host may vanish without a FIN, and
it meets a server that is gone at each step (`ConnectRefused`, `SendFails`,
`RecvNothing`). A reply that counts more addresses than `peer_buf` has room for
(`MaxPeers`, 10 in the code) overruns it (`RecvOverrun`), and nothing is said of
that client afterwards.

### Swarm

One tracker, taken as `Registry` describes it (`Refinement` below justifies
that step), with the list in registration order. `proc[n]` holds the locals of
`main()`; `slot` is `fds[1..]`, `out` how many of them start-up gave `events`,
`max` is `max_peer_index`, `pollout` the entries whose `revents` has POLLOUT.
`open` and `inbox` are the sockets: a `recv()` returns one or more of the
waiting messages, end of file, or a reset, and otherwise blocks, which is to say
that no action of that client is enabled. A process that ends closes its
sockets, with a reset where it left data unread.

Start-up is `RequestPeers`, `configure_socket`, then for each peer
`ConnectPeer` and one of `HandshakeReply`, `HandshakeRejected`,
`HandshakeLost`, or `ConnectRefused`, then `EnterLoop`. A pass of the loop is
`PollAccept` or `PollReady` and one `Serve...` step per slot: `ServeNoSocket`
(closed, or still the 0 of `memset`), `ServeEof`, `ServeEofWritable`,
`ServeReceive`, `ServeDies`.

Abstractions, each of them on the side of more behaviours:

- messages are `hs` (a handshake), `hsbf` (handshake and bitfield) and `pwp`
  (all others); what the flags make the loop send on a writable socket is left
  open (`PolloutBranch`: nothing, this slot, or the slot the reused `i` ends
  at) and is the subject of `PeerWire`;
- hosts in `MayDie` may end where the code depends on memory nobody set: the
  20th byte that `verify_handshake` compares, the descriptor `Send_piece` reads,
  the bitfield pointer of a connection that was never initialised;
- messages may arrive together; a message split in two is not modelled.

`fds` has the `MAX_PEERS` entries of the code (`Slots`), and nothing keeps a
client inside them: peers are limited by `MaxConnections` only (`torrent.c` 101
against 13-15 and 86), and every `accept()` increments `max_peer_index`. Where
start-up or a pass leaves the arrays the client is `"overrun"`: a client that was
told of more than `MaxPeers` others may also die at once (`NewClient`), one whose
pass left the arrays may come back to `poll()` (`OverrunPasses`) or hang there.
The listen queue of a client is not bounded (the code asks for 10 and the
instances have at most three connections to one client).
`client_socket_wrapper` is passed the address of a pointer and writes 16 bytes
over its 8 (`torrent.c` 120); the model takes the outcome in which the
connection is made.

### PeerWire

The complement of `Swarm`: one client after start-up, in full, and peers that
send any message at any time. `fds` says which connection is in which entry,
`conn` is `connections`: the set of status flags, `piece_to_send`, and the first
byte of the peer's bitfield as the set of its bits. Each branch on the received
data is an action (`RecvState` for the four state messages, `RecvHave`,
`RecvRequest`, ...), and so is each branch of the POLLOUT part (`Send_piece`,
`Send_unchoked`, ...), with `SendFails` and `RequestFails` where the client
exits or leaves its arrays. What the code does rather than means is kept:

- `Set_Flag(.., 0)` clears all flags, and `|= 0 << PEERCHOKE` none;
- start-up fills `connections[k - 1]` for the socket in `fds[k]`, ORs the
  defaults into memory nobody cleared, and stores the BITFIELD message with its
  header as the bitfield;
- an accepted socket takes over `fds[1]` with the state of the one before it;
- the search for a piece uses `i` for pieces and entries alike;
- nothing tests the index of the pass against `MAX_PEERS`: a pass that leaves the
  arrays is `"left"`, and the run goes no further;
- a second HAVE, a HAVE or BITFIELD through a pointer nobody set, and a PIECE
  whose hash is right end in `"undefined"`: nothing is claimed after that.

`asked` is a history variable for the properties. A connection
that was reset (`gone`) can no longer be sent to. Of a bitfield the first byte is
kept, so that a file has at most eight pieces.

### Metainfo

`_be_decode` is recursive; `stack` holds its activations and a step is what one
of them does up to its next call or return, so that `pos` and `data_len`, which
the activations share by pointer, can be compared at every step. The file lies
in a block of exactly its size and `Trailers` stand for what follows it: the
decoder does read there. Bytes are one-letter strings; an item that could not be
decoded is `Null`, a dictionary's loop tests the wrong word for it
(`TestedWord`), and an empty list or dictionary writes its terminator through a
null pointer (`EndOfEmpty`). `strtoll()` passes over blanks and a sign and stops
at the limits of a long long (`SignAt`, `DigitsAt`, `Clamp`).

`decodeFile` walks the entries of the tree (`FileEntry`) and of its info
dictionary (`InfoEntry`), one at a time. The lengths are cut to an int (`ToInt`),
and division truncates (`Quotient`). Taking a field that was not set, or a value
of another type, or dividing by 0, gives `Undefined`. The block for the
`bt_info_t` has 1000 bytes (`bencode.c` 327) and the structure more than 2000
(`bencode.h` 58-67), the first 1024 of which are `announce`: a long `announce` and
every field of the info dictionary are written behind the block. `StrayWrite` is
the outcome in which such a write destroys something that is used; `TakeInfo` the
one in which it happens not to. No property speaks of the fields, since none could
be relied on.

The reference is the format, stated about bytes: a file comes with its spans,
each of which says that a stretch of the file is the encoding of a node and where
the parts of that encoding begin. `Parsed` (`IsInt`, `IsString`, `IsContainer`)
says when such a reading is right, one level at a time, so that it takes no
recursion; bytes that are not bencoded have no spans, and a file of which only
the beginning is well formed has the spans of that. `Bencode` makes files and
their spans from trees; it holds the only recursive operators, and TLC checks
that what it makes is `Parsed` (`FilesAssumption`).

### ThreadedTracker

Clients are numbered in the order they are accepted, and handler `t` is the
thread created for client `t`. Every read or write of `clients`, `numClients` or
`args` is a step, `numClients++` two of them, and so are the three reads of
`numClients` for the size of a reply, its count byte and its length (`SendAlloc`,
`SendCount`, `SendLength`). `accept()` may fail, for want of descriptors or
otherwise, and ends the process with all its threads (`AcceptFails`). All
filled entries point to the one buffer of `inet_ntoa()`, which names the client accepted last (`buffer`).
`overlapped` is a history variable: two handlers were at work on the list at the
same time.

### Rooms, ChatTracker and Chat

`ChatTracker` has the main thread and `ping_output()` as two records of locals
(`thread`), and `ping_input()` as `marking`. A step is one walk over the list,
one `HASH_FIND`, or one critical section. The walks take no lock, and entries may
be freed while one lasts (they keep their room and their `next`). Walks of the
main thread are single steps all the same because only this thread adds entries:
while it walks, rooms only lose entries, one at a time, and all it keeps of the
walk is a count or a flag, which the table gives at some moment of it. The one
exception is the search for a free number, a walk per number: a number it passed
may become free behind it, so `CreateNumber` takes any free one of the first
`MAX_NUM_ROOMS`. A walk of the ping thread may mix several tables; all that depends
on it here is whether it sends a roster or overruns one, and both are among the
outcomes. `reply_to_ping` is a step of a running client: an answer that is under
way when its sender is killed appears only as the entry that `ping_input()` has
found already (`marking`).

`peers` is the list that runs
through the hash table, `heap` the contents of the blocks: a block that was freed
keeps its contents except for the key until it is handed out again, so that a
thread which still holds it goes on from there as the program would. Deleting an
entry a second time, or writing past an array, sets `undefined`, after which
nothing is claimed.

`Rooms` is the abstract specification: peers enter and leave rooms, one step at
a time and within the limits, until the service fails. `ChatTracker` implements
it (`ImplementsRooms`), with the table's contents as `member`.

`Chat` has what the tracker sends. `task` is what each of the two threads that
change rooms is at: a request of the main thread, or an eviction of the ping
thread. Finding the entry, changing the table, sending the reply, copying the
roster and sending it to one peer after another are steps of their own
(`FindEntry`, `AddEntry`, `DeleteEntry`, `SendReply`, `CopyRoom`, `SendRoster`,
`RosterSent`), and those of the other thread come between them in any order. So a
thread sends rosters that are out of date, and to peers that came after it copied
them. What the walks of the ping thread meet while the main thread adds and reuses
entries is left open: it sends what it may have read (`NoPeer` stands for addresses
of which nothing is known) to whomever it may meet (`Straying`), or the tracker is
done for (`Astray`: a freed entry, a list longer than its array, an entry deleted
twice). The walk that counts a room and the one that copies it are one step, whose
outcomes include a list that ends in unset memory because an entry was deleted
between them.

The packets of each client are a queue; whether they may overtake one another is
chosen at the start (`reorders`), and clients in `Faulty` may lose packets and be
started again. Sending a message changes nothing: `send_message` goes over
`peer_list` under the lock, so that to whom messages go is a question about
`peer_list`. Clients do not read each other's state, so that only those in `Client`
are modelled; the others are known to the tracker. `synced`, `met`, `unsureRoom`,
`unsureList` and `misled` are history variables: whether a client has taken a reply
since it started or lost a packet, whom it was ever in a room with, and whether the
two threads were at work at once on it, or anywhere, since it was last sent
something by a thread that had the table for itself.

## 3. The runs

Passing runs:

| Run | Instance | Shows |
|---|---|---|
| `tracker` | four connections from three addresses (one client comes back), three descriptors, queue of two, one host that may vanish, room for one address; 245,000 states | `ListWellFormed`, `ReplyExact`, `Discovery`, that `Tracker` implements `Registry`, and `ListServed`: whoever the server has accepted is answered |
| `swarm` | three clients, one of which may be started again, all may be killed or die, three entries of `fds`; 81,000 states | `NoCircularStart`; `RegisteredEarlier`: whom a client still has to greet registered before it; `HandshakeKept`; `SocketsKept`: every socket is made once and is in one place, also with the connections of an earlier run around; `HandshakeAnswered`: everyone gets out of start-up |
| `peer_wire` | three entries, two connections made and three accepted, one of which may be reset, eight pieces | `LeftOnlyWhenFull`: a pass leaves the arrays only once as many connections were accepted as there are entries, although the search for a piece moves its index; `PieceWasRequested`: what is sent on an entry was requested there, by this peer or by the one before it; `ConnectionsKept`, what the entries hold between two messages |
| `metainfo` | all 4,680 sequences of up to four bytes and 7,776 of five, 77 small trees, 432 torrents, one with two lengths, numbers that are blank or too large, files that go on after their tree, three trailers | `RoundTrip`, `Terminates`; `DecodingKept`: the activations follow the nesting of the file, and `decodeFile` walks dictionaries only |
| `threaded` | four connections, two descriptors, a list of two | `SerialSafe`: without a race no memory error; `HandlersKept`: a handler that reads its arguments late serves a later client, never an earlier one, and while no two handlers overlap, the counted entries are filled and the counter is the same at every read |
| `chat_tracker` | three peers, two rooms of two, three blocks; 350,000 states | `LimitsKept`, `OneEntryPerPeer`, `MainWalksAgree`, `JoinerOnRoster`; `RequestKept`: what a request found in one walk still holds when a later step acts on it; and that `ChatTracker` implements `Rooms` |
| `chat_tracker_liveness` | two peers that answer pings, one may be killed; 680,000 states | `KilledForgotten` |
| `chat_rooms` | three peers, one of them in full, two packets under way, four requests and evictions | `RoomAgreement`, `ListAgreement`, `OnlyToRoommates` |

`ListServed` has one excuse: the server stalled, or ended for lack of descriptors,
before it accepted this client. In the instance it runs out of descriptors for the
fourth connection, so that the excuse is there for one client and not for the three
that were accepted before; the mutant in which `sendClients` answers only when
there are others to tell of breaks it.

`RoomAgreement` and `ListAgreement` say when a client's view is the tracker's: no
packet is under way to it, and no thread still owes it a reply (`Owed`) or a roster
(`Due`). They do not hold after everything the two threads can do at once, and the
history variables say exactly where they do not. Its room is right whatever the
threads did at the same time for others; only if both were at work on the client
itself may their replies come in the wrong order (`unsureRoom`). Its list may be
wrong after any overlap: the main thread copies {q, p}, the ping thread evicts q
and sends {p}, and the main thread then sends its older roster (`unsureList`). The
ping thread copies {q, z}, q leaves and x joins, and x, who never met q, is sent
{q, z} (`misled`). Without these exceptions TLC finds these very schedules. The
first two end with the next reply, for the list also with the next roster, that a
thread sends which has the table for itself; who was misled may have got anybody's
address, and nothing more is claimed of whom it sends to.

Runs that TLC must find violated, because the code and a statement about it
disagree (the quotes are under `findings`):

| Run | What happens |
|---|---|
| `swarm_fourth` | with four clients and no failure, one waits for its handshake for ever: the second client has answered one handshake, its first slot is writable, so the next pass blocks in `recv()` on that peer, the fourth, which itself waits for the third, which waits for the second |
| `peer_piece` | a peer asks for a piece, another one is accepted into its entry, and the piece goes to the other one |
| `peer_unchoke` | a peer is interested and choked, is sent UNCHOKE, and is still choked: `Send_unchoked` ORs in a zero. It is sent UNCHOKE in every pass, and served only once another message (UNCHOKE or UNINTERESTED of its own, or end of file) happens to clear all its flags |
| `peer_request` | the loop finds that the peer of entry `i` has a piece it lacks, and sends the request to the entry at which the search, which reuses `i`, stops; as the search looks for piece k in the bitfield of entry k, the first piece of a file is asked of the listener's entry: the send fails and the client exits (`RequestFails`) |

More disagreements that the models show and that have no run of their own:

- `joinTracker()` waits for an answer the server never sends (`tracker_serv.c`
  68 has a branch for `list` only; see `ServeOther`);
- with more than `MAX_PEERS` other clients a client overruns `peer_buf`, `peers`,
  and at start-up `fds` (`Tracker.RecvOverrun`, `Swarm.NewClient`), since the clamp
  at `torrent.c` 101 comes later and uses `MAX_CONNECTIONS`; and once `MAX_PEERS`
  connections were accepted the pass leaves `fds`;
- with 256 other clients the count byte of a reply is 0 (`Discovery` therefore
  assumes `CountFits`);
- the server closes no socket and so ends for lack of descriptors
  (`AcceptFails`), although `tracker_serv.c` 45 says it waits repeatedly;
- a client registers before it listens, against `protocol.md` 47; one that is
  told about it in between is refused and exits (`Swarm.ConnectRefused`);
- two clients that are both started again may wait for each other's handshake
  for ever, since each is now told about the other;
- a client sends on descriptor -1 after its peer left, and exits
  (`Swarm.ServeEofWritable`, `PeerWire.SendFails`);
- `decodeFile` writes every field of the info dictionary behind the block it
  allocates (`bencode.c` 327, `Metainfo.StrayWrite`);
- files with an empty list or dictionary cannot be read (`Metainfo.EndOfEmpty`),
  and neither can torrents whose `piece length` comes before `length`; a length
  that does not fit an int wraps, a negative one is taken, and a second `length`
  after the `piece length` is not noticed;
- in the threaded tracker every entry of the list points to the one buffer of
  `inet_ntoa()` (`tracker2.c` 66 and 117), so that a client is told the address of
  the last client that came, as often as there are entries, although `tracker2.c`
  111-114 says that the list of joined addresses is available to any client;
- the chat tracker deletes an entry twice when a peer leaves while it is evicted
  (`"deleted twice"`), and its ping thread overruns the roster when a peer joins
  between its walks (`"output roster"`); `room_list` looks up index -1;
- a chat client's list may stay wrong, and its messages go to a client it was never
  in a room with, after the tracker's two threads were at work at once (see above).

Bounds. `CountModulus` is 3 with three addresses, the largest list it can count,
so that an error of one would show; with room for one address the third client
overruns its buffer. Three clients are the smallest number for which one waits for
a client that waits for another; one start more than there are clients lets
connections of a dead run meet a live one, and with three entries the third accept
of a client, which takes a restart, leaves `fds`. The overrun of the start-up loop
takes as many peers as there are entries and is not reached with three clients; the
theorems cover it. Four clients are the smallest number for which a client that
connected to someone itself (and so polls for POLLOUT) has two others to answer
(`swarm_fourth`). `MCSwarm` lets hosts register for the first time in one order:
hosts differ in nothing else, and, unlike a SYMMETRY set, this is sound for liveness
too. In `MCPeerWire` the entries 1 and 2 are one that start-up prepared and one it
did not, entry 1 is taken over three times, so that the pass leaves the arrays, and
eight pieces are more than there are entries, so that the search for a piece can
leave them. Five bytes are enough
for a dictionary within a list, or a string cut short within a dictionary; in
`MCMetainfo` an int ends at 7 and a long long at 99, so that a length of 9 wraps
and 999 is cut off. Four
connections are two more than the list has entries, and two descriptors are fewer
than connections, so that they are used again. In `MCChatTracker` three peers
can fill a room and contend for the last place, and there is a block for each of
them. In `MCChat` two
packets are a reply and a roster, or two rosters that cross; four requests and
evictions are enough for a client to be in a room with another, for that one to
leave or be evicted while a third joins, and for what comes after to repair what
they spoilt. The theorems hold for any number of them.

Views and symmetry. `MCPeerWire`, `MCThreadedTracker` and `MCChatTracker` state what a later step or
a property can depend on, and TLC identifies states that agree on it; peers and
blocks of the chat tracker are symmetric, and so are the peers of `MCChat` that are
not clients. Neither is used for a liveness
property.

`CHECK_DEADLOCK FALSE` everywhere: the systems may stop, since clients finish or
block, a decoder ends, and nobody has to start another.

Fairness. The server's loop and a running client are processes: they take their
next step if a blocking call lets them (weak fairness of `ServerStep` and of
each client's steps). `Connect` is fair because the kernel retries it. The
decoder is one thread (`WF_vars(Next)`). The three threads of the chat tracker
are scheduled independently: each has weak fairness of its own, `PongMark`
included since it waits for a lock that is always released. Nobody has to start
a client, to kill one, to send a request, to answer a ping, or to read from a
client that vanished. `KilledForgotten` is about times after which no request
comes: a main thread that adds entries for ever keeps the ping thread's walk
from ending.

## 4. The proofs

TLAPS checks every proof to its last leaf, for every value of the constants that
the assumptions of the module allow; TLC evaluates these assumptions in each run
and has checked each inductive invariant, or each of its parts, as an invariant
of a run. They say that the sets of hosts, peers, connections and blocks are
finite, that the bounds are natural numbers and, where the code declares an array
by them, positive, and that the values that stand for nobody are not hosts or
blocks. `PeerWire` also assumes `Dialled < MaxPeers` (above it start-up itself
overruns the arrays, see section 2) and at most eight pieces. `Metainfo` assumes
of its files that their spans are right (`Parsed`; a file without any is allowed)
and that a long long can count their bytes, and of the keys that they differ.

Each module has one inductive invariant: a conjunction of the properties of its
runs and, in `Tracker` and `Chat`, of what else the threads or the loop rely on
between steps. TLC has checked those parts too.

| Module | Inductive invariant | Proved from it |
|---|---|---|
| `TrackerProofs` | `IInv` | `TypeCorrect`, `ListCorrect`, `RepliesExact`, `DiscoveryHolds`, `Refinement` of `Registry` |
| `PeerWireProofs` | `WireInv` | `WireTypes`, `PassStaysInside`, `EntriesKept`, `PiecesWereRequested` |
| `ThreadedTrackerProofs` | `ThreadedInv` | `ThreadedTypes`, `OnlyRacesCorrupt`, `HandlersUndisturbed` |
| `ChatProofs` | `IInv` | `ChatTypes`, `RoomsAgree`, `ListsAgree`, `RoommatesOnly` |
| `ChatTrackerProofs` | `TrackerInv` | `TableTypes`, `RoomLimits`, `EntriesUnique`, `WalksAgree`, `JoinersListed`, `RequestsUndisturbed`, `TrackerImplementsRooms` |
| `SwarmProofs` | `SwarmInv` | `SwarmTypes`, `SocketsUndisturbed`, `EarlierOnly`, `HandshakesKept`, `NoCircle` |
| `MetainfoProofs` | `MetainfoInv` | `MetainfoTypes`, `DecoderReadsFormat`, `DecodingIsKept` |

**Tracker.** `ReplyExact` alone is not inductive: it needs that the requester is
in the list exactly once (`ListWellFormed`), and `Discovery` needs that whoever
was answered is still in the list (`AnsweredRegistered`), that a connection is
answered at most once (`ConnectionsInPlace`), and the same statement about
replies rather than clients (`ReplyDiscovery`, `PeersFromReply`). The lemmas
`RegisterProperties` (registering keeps the list free of duplicates),
`ListBounded` (such a list is no longer than there are addresses), `SlotOfNode`,
`ReplyFillsBuffer`, `ReplyNamesOthers` and `ServeListEffect` carry the weight.
`Discovery` and `Refinement` assume `CountFits`: with more addresses than the
count byte counts, both are false.

**PeerWire.** `PieceWasRequested` speaks of the message that was just sent;
`ConnectionsKept` is what it comes from: the piece a prepared entry is to send was
asked for on that entry by a connection no later than the one that has it. It
survives `accept()` because a new connection's number is larger than that of every
request so far. `SendRequestKeepsInv` follows the reused index: the search for a
piece either leaves the arrays, which ends the run in `"undefined"`, or ends at an
entry of them, and the pass goes on from there, up to `max_peer_index`; so it is the
number of accepted connections alone that takes it out of the arrays.

**ThreadedTracker.** `SerialSafe` is about the one handler inside `addClient()`
or `sendClients()`. `HandlersKept` adds what it found: the counted entries are
filled, `numClients` is what it was when the handler read it, and a reply has room
for the entries it has yet to copy. `LocalStep` reduces the steps that touch the
handler's locals only to these locals. The attempt to prove the type invariant
showed that it claimed a bound on `numClients` that does not hold: a handler that
writes back an old value lets the others add again, while one that read a large
value has yet to write it. The instance of the run is too small to show this. The
bound is now where it belongs, in `HandlersKept`, for as long as no two handlers
overlap.

**Chat.** `RoomAgreement` and `ListAgreement` are about an empty queue, and taking a
packet from a queue of several must preserve them, so `RoomsInOrder` and
`ListsInOrder` say what the packets under way amount to: the last reply has the
tracker's room, the last packet its roster, and a client for which none is left has
them already. They hold while no thread owes the client a packet, so the rest of the
invariant (`ThreadsKept`) is what a thread between two unlocked steps knows:
`TaskAlone`, that a thread which has the table for itself sends what is in it, and
`TaskTrusted`, that a reply is still true when it is sent if no other thread is at
work on the same client, however many others were moved meanwhile. That is why
`RoomAgreement` survives overlaps that `ListAgreement` does not. `RoommatesOnly`
needs no order of packets, only that every list in a packet or a client that was
not misled names peers the client has met (`AllMet`).

**ChatTracker.** `RequestKept` is the core: between the walks of a request,
which take no lock, other threads only ever remove entries, so a free number
stays free, a room that was not full does not fill up, and a peer that was absent
stays absent. The `Smaller...` lemmas state that removing an entry preserves each
part, `LargerTable` that adding the one which `RequestKept` describes does, and
`ListRemoved` what removing does to the list and so to lookups. For the
refinement, `QuietSteps` shows that every step that neither adds nor deletes
leaves all rooms as they are, `DeleteRefines` that a deletion is `Leave`, or for
an entry that is gone already the failure of the service, and `AddRefines` that
adding is `Enter`, whether the peer had an entry (`JoinReplace`) or not.

**Swarm.** `SocketsKept` has three parts. `LocalsKept` ties the locals of `main()`
to the place it is at. `DescriptorsKept` says that a socket is in one place only:
each is made once (`Made`), and an accepted one is in `fds[1]` or in the listen
queue. `HandshakePending` is the fact behind `HandshakeKept`: an unanswered handshake lies with its
connection in the queue or in the entry that is being served. An accepted socket
replaces the one in `fds[1]`, and it is served in that very pass, before the next
`accept()`; that is why none is ever replaced unanswered. `OwnStep` and
`OthersStillPending` split each step into what it does to its own client and to
those who wait for it. `NoCircle` is about the time until some client is started
for the second time (`StartedOnce`): until then a client waits only for clients
that registered before it (`RegisteredEarlier`), so that the one of a circle that
registered first could not wait for another one. With restarts
the statement is false, as section 3 says; every other theorem covers restarts.

**Metainfo.** That a recursive decoder returns the tree that was encoded is
usually shown by induction over the tree, which is out of the provers' reach. The
spans take its place: `SpansFollowed` says that the stack of activations is a
chain of spans, each the next item of the one below, with the items before it
already collected, and that the decoder stands where the next span begins or the
last one ended. One step moves along this chain: a leaf is read to its end
(`IntSpan`, `StringSpan`, `LeafFollowed`), a list or dictionary is entered
(`OpenFollowed`), the next item begins where the last one ended (`ItemFollowed`),
the word that the loop tests is never NULL, although it is the wrong one
(`DoneFollowed`), and the closing byte is met exactly when all items have been
read (`EndFollowed`), since no item begins with it (`SpanStart`). The number that
digits stand for is defined by recursion on their positions; `Recursion` and
`ValueNat` show that it exists and is a number, from the least position at which
it would not (`LeastNumber`). For files without spans `TypeOK` and the fields are
all there is to show: there the decoder may read on behind the file, and pos and
data_len still agree.

`FieldsKept` and `NodesKept` are what `decodeFile` needs to be read at all: that its
walks are over dictionaries, and that the integers of the tree, two dictionaries
deep, are numbers.

Only model-checked: liveness (`ListServed`, `HandshakeAnswered`,
`KilledForgotten`, `Terminates`), which the provers do not handle, and that the
trees of `Bencode` have the spans it gives them, which takes induction over data.
Every invariant, action property and refinement of the passing runs is a theorem.

## 5. Not modelled

- `encode.c`: `encodeInt()` and `infoDict()` return the address of a local array,
  so that what is written is undefined from the first number on.
- `torrent_main.c` and `torrent_client.c`: earlier drafts that no rule builds and
  that do not compile (undeclared names, merge markers), and the copies under
  `torrent_encoding_decoding/`.
- `examples/tracker/tracker.c` and its client: a draft with undeclared names.
- The examples for sending a file, hashing and cutting up a file; the unit tests;
  the images.
- Printing, dumping and debug helpers (`be_dump`, `print_bits`, ...), `be_free`,
  which is never called, and the parsing of command lines and addresses.
- The buckets and hash functions of `uthash.h`: the program sees the table
  through its list and through lookups of keys, and that is what is modelled.
- The contents of the shared file: no descriptor for it is ever stored
  (`file_constructor.c` 53 assigns the local parameter), so that no piece is read
  or written through one that is right.
- Messages and replies that TCP delivers in parts.
