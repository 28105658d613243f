------------------------------- MODULE Swarm -------------------------------
(***************************************************************************)
(* The torrent clients (src/src/torrent.c) of one swarm: how each of them  *)
(* registers, connects to the peers it was told about, and then serves its *)
(* own listener and sockets in the poll() loop.                            *)
(*                                                                         *)
(* The tracker is the one of Registry: a client registers and learns the   *)
(* earlier members, in list order, in one step.  Sockets are kept at the   *)
(* level of send() and recv(): a recv() returns one or more of the         *)
(* messages that wait, end of file, or a reset, and blocks otherwise.  The *)
(* status flags that decide what the loop sends on a writable socket are   *)
(* left open here: it may send any message, or none.                       *)
(***************************************************************************)
EXTENDS Integers, FiniteSets, Sequences, SequencesExt

CONSTANTS
    Node,            \* hosts; each runs one client at a time, on one port
    MaxRuns,         \* times a host's client is started (a bound)
    MayCrash,        \* hosts whose client may be killed
    MayDie,          \* hosts where undefined behaviour may end the client
    MaxConnections,  \* MAX_CONNECTIONS
    MaxPeers,        \* MAX_PEERS: entries of fds, the listener's included
    Stdin, Closed    \* the descriptors 0 and -1 in fds

ASSUME NodeAssumption == IsFiniteSet(Node) /\ MayCrash \subseteq Node /\ MayDie \subseteq Node
ASSUME BoundsAssumption ==
    /\ MaxRuns \in Nat \ {0} /\ MaxConnections \in Nat \ {0}
    /\ MaxPeers \in Nat /\ MaxPeers > 1

\* A connection: who made it, in which of its runs, and to whom.
ConnId == {c \in Node \X (1..MaxRuns) \X Node : c[1] # c[3]}

ASSUME SlotAssumption == Stdin \notin ConnId /\ Closed \notin ConnId

\* The entries of fds for peers.
Slots == 1..(MaxPeers - 1)

Other(c, n) == IF c[1] = n THEN c[3] ELSE c[1]

VARIABLES
    members,  \* the tracker's list
    run,      \* how often each host's client was started
    proc,     \* the local variables of each client's main()
    queue,    \* connections in the listen queue of each client
    open,     \* the connections each host has an open end of
    inbox     \* what has arrived and was not read, per host and connection

vars == <<members, run, proc, queue, open, inbox>>

\* The locals of main() that matter: where it is, the peers still to connect
\* to, fds[1..], how many entries of fds had their events set, max_peer_index,
\* the loop's i, and the entries whose revents has POLLOUT.
FreshProc ==
    [pc |-> "off", todo |-> << >>, slot |-> [j \in Slots |-> Stdin], out |-> 0,
     max |-> 0, i |-> 0, pollout |-> {}]

EmptyBox == [c \in ConnId |-> << >>]

Goto(n, pc) == proc' = [proc EXCEPT ![n].pc = pc]

Listening(n) == proc[n].pc \in {"connecting", "waiting", "poll", "serving", "overrun"}

\* send() on n's end of c: lost if the other end is closed.
Deliver(box, n, c, msg) ==
    IF c \in open[Other(c, n)]
    THEN [box EXCEPT ![Other(c, n)][c] = Append(@, msg)]
    ELSE box

\* What n's recv() on c may return: some of the messages that wait, in order.
Chunks(n, c) ==
    {k \in 1..Len(inbox[n][c]) :
        inbox[n][c][1] # "hup" /\ (k = 1 \/ \A j \in 1..k : inbox[n][c][j] # "rst")}

Received(n, c, k) == SubSeq(inbox[n][c], 1, k)

\* A reset is reported by one recv(); what is left is a hung-up socket.
Read(n, c, k) ==
    [inbox EXCEPT ![n][c] = IF @[1] = "rst" THEN <<"hup">> ELSE SubSeq(@, k + 1, Len(@))]

AtEof(n, c) ==
    \/ inbox[n][c] = <<"hup">>
    \/ inbox[n][c] = << >> /\ c \notin open[Other(c, n)]

\* The process ends: its sockets close, with a reset where data was unread.
Exit(n) ==
    /\ proc' = [proc EXCEPT ![n] = [FreshProc EXCEPT !.pc = "exited"]]
    /\ queue' = [queue EXCEPT ![n] = << >>]
    /\ open' = [open EXCEPT ![n] = {}]
    /\ inbox' = [m \in Node |->
                    IF m = n THEN EmptyBox
                    ELSE [c \in ConnId |->
                             IF /\ c \in open[m] /\ c \in open[n]
                                /\ inbox[n][c] # << >>
                             THEN Append(inbox[m][c], "rst")
                             ELSE inbox[m][c]]]
    /\ UNCHANGED <<members, run>>

(***************************************************************************)
(* Start-up.                                                               *)
(***************************************************************************)
\* The peers in the tracker's answer, which leaves out the host that asks (the
\* list has it once at most), up to the limit.
PeersToConnectTo(n) ==
    LET others == RemoveFirst(members, n)
    IN  SubSeq(others, 1, IF Len(others) > MaxConnections - 1
                          THEN MaxConnections - 1 ELSE Len(others))

\* main() as it starts.  More peers than MAX_PEERS do not fit its arrays: it goes on,
\* or what it has overwritten ends it.
NewClient(n) ==
    {[FreshProc EXCEPT !.pc = "registered", !.todo = PeersToConnectTo(n)]} \cup
    {p \in {[FreshProc EXCEPT !.pc = "exited"]} : Len(RemoveFirst(members, n)) > MaxPeers}

\* requestPeers(): the tracker registers the host and answers with the others.
RequestPeers(n) ==
    /\ proc[n].pc \in {"off", "exited"}
    /\ run[n] < MaxRuns
    /\ run' = [run EXCEPT ![n] = @ + 1]
    /\ members' = IF \E j \in DOMAIN members : members[j] = n
                  THEN members ELSE Append(members, n)
    /\ \E p \in NewClient(n) : proc' = [proc EXCEPT ![n] = p]
    /\ UNCHANGED <<queue, open, inbox>>

\* Mutant: the peer list is taken when the port is open, not at registration.
configure_socketAsksAgain(n) ==
    /\ proc[n].pc = "registered"
    /\ proc' = [proc EXCEPT ![n].pc = "connecting", ![n].todo = PeersToConnectTo(n)]
    /\ UNCHANGED <<members, run, queue, open, inbox>>

\* configure_socket(): only now can others connect.
configure_socket(n) ==
    /\ proc[n].pc = "registered"
    /\ Goto(n, "connecting")
    /\ UNCHANGED <<members, run, queue, open, inbox>>

\* The socket client_socket_wrapper() makes for peer m.
client_socket(n, m) == <<n, run[n], m>>

\* The socket goes to entry j of fds, the handshake to the peer.
Greet(n, m, c, j) ==
    /\ queue' = [queue EXCEPT ![m] = Append(@, c)]
    /\ open' = [open EXCEPT ![n] = @ \cup {c}, ![m] = @ \cup {c}]
    /\ inbox' = [inbox EXCEPT ![m][c] = <<"hs">>]
    /\ proc' = [proc EXCEPT ![n].slot[j] = c, ![n].out = j, ![n].pc = "waiting"]

\* One turn of the loop over the peers, up to its blocking recv().  With MAX_PEERS
\* peers the last one is put behind fds.
ConnectPeer(n) ==
    /\ proc[n].pc = "connecting"
    /\ proc[n].todo # << >>
    /\ Listening(Head(proc[n].todo))
    /\ IF proc[n].out + 1 \in Slots
       THEN Greet(n, Head(proc[n].todo), client_socket(n, Head(proc[n].todo)), proc[n].out + 1)
       ELSE Goto(n, "overrun") /\ UNCHANGED <<queue, open, inbox>>
    /\ UNCHANGED <<members, run>>

\* connect() fails: nobody listens there.  The client exits.
ConnectRefused(n) ==
    /\ proc[n].pc = "connecting"
    /\ proc[n].todo # << >>
    /\ ~Listening(Head(proc[n].todo))
    /\ Exit(n)

Awaited(n) == client_socket(n, Head(proc[n].todo))

\* The blocking recv() of the handshake returns.  Exactly a handshake and a
\* bitfield: send INTERESTED.  Anything longer is ignored.
HandshakeReply(n) ==
    /\ proc[n].pc = "waiting"
    /\ \E k \in Chunks(n, Awaited(n)) :
          /\ Received(n, Awaited(n), k)[1] # "rst"
          /\ inbox' = LET box == Read(n, Awaited(n), k)
                      IN  IF Received(n, Awaited(n), k) = <<"hsbf">>
                          THEN Deliver(box, n, Awaited(n), "pwp") ELSE box
    /\ proc' = [proc EXCEPT ![n].pc = "connecting", ![n].todo = Tail(@)]
    /\ UNCHANGED <<members, run, queue, open>>

\* verify_handshake() compares a byte it never set, or INTERESTED meets a socket
\* that was reset: the client ends.
HandshakeRejected(n) ==
    /\ n \in MayDie
    /\ proc[n].pc = "waiting"
    /\ inbox[n][Awaited(n)] # << >>
    /\ inbox[n][Awaited(n)][1] = "hsbf"
    /\ Exit(n)

\* The peer closed or reset the connection instead: the client exits.
HandshakeLost(n) ==
    /\ proc[n].pc = "waiting"
    /\ AtEof(n, Awaited(n)) \/ (inbox[n][Awaited(n)] # << >> /\ inbox[n][Awaited(n)][1] = "rst")
    /\ Exit(n)

\* All peers are done: the main loop begins.
EnterLoop(n) ==
    /\ proc[n].pc = "connecting"
    /\ proc[n].todo = << >>
    /\ Goto(n, "poll")
    /\ UNCHANGED <<members, run, queue, open, inbox>>

(***************************************************************************)
(* The poll() loop.                                                        *)
(***************************************************************************)
\* The entries poll() reports as writable: those start-up set events for.
Writable(n) == {j \in 1..proc[n].out : proc[n].slot[j] \in ConnId}

\* poll() reports an entry without events only when it was reset, and from then
\* on as hung up.
Reset(n) ==
    {j \in Slots : /\ proc[n].slot[j] \in ConnId
                   /\ inbox[n][proc[n].slot[j]] # << >>
                   /\ inbox[n][proc[n].slot[j]][1] \in {"rst", "hup"}}

\* Mutant: the loop goes back to poll() after an accept().
PollAcceptContinues(n) ==
    /\ proc[n].pc = "poll"
    /\ queue[n] # << >>
    /\ queue' = [queue EXCEPT ![n] = Tail(@)]
    /\ proc' = [proc EXCEPT ![n] = [@ EXCEPT !.slot[1] = Head(queue[n]), !.max = @ + 1]]
    /\ UNCHANGED <<members, run, open, inbox>>

\* poll() returns with a connection to accept.  It always goes to fds[1],
\* whatever was there, and revents stays what poll() said of the old socket.
PollAccept(n) ==
    /\ proc[n].pc = "poll"
    /\ queue[n] # << >>
    /\ queue' = [queue EXCEPT ![n] = Tail(@)]
    /\ proc' = [proc EXCEPT ![n] = [@ EXCEPT
                  !.pc = "serving", !.i = 1, !.pollout = Writable(n),
                  !.slot[1] = Head(queue[n]), !.max = proc[n].max + 1]]
    /\ UNCHANGED <<members, run, open, inbox>>

\* poll() returns for another entry, and the loop over the entries begins.
PollReady(n) ==
    /\ proc[n].pc = "poll"
    /\ queue[n] = << >>
    /\ proc[n].max > 0
    /\ Writable(n) \cup Reset(n) # {}
    /\ proc' = [proc EXCEPT ![n] = [@ EXCEPT
                  !.pc = "serving", !.i = 1, !.pollout = Writable(n)]]
    /\ UNCHANGED <<members, run, queue, open, inbox>>

\* Mutant: the loop's bound is one too high.
ContinueAtOneMore(p, i) ==
    IF i \in Slots /\ i <= p.max + 1 THEN [p EXCEPT !.i = i]
    ELSE [p EXCEPT !.pc = IF i > p.max + 1 THEN "poll" ELSE "overrun", !.i = 0, !.pollout = {}]

\* The loop goes on at entry i, or back to poll().  It runs to max_peer_index, which
\* counts the connections accepted, and so past the end of fds.
ContinueAt(p, i) ==
    IF i \in Slots /\ i <= p.max THEN [p EXCEPT !.i = i]
    ELSE [p EXCEPT !.pc = IF i > p.max THEN "poll" ELSE "overrun", !.i = 0, !.pollout = {}]

\* What stands behind fds is no descriptor in use, and the pass ends.  It may as well
\* never end, or end the client (see ServeDies).
OverrunPasses(n) ==
    /\ proc[n].pc = "overrun" /\ proc[n].todo = << >>
    /\ Goto(n, "poll")
    /\ UNCHANGED <<members, run, queue, open, inbox>>

Current(n) == proc[n].slot[proc[n].i]

\* A closed entry is skipped; recv() on standard input is an error.
ServeNoSocket(n) ==
    /\ proc[n].pc = "serving"
    /\ Current(n) \in {Stdin, Closed}
    /\ proc' = [proc EXCEPT ![n] = ContinueAt(@, @.i + 1)]
    /\ UNCHANGED <<members, run, queue, open, inbox>>

\* Mutant: the descriptor of a closed socket stays in fds.
ServeEofKeepsFd(n) ==
    /\ proc[n].pc = "serving"
    /\ Current(n) \in ConnId
    /\ AtEof(n, Current(n))
    /\ proc[n].i \notin proc[n].pollout
    /\ open' = [open EXCEPT ![n] = @ \ {Current(n)}]
    /\ proc' = [proc EXCEPT ![n] = ContinueAt(@, @.i + 1)]
    /\ inbox' = [inbox EXCEPT ![n][Current(n)] = << >>]
    /\ UNCHANGED <<members, run, queue>>

\* recv() returns 0: the socket is closed and its flags are cleared.
ServeEof(n) ==
    /\ proc[n].pc = "serving"
    /\ Current(n) \in ConnId
    /\ AtEof(n, Current(n))
    /\ proc[n].i \notin proc[n].pollout
    /\ open' = [open EXCEPT ![n] = @ \ {Current(n)}]
    /\ proc' = [proc EXCEPT ![n] =
                    ContinueAt([@ EXCEPT !.slot[proc[n].i] = Closed], proc[n].i + 1)]
    /\ inbox' = [inbox EXCEPT ![n][Current(n)] = << >>]
    /\ UNCHANGED <<members, run, queue>>

\* The same, with POLLOUT in the entry's revents: with its flags cleared the
\* loop sends INTERESTED or UNINTERESTED on descriptor -1, and exits.
ServeEofWritable(n) ==
    /\ proc[n].pc = "serving"
    /\ Current(n) \in ConnId
    /\ AtEof(n, Current(n))
    /\ proc[n].i \in proc[n].pollout
    /\ Exit(n)

\* What the POLLOUT branch may do, given the inboxes after the receive: nothing,
\* send on this entry, or send a REQUEST on the entry its own use of i ends at,
\* where the outer loop then goes on.  It does nothing without POLLOUT.
PolloutBranch(n, box) ==
    {[box |-> box, i |-> proc[n].i]} \cup
    IF proc[n].i \notin proc[n].pollout THEN {}
    ELSE {[box |-> Deliver(box, n, proc[n].slot[j], "pwp"), i |-> j] :
             j \in {j \in Slots : proc[n].slot[j] \in ConnId}}

\* recv() returns something else: a handshake is answered with a handshake and a
\* bitfield; of other messages the first one is handled.
ServeReceive(n) ==
    /\ proc[n].pc = "serving"
    /\ Current(n) \in ConnId
    /\ \E k \in Chunks(n, Current(n)) :
          LET got == Received(n, Current(n), k)
              box == Read(n, Current(n), k)
          IN  \E r \in PolloutBranch(n, IF got = <<"hs">>
                                         THEN Deliver(box, n, Current(n), "hsbf")
                                         ELSE box) :
                  /\ inbox' = r.box
                  /\ proc' = [proc EXCEPT ![n] = ContinueAt(@, r.i + 1)]
    /\ UNCHANGED <<members, run, queue, open>>

\* The client dies over what it received: verify_handshake() compares a byte it
\* never set, or the POLLOUT branch sends on a reset socket or on the listener,
\* reads a piece of an empty file, or uses an uninitialised bitfield; or it has left
\* its arrays.
ServeDies(n) ==
    /\ n \in MayDie
    /\ proc[n].pc = "serving" =>
          /\ Current(n) \in ConnId
          /\ inbox[n][Current(n)] # << >>
          /\ inbox[n][Current(n)][1] = "hs" \/ proc[n].i \in proc[n].pollout
    /\ proc[n].pc \in {"serving", "overrun"}
    /\ Exit(n)

\* The client is killed.
Crash(n) ==
    /\ n \in MayCrash
    /\ proc[n].pc \notin {"off", "exited"}
    /\ Exit(n)

(***************************************************************************)
(* The specification.                                                      *)
(***************************************************************************)
Init ==
    /\ members = << >>
    /\ run = [n \in Node |-> 0]
    /\ proc = [n \in Node |-> FreshProc]
    /\ queue = [n \in Node |-> << >>]
    /\ open = [n \in Node |-> {}]
    /\ inbox = [n \in Node |-> EmptyBox]

\* The steps of a client that is running.
ClientStep(n) ==
    \/ configure_socket(n) \/ ConnectPeer(n) \/ ConnectRefused(n)
    \/ HandshakeReply(n) \/ HandshakeRejected(n) \/ HandshakeLost(n) \/ EnterLoop(n)
    \/ PollAccept(n) \/ PollReady(n)
    \/ ServeNoSocket(n) \/ ServeEof(n) \/ ServeEofWritable(n)
    \/ ServeReceive(n) \/ ServeDies(n)

Next == \E n \in Node : RequestPeers(n) \/ ClientStep(n) \/ OverrunPasses(n) \/ Crash(n)

Safety == Init /\ [][Next]_vars

\* A client that is running takes its next step unless it is blocked; nobody
\* has to start a client or to kill one, and one that has left its arrays may hang.
Spec == Safety /\ \A n \in Node : WF_vars(ClientStep(n))

(***************************************************************************)
(* Properties.                                                             *)
(***************************************************************************)
Locals ==
    [pc : {"off", "registered", "connecting", "waiting", "poll", "serving", "overrun", "exited"},
     todo : Seq(Node), slot : [Slots -> ConnId \cup {Stdin, Closed}], out : {0} \cup Slots,
     max : Nat, i : {0} \cup Slots, pollout : SUBSET Slots]

\* The states are well formed, and a socket in fds or in the listen queue is open.
TypeOK ==
    /\ members \in Seq(Node)
    /\ run \in [Node -> 0..MaxRuns]
    /\ proc \in [Node -> Locals]
    /\ queue \in [Node -> Seq(ConnId)]
    /\ open \in [Node -> SUBSET ConnId]
    /\ inbox \in [Node -> [ConnId -> Seq({"hs", "hsbf", "pwp", "rst", "hup"})]]
    /\ \A n \in Node :
          /\ \A j \in Slots : proc[n].slot[j] \in open[n] \cup {Stdin, Closed}
          /\ \A j \in DOMAIN queue[n] : queue[n][j] \in open[n]

Waiting == {n \in Node : proc[n].pc = "waiting"}
StartedOnce == \A n \in Node : run[n] <= 1

\* As long as no client is started again, clients that start up never wait for each
\* other in a circle: in any set of clients blocked in the start-up recv(), one waits
\* for a client outside it.
NoCircularStart ==
    StartedOnce => \A S \in SUBSET Waiting : S # {} => \E n \in S : Head(proc[n].todo) \notin S

\* A handshake is never forgotten: while a client waits for the answer to it,
\* the connection is in the peer's listen queue, is the one the peer serves
\* next, or has been answered or closed.
HandshakeKept ==
    \A n \in Waiting :
        LET c == Awaited(n)
            m == Head(proc[n].todo)
        IN  \/ \E j \in DOMAIN queue[m] : queue[m][j] = c
            \/ proc[m].pc = "serving" /\ Current(m) = c
            \/ inbox[n][c] # << >>
            \/ c \notin open[m]

\* The peers n has yet to connect to, and the connections that have been made or
\* that nobody will make any more.
ToGreet(n) ==
    {proc[n].todo[j] : j \in (IF proc[n].pc = "waiting" THEN 2 ELSE 1)..Len(proc[n].todo)}
Made(c) ==
    \/ c[2] < run[c[1]]
    \/ c[2] = run[c[1]] /\ c[3] \notin ToGreet(c[1])
\* The locals of main() fit where it is: nothing is open before the listener is, a
\* peer is greeted once, a pass over fds stays within max_peer_index, and goes past
\* the end of fds only where as many connections were accepted as it has entries.
LocalsKept(n) ==
    /\ proc[n].pc = "off" <=> run[n] = 0
    /\ proc[n].pc \in {"off", "registered", "exited"} =>
          /\ proc[n].slot = FreshProc.slot /\ proc[n].out = 0 /\ proc[n].max = 0
          /\ open[n] = {} /\ queue[n] = << >>
    /\ proc[n].pc \in {"off", "poll", "serving", "exited"} => proc[n].todo = << >>
    /\ proc[n].pc = "waiting" => proc[n].todo # << >>
    /\ proc[n].pc = "serving" => proc[n].i \in 1..proc[n].max
    /\ proc[n].pc = "overrun" => proc[n].max >= MaxPeers \/ proc[n].todo # << >>
    /\ \A j, k \in DOMAIN proc[n].todo :
          proc[n].todo[j] # n /\ (proc[n].todo[j] = proc[n].todo[k] => j = k)

\* A socket is in one place: an entry of fds or the listen queue.  One that n made is
\* of its present run, in an entry that start-up filled; an accepted one is in fds[1].
DescriptorsKept(n) ==
    /\ \A c \in open[n] : Made(c) /\ (c[3] = n \/ (c[1] = n /\ c[2] = run[n]))
    /\ \A j \in Slots : proc[n].slot[j] \in ConnId =>
          \/ proc[n].slot[j][1] = n /\ j <= proc[n].out
          \/ proc[n].slot[j][3] = n /\ j = 1 /\ proc[n].slot[j] \notin Range(queue[n])
    /\ \A j, k \in Slots :
          proc[n].slot[j] \in ConnId /\ proc[n].slot[j] = proc[n].slot[k] => j = k
    /\ \A j, k \in DOMAIN queue[n] :
          queue[n][j][3] = n /\ (queue[n][j] = queue[n][k] => j = k)

\* While n waits, its socket is open, and until it is answered or closed its handshake
\* waits with the connection, in the peer's listen queue or in the entry it serves.
HandshakePending(n) ==
    proc[n].pc = "waiting" =>
        LET c == Awaited(n)
            m == Head(proc[n].todo)
        IN  /\ c \in open[n]
            /\ \/ c \notin open[m]
               \/ inbox[n][c] # << >>
               \/ /\ inbox[m][c] = <<"hs">>
                  /\ c \in Range(queue[m]) \/ (proc[m].pc = "serving" /\ Current(m) = c)

\* Sockets are never mixed up, whoever ends and starts again: each is made once and is
\* in one place.
SocketsKept ==
    \A n \in Node : LocalsKept(n) /\ DescriptorsKept(n) /\ HandshakePending(n)

\* A client connects only to registered clients, and, as long as no client is started
\* again, only to those that registered before it.
RegisteredEarlier ==
    /\ \A a, b \in DOMAIN members : members[a] = members[b] => a = b
    /\ \A n \in Node : n \in Range(members) <=> run[n] > 0
    /\ \A n \in Node : \A j \in DOMAIN proc[n].todo :
          /\ proc[n].todo[j] \in Range(members)
          /\ \A a, b \in DOMAIN members :
                StartedOnce /\ members[a] = n /\ members[b] = proc[n].todo[j] => b < a

\* A client that sent its handshake gets out of the start-up recv(), unless a client is
\* started again or has left its arrays.
HandshakeAnswered ==
    \A n \in Node : n \in Waiting ~>
        n \notin Waiting \/ ~StartedOnce \/ \E m \in Node : proc[m].pc = "overrun"
=============================================================================
