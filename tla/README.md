# DartNet in TLA+

DartNet is a small network stack in C that runs on top of TCP: an overlay (ON)
of TCP links between nodes, a network layer (SNP) with distance-vector routing,
and a reliable transport (SRT) with Go-Back-N between a client and a server
process. This directory specifies all three layers in TLA+, and the byte streams
between them, checks them with TLC on small instances, and proves the main safety
properties with TLAPS for all values of the constants.

    tlc -workers 2 -config srt_transfer.cfg MCSrt     # any *.cfg of an MC module
    tlapm SrtProofs.tla

## 1. The system

    application   client/app_*_client.c          server/app_*_server.c
    SRT           client/srt_client.c            server/srt_server.c
                       | common/seg.c (local TCP to the SNP process)
    SNP           network/network.c + nbrcosttable.c, dvtable.c, routingtable.c
                       | common/pkt.c (local TCP to the ON process)
    ON            overlay/overlay.c + neighbortable.c, topology/topology.c
                       | one TCP connection per neighbour

Each line is a process per node; they talk over TCP connections only.

| component | state | operations | hard behaviour | what makes it correct |
|---|---|---|---|---|
| SRT client `srt_client.c` | `client_TCB_Table`, per connection a TCB: `state`, `next_seqNum`, send buffer `sendBufHead..Tail`, `sendBufunSent`, `unAck_segNum`, `bufMutex` | `srt_client_sock/connect/send/disconnect/close`; threads `seghandler` and `sendBuf_timer` | three threads share the TCB and lock only the buffer; SYN/FIN retries race with late answers; retransmission by a counter that drifts; error return with the lock held; 32-bit sequence numbers; entries and ports used again | nothing is freed before the server has it; whatever is buffered is retransmitted; calls return; old answers do not touch a new connection |
| SRT server `srt_server.c` | `server_TCB_Table`, per connection a TCB: `state`, `expect_seqNum`, `recvBuf`, `usedBufLen`, `bufMutex` | `srt_server_sock/accept/recv/close`; threads `seghandler`, `closeWaitTimer` | polling calls against handler steps; buffer full; a timer that writes CLOSED after it has looked; a SYN or FIN in the wrong state, or of another client | bytes in order, none twice, across connections; one client at a time, until its own FIN; a `recv` that can be satisfied returns |
| segments, SRT/SNP interface `seg.c` | framing FSM, checksum | `snp_sendseg/recvseg`, `getsegToSend`, `forwardsegToSRT`, `seglost`, `checkchecksum` | framing in the data; random loss and bit errors | what arrives is what was sent, or nothing |
| SNP process `network.c` | neighbour cost table, distance vectors `dv`, routing table, `dv_mutex`, `routingtable_mutex` | `pkthandler`, `routeupdate_daemon`, `waitTransport`, start, `network_stop` | readers without the mutex; vector and table changed by two assignments; stale vectors; start in any order; a stop nobody is told of | no routing loop at any moment, packets get nearer, costs never too small, convergence |
| routing tables | hash chains, arrays | `routingtable_*`, `dvtable_*`, `nbrcosttable_*` | slots and chains | they implement functions |
| ON process `overlay.c` | neighbour table, SNP connection | `waitNbrs`, `connectNbrs`, `listen_to_neighbor`, `waitNetwork` | start order; SNP absent or gone | packets stay in order per link; broadcast reaches every neighbour |
| packets, SNP/ON interface `pkt.c` | framing FSM | `overlay_sendpkt/recvpkt`, `getpktToSend`, `forwardpktToSNP`, `sendpkt/recvpkt` | several threads write to one socket without a lock | whole packets |
| topology `topology.c` | none (reads `topology.dat`) | node IDs, neighbours, costs | parsing, host names | symmetric costs |
| applications | none of their own | sequences of calls | sleeps instead of synchronisation | only legal calls |

Interaction: an application calls SRT; SRT's threads hand segments to SNP over a
local TCP connection (`snp_sendseg`), SNP looks up the next hop and gives the
packet to ON, ON sends it to the neighbour, where it goes up again. Route updates
start in `routeupdate_daemon` and end in `pkthandler` of the neighbours. Inside
one process, threads share the TCB or the tables.

The hazards of this code, each at its line and with the properties that cover
it, are listed under "hazards" in `PROJECT.json`.

## 2. Modules

| module | models |
|---|---|
| `SrtBase` | constants of `constants.h`, segments, the channel between the two SRT processes |
| `SrtClient` | one client TCB with its application thread, `seghandler` and `sendBuf_timer` threads |
| `SrtServer` | one server TCB with its application thread, `seghandler` and `closeWaitTimer` threads |
| `Srt` | both joined; the properties |
| `Sockets` | the TCB tables of any number of client and server processes: opening, closing, look-up by port, reuse of entries and ports |
| `SocketsProofs` | theorems |
| `OrderedStream` | abstract: what `srt_server_recv` promises; `Srt` implements it |
| `SrtInv` | the inductive invariant |
| `SrtLiveness` | fairness and the liveness properties |
| `SrtClaims` | two statements of comments which the code does not keep |
| `SrtProofs`, `OrderedStreamProofs` | theorems |
| `Routing` | SNP processes of all nodes: tables, updates, forwarding, start and stop; its properties and invariant |
| `Topology` | what the functions of `topology.c` and the cost table return for the lines of a file |
| `RoutingTable` | the routing table as the hash table it is |
| `Picking`, `PickingProofs` | what a loop copies out of an array (used by the two and by `Overlay`), and lemmas about it |
| `HashedRouting` | `Routing` with the hash tables kept beside the function `nextHop`, made from a file |
| `RoutingProofs`, `TablesProofs` | theorems |
| `Overlay` | ON processes of all nodes: start-up, relaying, stopping; its properties |
| `Links` | abstract: the FIFO links SNP expects; `Overlay` implements them, `Routing` uses them |
| `OverlayProofs` | the inductive invariant of `Overlay` and theorems |
| `DataPath` | one segment's way SRT - SNP - ON - ON - SNP - SRT, byte by byte, with other writers |
| `Checksum` | the checksum and the bit that `seglost` flips |
| `DataPathProofs` | the inductive invariants of `DataPath` (frames; order and loss of segments), and theorems about it and `Checksum` |
| `MCSrt`, `MCSockets`, `MCRouting`, `MCHashedRouting`, `MCOverlay`, `MCDataPath` | instances for TLC |

The layers meet at two abstract interfaces. `SrtBase` has a channel that loses, and
reorders only with a route change; `DataPath` shows what the channel between two
neighbours does (order kept, losses only where excused). `Routing` has the variable `link`, a FIFO
queue that drops only where an SNP process is not connected; `Overlay` implements exactly that
(`ImplementsLinks`).

### SRT: state and steps

The variables are the TCB fields under their own names (`cState`/`sState` for the
two `state`s, `unSent` for `sendBufunSent` as the number of segBufs before it) plus a
program counter per thread: `appPc`, `hPc` (client), `srvPc`, `sBranch` (server),
`timers` (how many `sendBuf_timer` threads live), `cwPolling` and `cwArmed`
(`closeWaitTimer` threads before and after their last look). History variables
count what has been put into segments (`queued`), what was offered (`offered`), where
the connection starts (`connStart`), what was acknowledged (`acked`) and what was
read (`delivered`); `acked` and `delivered` guard nothing. The bound `MaxBytes`
limits `offered`, the bounds `MaxConnects`, `MaxAccepts` the calls, `MaxTimers`
the timer threads.

| code | actions |
|---|---|
| `srt_client_connect`: SYN, poll, retry, result | `Connect`, `ConnectResend`, `ConnectReturn` |
| `srt_client_send`: cut into segments, append each under the mutex, flush | `Send`, `Enqueue`, `SendFlush`, `SendFlushCut` |
| `srt_client_disconnect`, `_close` | `Disconnect`, `DisconnectResend`, `DisconnectReturn`, `Close` |
| client `seghandler` | `HandlerReceive` (receive and look at the state), then `HandlerSynack`, `HandlerDataack`, `HandlerFlush`, `HandlerFinack` (act); `HandlerDiscard`, `HandlerExit` |
| `sendBuf_timer` | `TimerFire`, `TimerExit` |
| `srt_server_accept`, `_recv`, `_close` | `Accept`, `AcceptReturn`, `Recv`, `RecvReturn`, `ServerClose` |
| server `seghandler` | `Switch` then `SynListening`/`FinConnected` where the branch is not one critical section; `SynConnected`, `FinClosewait`, `DataConnected`, `ServerDiscard`, `ServerHandlerExit` |
| `closeWaitTimer` | `CloseWaitExpire` (its last look), `CloseWaitWrite`, `CloseWaitExit` |

Granularity. A handler reads the state in one step and acts in a later one, so
that other threads come in between, as they can in the code. A critical section
of `bufMutex` is one step. The exception is `SendFlushCut`: there the
connection to SNP breaks in the middle of `sendMaxSegments`, which returns with the
mutex locked, and from then on every step that needs the mutex is disabled.
`SendFlush`, the flush of the handler and `DataConnected` do all their calls
do, including the sends.

Abstractions. A payload is the positions of its bytes in the stream of the client.
Random loss and checksum errors (`seglost`, `checkchecksum`) are a discard at the
receiver; packets lost in SNP and ON are the channel's bound. A network that
changes its routes reorders (`Reroute`), because each hop is TCP and single-threaded
and so a fixed route does not. Timeouts may be taken at any poll of the loop, since
the clock values are not part of the model. The retransmission of a timer that is
cut by a broken connection is the same as the loss of its tail. The threads' steps
stop when `close` frees the TCB: what they would do to freed memory is not modelled.

### Sockets: state and steps

`Srt` has one client TCB and one server TCB. `Sockets` has the tables: `cState`, `cPort`, `cPeer` of
every entry `<<client, sockfd>>`, `sState`, `sPort`, `sPeer` of every entry `<<server, sockfd>>` ("NULL" is a NULL pointer), the
call each application is in, and the TCB and segment each client's handler acts on.

| code | actions |
|---|---|
| `srt_client_sock`, `srt_client_close` | `ClientSock` (first NULL entry), `ClientClose` |
| `srt_client_connect` | `Connect`, `ConnectResend`, `ConnectReturn` (the last look at the state), `ConnectFails` (CLOSED is written) |
| `srt_client_disconnect` | `Disconnect`, `DisconnectResend`, `DisconnectReturn` |
| client `seghandler` | `ClientReceive` (look-up by port and the tests), `ClientAct` (the state is written) |
| `srt_server_sock`, `_accept`, `_close` | `ServerSock`, `Accept`, `AcceptReturn`, `ServerClose` |
| server `seghandler` | `SynListening`, `SynConnected`, `FinConnected`, `FinClosewait` |
| `closeWaitTimer` | `CloseWaitExpire` (its last look), `CloseWaitWrite`, `CloseWaitExit` |

`net` is the set of all control segments ever sent. A segment in it is received at any time, in any order, never, or
many times: more than the network does, and what connections with the same ports and repeated
SYNs and FINs may expect of it. Data has no part here, because DATA and DATAACK change no state of a TCB. The
handler of the server tests and writes in one step; `Srt` has the two steps. Two things are the
applications' duty, and the demonstration programs do it: a process does not give one port to two
sockets, and does not connect again from a port it has disconnected (each of their ports is used once).

A `srt_server_accept` that finds CLOSEWAIT writes CLOSED while the `closeWaitTimer` of that connection
runs on (`AcceptReturn`, `srt_server.c:204-211`). `late` remembers the addresses where this has
happened. The tables go on from there, and the timer may close the connection that a later accept at that
address has made (539-541): the properties name this as their exception, and say everything else.

`stray` becomes TRUE in the steps that touch freed memory or the wrong connection, and from there nothing is claimed: a handler that writes to a TCB
freed meanwhile, or connected to another server meanwhile (`ClientAct`), and a `srt_server_close` that frees a TCB
under its `closeWaitTimer` (`ServerClose`). Not in this model: connections to SNP that break.

### Routing: state and steps

`dv[n]` is node n's own vector, `row[n][m]` what it knows of neighbour m,
`nextHop[n]` its routing table, `link[m][n]` the route updates under way on the TCP
links and local sockets from m to n, in order. `Receive` takes an update off the link and
writes m's row; then `RelaxCost` (the assignment of the vector under `dv_mutex`) and
`RelaxHop` (`routingtable_setnextnode`) happen for one destination at a time, and
every other thread may run between the two. `DaemonRead` reads the vector without
the mutex and `DaemonSend` sends it, later, each entry old or new. `Start` and `Stop`
are a SNP process coming and going: an update to a process that is not connected is
lost (`DropUpdate`). `SendPacket`, `Forward` and `TakePacket` carry one SNP packet
through the tables as they change. The tables are the functions they implement, and
the topology is the constant `LinkCost`. Identical consecutive updates on a link are
kept once: the second changes nothing.

### Tables and topology

`Topology` takes a file as the sequence of its lines, a line as two node IDs and a cost;
`topology_getNbrArray` and the others are what their loops leave behind. `HashedRouting` adds the
variable `table`: `routingtable_create` of the listed neighbours, then
`routingtable_setnextnode` in the step in which `pkthandler` calls it (`SetsHop`). `FileAssumption`
says that the file is the one `LinkCost` is of, and well-formed: no line joins a node with
itself or two nodes for the second time, no cost is 0 or INFINITE_COST, fewer than
MAX_NODE_NUM nodes. For other files the functions disagree or leave their arrays (see the
hazards). `topology_getNodeArray` is the set: the order of the IDs does not matter to any caller.

### Overlay: state and steps

| code | actions |
|---|---|
| `main`: start, sleep, connect, join, start the threads | `Start`, `Wake`, `ConnectNbrsReturns`, `Join` |
| `connectNbrs` | `Connect` (one neighbour), `ConnectNbrsReturns` (all, or given up) |
| `waitNbrs` | `Accept` |
| `waitNetwork` | `SnpConnect` (accept), `GetPacket`, `SendPacket` (to one neighbour), `WaitNetworkEnds` |
| `listen_to_neighbor` | `ReceiveEarly`, `ReceivePacket`, `ReceiveLate`, `Forward`, `ListenerEnds` |
| `overlay_stop`, or death by SIGPIPE | `Interrupt`, `Die` |
| SNP's side of the connection | `SnpHand`, `SnpTake`, `SnpStop` |

`main` is where the main thread is, `conn` and `listening` are the neighbour table's
connections and the threads, `sock[m][n]` a TCP connection with room for `SockCap` packets, `backlog`
the connections the kernel has made and `waitNbrs` has not accepted. A `connect` succeeds as soon as
the other side listens. `inTime` says whether every process is started before any has slept its
OVERLAY_START_DELAY; nothing in the code enforces it, so both are initial states, and the
properties that need it name it. A send to a process that is gone may succeed, fail or kill the sender, because
nothing ignores SIGPIPE: `SendPacket` and `Forward` have the three outcomes.

### Data path: state and steps

Five connections (`srt_snp`, `snp_on`, `on_on`, `on_snp`, `snp_srt`) with the eight threads that
write to them. `Send` is one `send` call or the part of it there is room for; a frame takes three of them,
without a lock, so a second thread comes in between. `Receive` and the five functions that
complete a frame (`getsegToSend`, `getpktToSend`, `recvpkt`, `overlay_recvpkt`, `snp_recvseg`) take one byte and
go through the state machine `PutByte`, whose buffer has room for the structure and two bytes. Data beyond what was stored is
`Stale`. `SrtCloses` and `waitTransport` are an SRT process that goes, in the middle of a frame
perhaps, and the next one, upon which `waitTransport` sends the old `segment` again. Each item has a byte of
its own that stands for its checksum, so spoiled data is not taken for another item; that the checksum really finds
one flipped bit is `Checksum`. History variables: `sent`, `got`, `excused` (may be missing), `overlapped`.

## 3. Properties

Transport (`Srt`, `SrtInv`, `SrtLiveness`):

* `InOrder`: what the server stores is in the order of sending, no byte twice, across disconnect and reconnect.
* `AckedIsStored`: a segBuf freed by a DATAACK has been stored by the server.
* `UnsentIsLive`: `sendBufunSent` never points to a freed segBuf, although `unAck_segNum` drifts.
* `TimerRuns`: while the buffer is not empty some `sendBuf_timer` lives, although each ends by its own look without the mutex.
* `ImplementsStream`: refinement of `OrderedStream`. `written` is `queued`, `cursor` is `expect_seqNum`; the abstract `Resume` is an accepted SYN.
* `SafetyInv`, `FifoInv`: inductive invariants, see section 5.
* `Delivered`, `Drained`, `CallsReturn`, `RecvReturns`: liveness.

Tables of TCBs:

* `Agreement`: a client's TCB that is CONNECTED has a server's TCB that is CONNECTED to this very client, so that two clients never share one; at an address in `late` the server's end may have been closed under the client.
* `OneTimer`: one `closeWaitTimer` for a TCB in CLOSEWAIT, however often the FIN comes, and none for any other, except at an address in `late`.
* `EndsByDisconnect`: a connection is ended by its own client's call only, at both ends, with two exceptions: at the client a `srt_client_connect` that has found no answer and is about to write CLOSED when the answer comes; at the server the write of the timer left over from a failed accept. Without the second TLC finds the connection that this timer ends.
* `SocketsInv`: the inductive invariant, see section 5.

Routing:

* `NextHopCloser`, `LoopFree`: each node's next hop is closer by the link's cost at least; no set of nodes that are not just changing their route is closed under next hops, so there is no loop at any moment.
* `PacketCloser`: a packet's distance decreases with each hop after its first, while the tables change.
* `NeverTooShort`: no vector anywhere promises less than the shortest path.
* `Converges`: tables become those of the shortest paths and stay so.
* `LookupAgrees`: a look-up in the hash table gives the route last set for that destination, however the destinations share chains. This is between two changes: a new entry is linked before it is written (`routingtable.c:108-111`, `115-118`), and `waitTransport`, which takes no mutex, may look it up just then.

Overlay:

* `AllLinked`: the comment at `overlay.c:354`, that all connections are there when the listeners start; it holds if all are started in time and none has stopped.
* `FullOnlyIfRead`: a full connection is being read, but for two cases in which a neighbour's `waitNetwork` may block for ever: the SNP process at the other end is gone for good, or that node is still in `waitNbrs` (`overlay.c:107-134`). The property says that in the second case, if all are started in time and none has stopped, no larger neighbour has given up on the node, so that it comes out (`AllInitialise`); with a late start it may not.
* `ImplementsLinks`: refinement of `Links`. A path is what is in SNP's connection, in `waitNetwork`'s hands, in the socket, in the listener's hands and in the other SNP connection, in this order.
* `AllInitialise`, `Carries`: liveness: everybody comes up; everything handed over arrives, while the SNP processes run and if each of them keeps reading. The second condition is an assumption about the reader, `pkthandler`, which the code does not give when all buffers in a ring are full; `Carries` names it.

Data path:

* `BufferSuffices`: no reader writes past its buffer, unless frames of two threads overlapped on its connection.
* `NothingBogus`: no thread passes on what was never sent, with three exceptions that are named.
* `Intact`: segments arrive in order, not more often than sent, none missing before one that arrived but for named reasons; until frames of two threads overlap, or `waitTransport` sends what was never written while a segment holds a delimiter (`Unmixed`). Section 5 says why both exceptions are needed.
* `Arrives`: what is not excused arrives after cut, spoiled or overlapping frames (the readers find their way back), unless a buffer was overrun.

`TypeOK` is the type invariant of `Srt` (with the parts `ClientTypeOK` and `ServerTypeOK`), `Sockets`, `Routing`, `Overlay` and `DataPath`.

## 4. Runs

MAX_SEG_LEN=2, GBN_WINDOW=1, SEQ_MOD=16, UINT_MOD=4 in all SRT runs. The window of
the code admits GBN_WINDOW + 1 segments (`<=` at `srt_client.c:378`), so two segments are
in flight; retransmission, partial acknowledgement and the drift of `unAck_segNum`
need two, and a third only repeats them. A length of 3 makes one full and one
partial segment. SEQ_MOD is larger than MaxBytes, see NoWrap below.

| run | bounds | shows |
|---|---|---|
| `srt_reconnect` | 2 connects, 2 accepts, 2 bytes, 2 segments per direction, fixed route, one byte of buffer to use | `TypeOK`, `InOrder`, `FifoInv` (with `SafetyInv`), `ImplementsStream`, with segments of the first connection arriving in the second |
| `srt_transfer` | 1 connection, 1 message of two segments, the second of which fits only after a `recv`, reordering, 2 timers, FIN retry, either side's SNP connection breaks anywhere, the client's also inside `sendMaxSegments` | `AckedIsStored`, `UnsentIsLive`, `TimerRuns`, `SafetyInv`, also with the mutex left locked |
| `sockets` | 2 clients with 2 entries and 2 ports each, 1 server with 1 port, 1 retry of SYN and FIN; at most 2 entries of clients and 1 of the server in use at a time; after a failed accept that leaves a timer, 1 entry of clients, and 2 ports that have connected | `TypeOK`, `Agreement`, `OneTimer`, `SocketsInv`, `EndsByDisconnect` |
| `srt_live` | 2 bytes, 1 segment per direction under way, SYN retry, a receive buffer in which one byte fits, so that the second is dropped until the first has been read | `Delivered`, `Drained`, `CallsReturn`, `RecvReturns` |
| `srt_chunks` | one send of 4 = 2 MAX_SEG_LEN | violates `SendQueuesAll` |
| `srt_fullbuf` | `recv` of RECEIVE_BUF_SIZE = 2 | violates `RecvReturns` |
| `srt_leak` | connection breaks | violates `CallsReturn` |
| `srt_stale` | 2 connects, 1 accept, FIN lost | violates `DeliveredAgain` |
| `routing` | nodes 1 - 2 - 3 - 4 in a line with links of cost 1, and a link 2-4 of cost 5; 2 slots; node 3 may stop; packets from 1 and from 2 to 4, one at a time; constraint `Bounds` | `TypeOK`, `NextHopCloser`, `LoopFree`, `PacketCloser`, `NeverTooShort`, `LookupAgrees` |
| `routing_live` | triangle with costs 1, 2 and 5 (the direct link is longer), started in any order, node 3 may stop; packets 1 to 3 while no update is under way (`Bounds`) | `Converges` |
| `overlay` | nodes 1 - 2 - 3 in a line, SockCap 1, node 1 hands over one packet and node 2 two, SNP of 1 and ON of 3 may stop | `TypeOK`, `AllLinked`, `FullOnlyIfRead`, `ImplementsLinks`, `AllInitialise`, `Carries` |
| `datapath` | 3 frames or closings (constraint `Bounds` for the third), of two plain segments, one with `!#` in it and a route update; StreamCap 1, 3-byte segments | `TypeOK`, `BufferSuffices`, `NothingBogus`, `Intact`, `Arrives` |

In `routing` node 2 first reaches 4 over the long link and then through 3. Node 1 takes 2 as its
next hop to 4 at cost 6 or 3, so what it knows of 2 may be out of date while 2 changes its own entry, and a packet
from 1 may be on its way to 2, or on the way from 2, when 2 changes the route. Node 4 learns of 1 from 2 (cost 6) and then
from 3 (cost 3): in its table the entry for 1 is appended to the chain that 3 is in and changed later. `Bounds`
lets the nodes start one after the other before the first periodic update, node 1 tell its vector only when it has changed, and three things at most be
on their way (updates queued, in a daemon's hands, and the packet), or one once a node has stopped: two vectors of different nodes and the packet are what
the properties relate. Updates to nodes that have not started are in `routing_live`.

The triangle of `routing_live` is the smallest topology in which a route changes from a direct link
to another path and in which a stale vector competes with a newer one; in it every interleaving of starts,
losses, periodic and triggered updates is explored. What a stale vector does to a next hop whose own route
changes is the matter of `routing`, and for liveness is not shown beyond three nodes. `MaxQueue` = 0 only keeps the periodic daemon from
reading again while its last update is queued; broadcasts on change queue freely.
Only one packet travels at a time, as packets do not affect one another.

In `sockets` two sockets contend for the port, on one node or on two, and each entry and port has an
earlier user; a third would wait like the second. Every client may open and close each port once, so the number of connections is
bounded by the four addresses. The clients are alike, and so are the port numbers: TLC checks one of each symmetric set
of states. The constraint `Bounds` also stops at a state that is `stray`. After a failed accept that leaves a timer, one client's entry at a time
and two connections in all are enough: the one whose accept failed and the one the timer meets.

In `overlay` the node in the middle has a smaller neighbour to connect to and a larger one
to wait for, listed larger first; it broadcasts and sends to one. One packet of room fills a
connection with one packet and two packets wait; `Carries` with more room would only fill later. `MaxPackets` also means that SNP's
reading thread never waits for the ON process (a packet forwarded is a new one). In `datapath` StreamCap 1 lets the
writers interleave after every byte, which gives every order in which their bytes can meet; the first two frames (or a frame and the closing) take every interleaving: one after the other, overlapping (on `srt_snp`, `snp_on` and `on_snp`), one cut, one
repeated. The third comes when frames are left on one connection at most (`Bounds`), so that `Arrives` has something that is due
after a cut frame, after a spoiled one and after two that overlapped, with the readers as those have left them. What the safety properties say of more frames is proved
(section 5), and what overlapping does to the order needs four and is left out of `Intact`; that frames arrive behind more than two others is not shown. The bytes of the items include `!`, `&` and `#` where they may be mistaken
for parts of a delimiter. `MCDataPath` also evaluates `Checksum` on words of 4 bits.

No run checks deadlock: a run stops where its bounds are reached and, in the code
too, a process whose connection broke, or whose calls have all returned, does
nothing more. Where something must not stop, a liveness property says so.

### Fairness

`SrtLiveness!FairSpec`. Threads are scheduled: weak fairness of each call under way
(its loop polls), of the timers and of the handlers. The application is not forced to
make another call, except that the reader keeps calling `srt_server_recv`, as the
applications do. `seglost` loses each segment independently with a probability
below one, and the timer repeats a segment until it is acknowledged, so strong
fairness of the reception of a given DATA number, and of a given DATAACK number, is
what that randomness gives. Nothing is assumed about SYN, FIN and their answers:
these have retry limits. `Routing!Fairness`: every process is started, its
daemon runs again and again, `pkthandler` receives from each link (TCP loses nothing)
and goes through its loop. `Overlay!FairSpec`: every process is started, every thread runs, the SNP process
connects; nothing makes it read, hand over or stop. That it reads is not given, because its only reader, `pkthandler`, also sends and waits
for room then (`network.c:166`, 244): `Carries` has weak fairness of `SnpTake` as its hypothesis. `DataPath!FairSpec`: weak fairness of
`Relay`, that some thread that can run does; as every run of the model has finitely many frames, that is all
`Arrives` needs.

### Findings

The four violation runs show where code and comment differ:

* `srt_client.c:320`: a length that is a multiple of MAX_SEG_LEN makes the last segment empty; the header says that a successful call queues the data (`srt_client.h:133`).
* `srt_server.c:454`: the buffer is never filled to RECEIVE_BUF_SIZE, so a `recv` of that length, which line 234 accepts, polls for ever; lines 219-220 say it returns when the data is available.
* `srt_client.c:382`: `sendMaxSegments` returns without unlocking; the header says `srt_client_send` does not block (`srt_client.h:130`).
* `srt_server.c:401`: if each FIN is lost, and bytes the first connection had sent were not stored, the next connection gets a SYNACK, but its number is not adopted and nothing is delivered. (If all had been stored, `expect_seqNum` is the client's next number, and it works.)

Met while modelling and not the subject of a run: the window is one larger than the
comment at `srt_client.c:361` says; `unAck_segNum` is not the number of unacknowledged
segments (`srt_client.h:45` against 743-760 of the source); `srt_server_accept` returns -1 when a FIN was handled between two polls
(`srt_server.c:204-211`), and the `closeWaitTimer` left over then may close the next connection (539-541); a late SYNACK leaves a TCB CONNECTED whose connect has returned -1
(`srt_client.c:630`, 243); numbers compared with `<` do not survive the wrap (`srt_client.c:644`);
`close` frees what the threads still use (`srt_client.c:552`); `closeWaitTimer` does not clear the receive
buffer, as its comment says (`srt_server.c:537`). If routes change and an
old SYN is accepted again, `InOrder` is violated: that is why it is stated
for a fixed route.

Met in the lower layers and not the subject of a run: a node started late leaves its neighbours
without the connection for good, against the comment at `overlay.c:354`, and a smaller neighbour that has been given up on stays in `waitNbrs` for ever; an ON
process accepts one SNP process only (`overlay.c:275`), so a restarted one gets nothing; a
restarted SRT process makes `waitTransport` send the last segment again, or one never written
(`network.c:322`); frames of two threads may mix on a socket and then even overrun the reader's buffer, or arrive in another order than the one in which they were begun.

## 5. Proofs

| theorem | module | for every |
|---|---|---|
| `Safety`: Spec => []SafetyInv, and from it `TypeCorrect`, `AckedBytesAreStored`, `UnsentStaysLive`, `TimerAlwaysRuns` | `SrtProofs` | window, buffer, segment length, retry limits, channel capacity, number of connections, either delivery order, connections that break; under `NoWrap` |
| `Fifo`, `DeliveryInOrder`, `Refinement` (ImplementsStream) | `SrtProofs` | the same, with a fixed route |
| `SocketsSafe` (Spec => []SocketsInv), and from it `ConnectedAgree` (Agreement), `OneTimerRuns`, `OnlyDisconnectEndsIt` (EndsByDisconnect); `TypeCorrect` | `SocketsProofs` | set of clients, servers and ports, size of the tables, retry limits, timers |
| `StreamDelivers` | `OrderedStreamProofs` | (the abstract stream is ordered) |
| `RoutingSafety`, `RoutingTypeCorrect`, `NextHopsAreCloser`, `PacketsGetCloser`, `NoVectorTooShort`, `RoutesAreLoopFree` | `RoutingProofs` | set of nodes, symmetric link costs, start and stop; `RoutesAreLoopFree` speaks of the nodes not just changing the route, as `LoopFree` does |
| `TablesAgree` (HashedSpec => []LookupAgrees), `LookupAfterSet` | `TablesProofs` | number of slots, set of nodes, well-formed file |
| `OverlaySafety`, and from it `TypeCorrect`, `NeighborsAreLinked`, `FullIsRead`, and the refinement `LinksAreImplemented` (Spec => ImplementsLinks) | `OverlayProofs` | finite set of nodes, symmetric neighbour tables, room on the connections, packets, and choice of who stops |
| `FramesAreWhole` (Spec => []DataPathInv), and from it `DataPathTypes`, `BuffersSuffice`, `NothingIsBogus` | `DataPathProofs` | set of segments, updates and senders, contents and length of the data, room on the connections, number of frames and restarts, content of uninitialised memory |
| `SegmentsIntact` (Spec => []Intact) | `DataPathProofs` | the same |
| `StampedIsValid`, `FlipIsFound`, `TypeFlipPasses` | `DataPathProofs` | width of a word, length of header and data |

Assumptions. `ConstantsAssumption` (naturals, and a window below `UINT_MOD`) and
`RoutingAssumption` (costs positive and symmetric, `Shortest` a fixpoint of the shortest-path equations): both
hold in the code's `constants.h` and topology files and are evaluated by TLC in each run.
So are `SocketsAssumption` (no process is client and server, the tables have an entry), `SlotsAssumption` (there is a slot), `FileAssumption`, `OverlayAssumption` (finitely many nodes, each with
a neighbour, tables symmetric and without repetition), `NoneAssumption` (the value for "nothing" is no packet), `DataPathAssumption` (every item
has a byte of its own that stands for its checksum, and which uninitialised memory does not hold) and `ChecksumAssumption` (fewer words than a word has values).
`NoWrap` (fewer bytes than `SEQ_MOD`) is a hypothesis: beyond it the code's comparison is
wrong. `~Reroute` is a hypothesis of the ordering results, and needed.

Why the invariants are as they are. `AckedIsStored` alone is not inductive: a
DATAACK under way must speak of bytes the server has (`AckInv`), which needs that
`expect_seqNum` does (`ServerInv`), which needs that a DATA segment ends at a boundary of
the send buffer (`ToServerInv`, `Frontier`), so that a DATAACK never frees a segment in part
nor an unsent one (`BufferInv`, `UnsentIsLive` through `WindowInv`). Old
DATAACKs are harmless because numbers grow across connections, and old SYNs because their
numbers are below `connStart`. `PhaseInv` says which state a held SYNACK or FINACK
may meet, among them those left by calls that gave up. `Frontier` gives up its claim about unsent segments
while the mutex is locked for good: then a segment counts as unsent that was sent,
and nobody looks at it again. For `InOrder`, a SYN must be behind the data sent before it
(`SynsAreLater`), which is where the fixed route is needed. In `Routing` vectors only
decrease, so that whatever is known of a neighbour is never below what it has
(`KnownAbove`); with that, the stale entry over which a node chose its
next hop is still an upper bound, and `NextHopCloser` is inductive, except
between the two assignments, where `PendingOffer` says what is about to be written.
`RoutesAreLoopFree` takes, in a set of nodes, the one with the smallest vector.

`SocketsSafe`: `Agreement` must be known of a SYNACK before it is received (`SynackIsHeld`) and while the
handler has it in hand (`HandIsHeld`); it stays true because a server leaves CONNECTED only on a FIN of this client,
and whoever has sent a FIN (`FinsAreSent`) has an address that will not connect again
(`OpenIsUnfinished`). `PortsDistinct` makes addresses belong to one TCB at a time; `OneTimer` shows that a timer that writes
CLOSED meets CLOSEWAIT, except at an address in `late`, where the timer left over may meet any state: so `SynackIsHeld` and `HandIsHeld`
say `Held`, which is that the server holds the connection or its address is in `late`. That a TCB is freed with no timer running is `~stray`. A step of a client touches one TCB, one call and one hand, and a step of a server one TCB: two
lemmas (`ClientKeeps`, `ServerKeeps`) say what such a step has to respect, and each action is shown to do so.

`FramesAreWhole`: that no buffer is overrun is a matter of where the reader stands in the frame, and so of all bytes that are on the
connection. `FrameState` gives every byte on a connection its position in a frame and the data of that frame: positions go up one by one, a
frame begins where one has ended, and the one thread that has begun a frame goes on after the last byte
(`Framed`, `Writes`). What is known of the reader follows from the position of the last byte it took (`Reads`): its buffer has at most the bytes after the `!&`
of this frame, whatever they are, and the `!#` at the end completes what it has or finds it outside any frame, so that it is at the start again when the next
frame begins. Only if there is no delimiter in the data has it stored exactly the frame. When two threads have overlapped on a connection nothing is said about it any
more. `NothingIsBogus` needs in addition that data on its way is what was given to be sent (`LastInv`, the last part of `FrameState`), as long as nothing has
been spoilt (`NothingSpoilt`).

`SegmentsIntact`: `Intact` speaks of the two ends only. `TrackInv` says of every segment in `sent` where it is (`at`): on a connection, in the hands of the thread
that passes frames on between two, returned, or gone. `Counted` is what `Intact` follows from: an earlier segment that is not gone is at least as far as a later one, what is gone is `excused`,
and what was returned is in `got`, in order. `Tracked` ties the numbers to the bytes: every byte of a frame has the frame's number, if it has one, the numbers do not decrease from the reader's
end to the writer's, and the reader itself is in the frame of the first (`Numbered`). `Carries` does so for the threads in between.
A number is meant for a segment, but what a reader returns need not be its bytes: a delimiter in the data ends it early, the rest of the buffer is stale, and
the next hop frames that again. What does not change is the `Mark` of a segment, the last place of the byte that is its own:
stale bytes do not hold it, and a frame read early moves nothing to a later place, so that data has its own byte at the mark, as sent (`Marked`), or nowhere from there on (`Unmarked`), and unmarked
data stays so (`PassTracked`). Hence no segment comes out of a frame which does not have its number. A frame cut when the SRT process closes keeps its number until `waitTransport` begins
with an empty connection; a repeated segment gets a new number in the middle of the way (`WaitTransportTrack`).

Both exceptions of `Intact` are real; TLC finds these on instances that are larger than the run's. (1) The application has sent only the first byte, `!`, of z's frame
when the timer sends those of x, y and w. The reader takes the `!` of x for the second byte of a delimiter and is outside any frame until x has passed,
it reads y, and it takes the `!` of w with the rest of z for the frame of z: sent are z, x, y, w, and y, z arrive. (2) A segment ends in `!#` and one more byte, so that readers return it without this byte, which is then stale.
At `waitTransport` it is another one, so that `last` is nothing that was sent; the first SRT process closes and `waitTransport` sends `last` again for the next one; and both
times the stale byte at a later hop is the right one: the segment arrives twice. Unless something like this has happened, what was never sent does no harm (the case of `None` in `WaitTransportTrack`).

`OverlaySafety`: that a node which is up has all its connections is not inductive, because `waitNbrs` only counts.
`StartInv` says that a connection a node has with a living neighbour is in the neighbour's table too or in its
backlog, and that those counted and those in the backlog are together no more than the larger neighbours who have
connected or have died (`Came`); so when the count has reached the number of larger neighbours all of them have come
and the backlog is empty. `QuietInv` is about the runs in which all started in time and none has
stopped: there no connect fails, so that a node past `connectNbrs` has all smaller neighbours. `RelayInv` says that a connection
with packets on it, or that is in the table, has its listener as long as the local SNP process is not gone, from which `FullOnlyIfRead` follows, with `QuietInv` for the node that is not up. `LinksAreImplemented` needs besides that a packet in a socket or in a listener's hands is from the node at the other
end, that what waitNetwork sends is for different neighbours, and that an SNP process which is connected has an ON process that is up (`WayInv`). Then
`SnpHand` is `Hand`, `SnpTake` is `Take`, and each step that passes a packet on from one part of a way to the next leaves the way as it is: the end of one part is the beginning
of the next (`PacketPasses`). The others lose what is in a part or its first packet, and the lemmas show that one of the two SNP processes is then not connected: two nodes that are up have each other in
their tables (`UpAreLinked`), so no send between them fails and no listener ends. `TablesAgree` needs no invariant of the chains but their type: after a set, the first entry of the
destination is the changed or the appended one, and the first entry of any other destination is where it was. That the counting in
`Pick` finds a position for every rank (`Ranks`) is an injection between finite sets of equal size. `FlipIsFound` rests on
two valid sums never being less than M - 1 apart (`Apart`).

Model-checked only: all liveness properties (`Delivered`, `Drained`, `CallsReturn`,
`RecvReturns`, `Converges`, `AllInitialise`, `Carries`, `Arrives`), which rest on fairness and ENABLED; and the runs that violate a claim. For larger instances than those of the runs nothing is known of them.

## 6. Not modelled, and the plan

Order followed: transport first (it holds the hardest interleavings), then its
invariant and refinement, routing and its proofs, then the layers below: tables and topology,
overlay, data path, checksum, the proofs of the overlay and of the tables, and the tables of TCBs with their proof. Left, in this order:

1. The cycle of `waitNetwork`, `pkthandler` and `listen_to_neighbor` when all buffers are full: SNP's forwarding and ON's relaying in one module.
2. An ON process that is started again: `waitNbrs` has stopped accepting, and counts connections it cannot place.
3. A version of `InOrder` under route changes within one connection.
4. A segment whose own header contains `!#`, which no retransmission brings through.
5. `closeWaitTimer` with its clock.

Steps that are one here and several in the code, where nothing else in the model depends on what comes between: a packet
handed to ON or SNP in `Overlay` is one step, its three unlocked `send` calls are in `DataPath` (`pkt.c:37-43`, `199-207`); each entry a daemon sends is
as it was when the reading began or as it is at the end, not one between (`network.c:117`); an entry appended to a chain is linked and written at once
(`routingtable.c:108-111`); in `Srt` the last test of `srt_client_connect` and its write of CLOSED (`srt_client.c:238-243`; `Sockets` has the two), those of
`srt_server_accept` (`srt_server.c:204-211`), and the freeing of the buffer, the state and the first FIN of `srt_client_disconnect`. Left out: an
`accept` in `waitNbrs` that fails and is counted (`overlay.c:112-114`), and a reconnect from a port that has disconnected (in `Sockets`; `Srt` has it).

Outside any plan: the demonstration programs' input and output (their calls are what the application threads of the
transport do), host name lookup, the text format of `topology.dat`, allocation of the tables, use of freed memory after
`close`, sequence numbers beyond 2^32 (the comparison of the code is wrong there, see NoWrap).
