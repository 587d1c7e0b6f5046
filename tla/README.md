# Verification of DServerFramework

TLA+ models of the servers of DServerFramework (`src/DDServerFramework/src`), TLC runs
that check them on small instances, and TLAPS proofs for every size of them. The framework
is a game back end: clients connect to *connection servers*, which forward their messages to
*logic servers*; one *center server* handles what is global; the logic servers find the
connection servers through *etcd*.

    clients --ws--> WSConnectionServer <--Cellnet-- logic servers (not in the repository)
    clients ------> ConnectionServer   <----------- LogicServer ------> CenterServer
                          |   etcd: publish              |  etcd: poll
                          +-----------> etcd <-----------+

`WSConnectionServer` and `ConnectionServer` are siblings: the first is newer, speaks
WebSocket to clients and Cellnet frames to logic servers written elsewhere, and supports
reconnects; the second is the partner of `LogicServer` in this repository.

The network library (event loops, sockets, timers, `MsgQueue`, RPC service, etcd client)
is a git submodule and not part of the repository. It is modelled from how the code uses
it, and the definitions that do so are marked external in `PROJECT.json`.

## Inventory

| Component | State | Operations | What is hard |
|---|---|---|---|
| WS client session (`WSConnectionServer/ClientSession*`) | runtime ID, atomic pointers to primary and slave, `mReconnecting`, serial numbers; the map of all clients | enter, packet (heartbeat, reconnect, game), claim a primary, close, 2-minute timer, kick, downstream | each session on its own loop thread; pointers stored by other loops; late timer, kick and reconnect |
| WS logic-server session (`LogicServerSession*`) | `mID`, `mIsPrimary`; two registries by ID | login, set primary, set slave, kick, downstream, close | check-then-act login, repeated logins, `operator[]` inserting null entries, kicking from a copied map |
| Runtime IDs (`ClientSession.cpp:36-58`) | a 32-bit counter, the clock | make an ID | counter and clock read one after the other by every loop, 16 bits of the counter, restarts |
| Publication in etcd (`ConnectionServer.cpp`) | the key and its TTL | set, sleep, ask the next endpoint | any number of endpoints that do not answer |
| Wire formats (`Common/Use*`, `UseCellnet*`, `UseWebPacket*`, `sendPB`) | serial numbers, handshake, cached fragments | cut packets out of a byte stream; write frames | partial input, fragments, 16-bit lengths and serials, limits of buffers |
| Generated message classes (`*.pb.cc`, `*.pb.h`) | the fields of a message | set, clear, merge, copy, size, write, read | negative and wide numbers, packed and unpacked, unknown and repeated fields, truncation, strings that are not UTF-8 |
| Network to logic thread (`Common/NetThreadSession*`) | three lists, a lock, the logic loop's wakeup; shared ownership of sessions | push enter/data/close, sync, read, call back | a size read outside the lock, lost wakeup, who drops the last reference |
| Link logic server – center (`LogicServer/CenterServerConnection*`, `Common/AutoConnectionServer.h`) | `mSelfID`, the bare pointer `gLogicCenterServerClient`, RPC callbacks, connect threads, timers | connect, login, ping, call, close, destroy and reconnect | exactly one link, dangling pointer, crashes of both ends |
| Center server (`CenterServer/*`) | registry by ID, global RPC caller | login, RPC (answer now or later), close | sessions with the same ID, the global caller |
| Link logic server – connection server (`LogicServer/ConnectionServerConnection*`, `LogicServer.cpp`) | `alreadyConnectingServers`, table of connections, etcd answer | poll etcd, connect threads, login, close | look at the table long before the connection is made, refused logins, restarts |
| Client mirrors (`LogicServer/ClientMirror*`) | map of mirrors, weak pointer to the connection | init, destroy, data, send | mirrors that outlive the connection |
| Plain connection server (`ConnectionServer/*`) | as the WS one, without reconnects | as above | branches for slave and primary are swapped, slave ID stored without synchronisation |
| Logs, JSON, `SimulatePlayer`, vendored code | | | not modelled: pure I/O, no state of the system, or not this project's code |

What makes each part correct:

* **WS connection server**: a closed session stays in no registry, except under what it left
  behind by logging in again; a server that is logged in can be found, unless a login that
  had passed the look-up before took its entry; a client is bound to servers of the right
  kind; a client that leaves is reported to every server bound to it and then forgotten; each
  packet goes to one server; downstream packets keep their order; clients of a lost primary are kicked.
* **Network to logic thread**: one FIFO queue, drained; callbacks of a session in the order
  of its life; no session destroyed before its `onClose`.
* **Center link**: one link per logic server, restored after any failure; the registration
  the center announced stays; the pointer is never stale; answers reach their callers.
* **Connection link**: one login per pair of servers; neither forgotten nor used twice;
  a server that stays up is connected to.
* **Runtime IDs**: two clients share one only if made in one second, and with a restart or a
  whole turn of the 16-bit counter between them; a client that is in is found under its ID,
  unless another was given the same.
* **Publication in etcd**: the key of a running server is lost only to requests that failed.
* **Wire formats**: however the stream is cut, each packet is handed over once, whole and in
  order; serial numbers agree; what is dropped leaves nothing behind; a message in several
  frames costs itself and the next one, no more.
* **Message classes**: what is written reads back as it was, whoever writes it; the announced
  size is the size; a truncated message invents nothing; one with a string that is not UTF-8
  is refused.

## Plan

Written in this order, the most important behaviour first:

1. `WSConnectionServer` with its proofs. *Done.*
2. `LogicQueue` (abstract) and `Net2LogicQueue`, which implements it, with its proofs. *Done.*
3. `CenterLink`. *Done.* It relies on 2: one callback is one step.
4. `ConnectionLink`. *Done.* Relies on 2 as well.
5. `ProtoMessages`, `ProtoReading`, `ProtoObject`: the generated classes. *Done.*
6. `Framing`, `Streams`: the three wire formats over a connection. *Done.* Uses 5 for the
   bodies of Cellnet packets.
7. `RuntimeId`, `EtcdLease`, with their proofs. *Done.* 1 relies on the first (a client is
   named by its runtime ID), 4 on the second (when the key of a running server stays).
8. Proofs for `CenterLink` and `ConnectionLink`, with `RepliesMatchCalls`. *Done.*
9. What `WSConnectionServer` forwards and in what order, proved. *Done.*
10. `StreamsProofs`: what the three parsers hand over. *Done.*
11. `ProtoProofs`, `ProtoObjectProofs`: that the message classes read back what they write.
    *Done.* 10 uses it for the length of what is sent.
12. What is left to TLC: liveness (see the end of *Proofs*).

The client sessions of the plain `ConnectionServer` and the client mirrors of `LogicServer`
were planned and dropped; see *Not modelled*.

## Modules

### WSConnectionServer

Every session is pinned to one event loop, and each loop is a thread. `LoopOf` assigns the
sessions to loops: sessions of one loop take turns (`Free`), those of different ones
interleave. A step touches shared memory once: a critical section of a registry (`Find`,
`AddServer`, `RemoveServer`, `ClaimPick`), one atomic load or store of a client's pointer
(`GamePacket`, `LoadSlave`, `ClaimReload`, `NotifyLoad`, `ClaimStore`, `SetStore`), one
access to `mReconnecting`, or a push to another loop. `frame[c]` and `lframe[l]` are the
handler a loop is in, with its local variables.

* `gAllServers[kind][id]` is a session, `Nil` (the null entry that `operator[]` inserts) or
  `Absent`. `PostAll` dereferences what it iterates over: a `Nil` sets `crashed`.
* A client goes "new", "open", "closing" (a close was posted), "closed" (`onClose` ran, the
  timer is set), "expired" (the timer fired), "forgotten" (erased).
* `toServer[l]` is everything ever posted to a logic server, `sent[c]` everything written to
  a client: they are histories as well as queues.
* `boundInTime[c][kind]` is a history variable: the pointer was stored before the timer
  fired. A server bound later cannot be told, and the code does not claim it is.
* Logic servers are outside the repository. A session may log in under any kind and ID of
  `LoginAs`, again after it was accepted or refused, as `onLogicServerLogin` does not ask
  whether it has before; a second login overwrites `mID` and `mIsPrimary`. It may send any
  order about a client that some logic server has heard of, logged in or not and of either
  kind. The look-up (`LoginFind`) and the registration (`LoginAdd`) of a login are two steps.
* A downstream packet is written at once when the client's loop is the one that sends it, and
  pushed to the client's loop otherwise (`Downstream`).
* `accepted[l]` and `overwrote` are history variables: what a session was registered under,
  and the kinds and IDs under which a login replaced another session.
* Three simplifications. What a loop pushes to one of its own sessions other than a packet
  (a kick, a post to a server on the same loop) waits in the queue like what comes from
  another; the order of messages within `toServer` is used by no property. A login under
  ID -1 is left out. The reply to a login is in `ConnectionLink`, where something depends
  on it.

### LogicQueue and Net2LogicQueue

`LogicQueue` says what the path promises: events are handled one at a time, in order, once.
`Net2LogicQueue` has the three lists of `MsgQueue`, the lock, the wakeup and the owners of a
session. Its refinement mapping makes the pending events the message in hand followed by the
read, shared and write lists. The `Timeout` of the logic loop gets no fairness: that no
event is stranded must follow from the wakeups. Two assumptions about the library: a wakeup
is remembered until the loop next waits, and the library lets go of a session it closed
before the loop's callback of that round runs (`EndEvents`).

### CenterLink

Logic servers, the center, the connections between them, crash and restart of every
process. A connection carries messages both ways; when it breaks each end gets a prefix of
what was sent and then its close. One step is one callback, justified by 2: all callbacks of
a process run on its logic thread, each connection's in order. Every connect, reconnect
timer and connection counts as one "token" of a logic server (`OneLink`).

### ConnectionLink

etcd, the etcd thread and connect threads of logic servers, the login to a plain connection
server, crash and restart of both kinds. The look-up and the registration of a login are two
steps, and a broken session is closed on its own loop: an old and a new session of one logic
server overlap. Pings are replaced by "a connection may break at any time"; a connection
that does not ping is broken in the end by the idle limit of 10 s. A connection server that
is up may be in etcd or not, and leaves it only when it is down (`Expire`): that its key does
not expire before that is `KeyStays` of `EtcdLease`, under the condition stated there on
the requests that fail. If it did, the logic servers would only find the server later.

### ProtoMessages, ProtoReading and ProtoObject

protoc generates the same loop and the same passes for every message class; only the table
of fields differs. `ProtoMessages` has a table for each class and, once, over any table,
`Clear`, `MergeFrom`, `ByteSize` and `Serialize` (SerializeWithCachedSizes); `ProtoReading`
has `Parse` (MergePartialFromCodedStream). Both have the routines of the runtime they call:
varints, sign extension, packed numbers, length-delimited fields, unknown fields. A message
is a function from field names to values, an encoding a sequence of octets. Proto3 default
values are not written. Reading is a module of its own: `Streams`, which sends messages,
extends the writing only. A loop of the code is a function from the number of its turns to
where it stands (`Turns`, `ReadPacked`). A message that is a field of another is read where it
stands; as the only such class, `EtcdAddr`, has none of its own, `Nested` is one function and
not a recursion over classes. `ParseFromArray` takes the length as an `int`, so that what is
said of reading is said of lengths that fit (`Fits`); lengths are never bounded otherwise.
The reader checks every string field for UTF-8 (`VerifyUtf8String`, a recogniser of the well-formed sequences) and refuses the whole message
when one is not; setters and the writer take any octets, with a line in the log.

`ProtoObject` is one object of a class, driven through its methods in any order (set, clear
a field, add an element, merge, copy, clear), beside a second object it is merged with and
copied from. `Foreign` writes the object as another implementation may: fields in another order,
repeated numbers one by one, defaults in full, unknown fields of every wire type between. The
strings of the objects are UTF-8; `StrayRefused` gives each of them octets that are not
(`Strays`).

### Framing and Streams

`Framing` has one turn of the loop in `onMsg`, for each of the three kinds of session, as a
function of the session's state and the octets that are not consumed yet: the
length-prefixed packets of `Common`, the Cellnet frames of logic servers and the websocket
frames of browsers, with the handshake, the fragments and the asserts. Every field of a head
is one octet, whatever its width: a parser reads a head only when all of it has arrived.

`Streams` is a connection. Its senders write packets behind one another on `stream`: `sendPB`
with its two paths, and a browser that sends its request, packets in one frame or in two, and
pings between any two frames. The network lets any number of octets arrive at a time
(`Receive`), and the receiver takes turns until one consumes nothing (`onMsg`); senders may
write between two turns. `arrived` and `done` say how far the stream has been received and
consumed. The turn that would follow a handshake in the model finds nothing to read, as the
handshake consumes all that has arrived.

`sent` is a history: for each write where it ends, the packets that `procPacket` owes the
sender up to there, and whether a message in two frames among them spoils what follows. Its
parts stay in `mCacheFrame`, so it is lost, and the next whole packet with it (`FragmentCosts`
says that no more is). Three things take the receiver out of step for good and are recorded
in `broken`: a length that wraps in 16 bits; a handshake whose key arrives before the rest of the request, since `onMsg` consumes the
request only as far as it has arrived; and the second part of a message that happens to
announce a packet longer than itself, which together with the next packet may pass for one.
The first two are defects of the code that happen to every such length and every such cut; what
the receiver takes for frames after them is up to the octets that follow, and nothing is said
of that connection. `HandedOver` is stated for a connection without these and without a
message in several frames, `AssertsHold` says that nothing else makes an assert fail.

`onMsg` of the length-prefixed and of the websocket session cuts the number of octets that wait
to `PACKET_LEN_TYPE` (`Seen`, `PacketLenMod`): with more waiting than it counts a packet that is
there may be overlooked until still more arrives (`Overrun`).

The body of a Cellnet packet is what `SerializeToString` makes of the message; that it reads
back as the message is `RoundTrip` of `ProtoObject`. `ContentsAssumption` says that what
`sendPB` is given is an object of a generated class, which its C++ type guarantees; that such
an object is written as octets, and as many as `ByteSize` says, is proved in `ProtoProofs`.

### RuntimeId

The connection servers, their counters, clocks and maps of clients. A client's ID is the
server's number and the counter, both cut to 16 bits, and the second. Its loop takes a count
(`Count`), reads the time (`Stamp`) and adds the client to the map (`Add`), three steps that
the other loops, the clock (`Tick`), a restart (`Restart`, which starts the counter again, in
the same second or later) and the timers of clients that left (`Erase`) may separate. Nothing
limits how many clients enter in a second, and numbers of servers may agree in 16 bits. `Add`
replaces a client under the same ID, as a build with NDEBUG does; one without stops at the
assert of `AddClientByRuntimeID`, so that its states are among these. The histories `nth` and
`second` of a client say when it counted and when its ID was made.

### EtcdLease

The loop of `main`: ask the endpoints one after the other to set the key, until one answers
with a body, then sleep. `age` counts the time since the key was set, `Pass(d)` lets time
pass, no longer than the process stays where it is (`Limit`). Each request
may be answered or not, so any number of endpoints may fail, all of them in a round too, and
the process then sleeps without having set the key. `failed` and `slept` count the requests in
vain and the sleeps since the key was set; `KeyStays` says that the key is there as long as
these have not used up its lifetime. With the 15 s, 5 s and 5 s of the code, and answers within
2 s, that is one endpoint in front that fails; with two, or none that answers, the key of a
running server may expire. How long an answer takes is not in the code (`Answer`); no
assumption relates the times.

### MC modules

`MCWSConnectionServer`, `MCNet2LogicQueue`, `MCCenterLink` and `MCConnectionLink` give the
constants of one module values. `MCWSScenarios` has two scenarios of the first for
`ws_safety`, chosen in the initial state: "traffic", in which each server logs in once as
what it is and everyone sends; and "registry", in which the servers log in as anything, twice, and nobody sends.

`ProtoObject`, `Streams`, `RuntimeId` and `EtcdLease` share no variable. `MCParts` puts them
side by side: `part` is chosen in the initial state, and only that part moves. `MCLinks` does
the same for `ConnectionLink` and `CenterLink`, with the fairness of each while it runs;
`ConnectedAgain` and `CenterComesBack` are `ServerIsConnected` and `LinkComesBack` of the two.

## Runs

| Run | Instance | Shows |
|---|---|---|
| `ws_safety` | traffic: a client with 2 packets and a slave with 1 order on one loop, a primary with 2 orders on another; registry: two servers, 2 logins each as any kind with any of 2 IDs | `TypeOK`, `RegisteredServerIsLive`, `BoundToItsKind`, `AcceptedServerIsRegistered`, `DisconnectReachesServers`, `ForwardedOnce`, `DownstreamInOrder` |
| `ws_liveness` | 1 client, 2 primaries under one ID | `ClosedIsForgotten`, `KickedWithPrimary` |
| `ws_drop`, `ws_claim`, `ws_broadcast` | 1 client, 1 or 2 primaries | three findings |
| `ws_samelogin` | 2 primaries under one ID | a finding |
| `net2logic` | 2 sessions on 2 network threads, 2 packets | `TypeOK`, `HandledInOrder`, `DestroyedAfterClose`, `ImplementsLogicQueue`, `ClosedIsDestroyed` |
| `net2logic_thread` | the same | a finding |
| `center_safety` | 2 logic servers with the same ID, 3 connections, 1 call each | `TypeOK`, `SelfIdIsRegistered`, `OneLink`, `PointerIsOpen`, `RepliesMatchCalls` |
| `links` | 1 logic server, 1 connection server, 3 connections, 2 connect threads; 1 logic server, the center, 3 connections | `TypeOK`, `LoginFindsNoEntry`, `OneLogin`, `ConnectedAgain`, `CenterComesBack` |
| `connection_usable` | the first of these | a finding |
| `parts`, object | each class, fields of up to 2 elements, a second object empty or full | `RoundTrip`, `ConcatenationMerges`, `ForeignUnderstood`, `CutNeverInvents`, `StrayRefused` |
| `parts`, stream | each format, with and without asserts, 3 packets (5 writes of a browser) | `HandedOver`, `FragmentCosts`, `AssertsHold` |
| `parts`, id | 2 servers, a counter of 2 values, 4 clients, 2 seconds, a restart of each | `IdTypeOK`, `SharedRuntimeID`, `PresentIsFound` |
| `parts`, lease | TTL 15, sleep 5, timeout 5, answer 2, 3 endpoints, up to 3 failures and 3 rounds | `KeyStays` |

**Bounds.** The races of the WebSocket server are between one client's loop and one or two
servers' loops: clients share nothing but the registries and the map of clients, which the
steps of one client already see in every state the servers can bring about. `PacketLimit` 2
gives a claiming packet and one after it (a reconnect must be the first packet);
`OrderLimit` 2 of the primary gives an order and a later one that must not overtake it. The
slave has the ID of the primary, as the two maps must be told apart. The slave shares the
client's loop, so that it writes to the client at once while the primary's packets wait; two
logins each let a session leave an entry behind and race with the other for one. In `net2logic` two
threads are needed for a sync that finds the shared list filled by another; two packets for
order. Two logic servers with one ID are the case in which registrations can hurt each
other; three connections are an old one still closing at the center, a new one, and one of
the other server. A connection whose ends are both gone is reused, so that restarts and
reconnections are unbounded in number. `ThreadLimit` 2 is what it takes for two connect
threads to race for one server. The runs of the WebSocket server do not check for deadlock:
the bounded clients and servers do stop, and a crashed process has no steps. `parts` does not
either, as its packets, fields and seconds are bounded. All others do.

In `parts` numbers are scaled so that every case is small: `Narrow` 1024 and `Wide` 131072
stand for 2^32 and 2^64, so that a varint takes up to three octets and the last one of a wide
number is only partly used; the samples have the largest numbers of one and two octets, the
top of each width, negative ones, and bytes that look like a tag or an unfinished varint.
`LenMod` 24 and `SerialMod` 3 stand for 2^16: a message with 18 octets of data wraps the length,
the third packet wraps the serial number. `StackSize` 11 stands for 8 KiB, between the sizes of two of
the messages sent. Three packets give one after a lost or fragmented one and one to show that
order is kept; five writes of a browser are its request, a message in two frames, the one it
spoils and one more. `MaxPings` 1 and `MaxWhole` 4 (writes, when no message
comes in two frames) only keep the number of states down. `PacketLenMod` 11 stands for the
width of `PACKET_LEN_TYPE`, so that two packets waiting are more than it counts. `MCStrays` has a character cut short, an octet of none, an
overlong form, a surrogate and a number beyond the last character. A counter of two values
makes the third client of a second share the ID of the first; three of the four clients may be
of one server. The lease has the numbers of the code, and three failures or rounds are more
than the lifetime bears.

**Symmetry** is used only in `center_safety`, which checks invariants only.

**Fairness** is weak fairness of what a thread does by itself: event loops run their pushed
closures and timers, a posted close takes effect, logic threads handle their messages,
connect threads and the etcd thread end. Input is never fair: no client has to send, no
server to log in, nothing has to break, no crashed process has to start again. In
`ConnectionLink` the idle limit is enforced, as `WrapAddNetSession` is given 10000 ms.

**Findings** (quoted in full in `PROJECT.json`):

1. `ws_drop` – the packet that makes its client claim a primary is dropped.
2. `ws_claim` – a packet between the two stores of `setPrimaryServerID` makes the client
   claim another primary, which replaces the one it reconnected to.
3. `ws_broadcast` – null entries in the registries are dereferenced by the loops over all
   servers.
4. `net2logic_thread` – the destructor of a logic session may run on a network thread, and
   that of `CenterServerConnection` uses the logic thread's timers.
5. `connection_usable` – a restarted logic server whose old session is still registered is
   refused and never logs in again.
6. `ws_samelogin` – two sessions that log in under one ID at the same time are both accepted.

Other defects are within what the properties say rather than findings of their own: a handshake
cut behind its key and a length beyond 16 bits (`broken` in `Streams`), a message in two frames
(`FragmentCosts`), a shared runtime ID (`SharedRuntimeID`), a key that expires (`KeyStays`).
"hazards" in `PROJECT.json` has each at its line.

## Proofs

`WSConnectionServerProofs` proves, for all values of the constants that satisfy
`ConstantsAssumption` (distinct null values; bounds are natural numbers; any logins, and any
assignment of sessions to loops), seven theorems of the form `Spec => []Inv`:

* `TypeCorrect` – `TypeOK`. Inductive by itself, one step per action.
* `RegistryCorrect` – `RegisteredServerIsLive`. The inductive invariant `RegistryInv` says where
  a login and a close are (`LoginOf`): a session in the middle of a login is up, one that kicks
  still has its `mID`, and what its members name is among what it was accepted as. `EntryOf`
  adds that a session is registered only under that. Without both, nothing says that what
  `onClose` removes, found by `mID` and `mIsPrimary` alone, is the session's own and all of it
  if it logged in once.
* `AcceptedCorrect` – `AcceptedServerIsRegistered`, whoever else logs in under the same ID.
  `HeldInv` speaks of what a session `Holds`: what its members name, or what it was just added
  under. The null entries of `Find` never replace a session, and another session's close
  removes what that session holds; two hold one pair only if one overwrote the other.
* `BoundCorrect` – `BoundToItsKind`. `BindInv` follows the pointer from the registry through
  the locals `found` and `server` of the loops to `mPrimaryServer` and `mSlaveServer`; what it
  keeps is that the session was accepted as such (`Was`), as it may be something else by then.
* `DisconnectCorrect` – `DisconnectReachesServers`. `NotifyInv` says of a timer's
  notification which pointers it has passed already (`Passed`), and that the server bound
  in time under each of those has been told; the steps of the other loops keep it because
  `toServer` only grows and a pointer stored after the timer fired is not "in time".
* `ForwardCorrect` – `ForwardedOnce`. `HandledInv` says that a message in any server's queue
  carries a packet whose handler is through with it. The handler of a packet posts in its last
  step, and the count of packets only grows, so no two steps post the same packet, whatever
  other loops store in the client's pointers between them.
* `OrderCorrect` – `DownstreamInOrder`. What is on the socket says nothing of the closures
  still to run: `OrderInv` adds that the closures of one server pushed to a client's loop are
  in the order of its orders, behind what was written, none is newer than its last order, and
  none is of a server on the client's own loop, whose packets are written at once.

`Net2LogicQueueProofs` proves, for any sets of sessions and threads, any assignment of
sessions to threads and any number of packets (`ConstantsAssumption`, and that `NoMsg` is no
message):

* `TypeCorrect` – `TypeOK`. `TypeInv` adds that the logic thread calls with a message in hand.
* `RefinesLogicQueue` – the initial states of `Net2LogicQueue` are initial states of
  `LogicQueue` under the refinement mapping, and each step is a `Report` (the three pushes),
  a `Handle` (the call) or a stutter (moving messages from list to list, and all the rest).
  That the logic thread does handle what is pending, the fairness of `LogicQueue`, is left
  to TLC (`ImplementsLogicQueue`).
* `OrderCorrect` – `HandledInOrder`, and `DestroyCorrect` – `DestroyedAfterClose`. Both rest
  on `WholeInv`, which speaks of `Whole`, the messages handled followed by those pending:
  by the refinement only a push changes it. `Ordered` is `HandledInOrder` of all of `Whole`;
  `Fits` relates each message to the connection that pushed it, so that a new one may
  follow; `ClosePushed` says that a closed connection has pushed its close. A session that
  nothing holds is in no list and not in hand, so its close is among the messages handled.

`CenterLinkProofs` proves, for any servers, connections, IDs and number of calls:

* `TypeCorrect` – `TypeOK`; messages keep their types through the prefixes a broken
  connection leaves.
* `OneLinkCorrect` – `OneLink`. `LinkInv` counts everything that is or will become a server's
  connection, also for a process that is down; every step moves one token or none.
* `PointerCorrect` – `PointerIsOpen`, from the same: with a second connection the close of one
  would reset the pointer to the other, or leave it on a closed one.
* `NameCorrect` – `SelfIdIsRegistered`. `NameInv` follows an ID from the center's registry to
  the session's `mID`, to the answer on its way and to `mSelfID`.
* `CallsCorrect` – `RepliesMatchCalls`. `CallInv` follows a call over its connection: on its
  way, kept by a handler that answers later, or answered. While the logic server's end is open
  it waits for each of these, and a call is in one of the three places only and there only
  once. Without that, a reply could remove the call that a second reply on its way answers.

`ConnectionLinkProofs` proves, for any servers, connections and connect threads:

* `TypeCorrect` – `TypeOK`, with `HasEnds`: a connection that one end has not done with has an
  owner and a target.
* `OneLoginCorrect` – `OneLogin` – and `NoEntryCorrect` – `LoginFindsNoEntry`. `LoginInv` says
  that the one login of a connection is in one place only, on its way, being registered,
  being answered or answered, and `TableInv` that the table has a connection under the ID
  it was told. Without the first, a second answer could enter a connection in the table again.

`StreamsProofs` proves `FragmentCostsCorrect` (`FragmentCosts`), from it `HandedOverCorrect`
(`HandedOver`), and `AssertsCorrect` (`AssertsHold`), for any packets and messages of any length, any widths of the length and the serial number,
any number of writes and any way the octets arrive. First come lemmas about one turn of each
parser: what it makes of octets that begin with a whole packet or frame, and that it waits
for the rest of one that is cut. Then the invariant `StreamInv`, which holds unless the
receiver was taken out of step: each write has put one packet or frame on the stream behind
the others, with the serial numbers in sequence (`SenderInv`), and the receiver stands where a
write ends, has handed over what is owed up to there, expects the next serial number, and has
in its cache nothing, or the rest of a message that cannot pass for a packet together with
what follows (`ReceiverInv`). Neither property is inductive: both compare the end results, and
say nothing of where in the stream the next turn begins. When `onMsg` has returned, the next
write is not there as a whole, or it is a ping, which a parser that waits for the overhead of
a packet leaves until more arrives (`Settled`).

`ClockProofs` proves of `RuntimeId` `IdTypeCorrect` (`IdTypeOK`), `SharedCorrect`
(`SharedRuntimeID`) and `FoundCorrect` (`PresentIsFound`) for any servers and widths. The
inductive invariant `IdInv` says that a client's count is the number of those that entered its
process before (`CountersAgree`, `CountedInv`), that no two have one (`OneEach`), and that a
client that is not in the map was replaced or erased by one of the same key (`FoundInv`): the
rest is that numbers which agree modulo `IncMod` and differ are that far apart (`ModEqual`). Of
`EtcdLease` it proves `KeyCorrect` (`KeyStays`) for all times and numbers of endpoints.
`LeaseInv` bounds the age of the key at each point of the loop by the answer, the sleeps and
requests in vain until then (`Lost`) and the time since the present one began.

`ProtoProofs` and `ProtoObjectProofs` prove the four properties of the message classes,
`AlwaysRoundTrip`, `AlwaysConcatenationMerges`, `AlwaysForeignUnderstood` and
`AlwaysCutNeverInvents`, and `AlwaysObjects`, the type invariant they rest on: both objects are
objects of their class. They hold for all twelve classes, any number of elements, strings of
UTF-8 of any length and all numbers of any widths that satisfy `WidthAssumption` (even, the wide one a
multiple of the narrow one, which has at least 256 values; 2^32 and 2^64 do).
`SamplesAssumption` asks of the values given to fields only that they have the fields' types
and are not all the default. The lemmas speak of any table of the
kinds of fields these classes have (`GoodTable`: numbers and names are unique, a tag is one
octet), and each of the twelve is one.

* *Induction.* These proofs are about recursive functions: over numbers (`Varint`), octets
  (`Number`), the turns of a loop (`Turns`, `ReadPacked`) and the elements of a sequence
  (`FlattenSeq`, `Total`). The library's rules of induction take a predicate as a parameter,
  which the prover cannot instantiate, but that `<` is well founded on the naturals and
  that a set has a minimal element are theorems without one. From these come
  `LeastNumber`, then `NumberInduction` and `StepInduction` over the *set* of numbers for which
  a statement holds, and `Recursion`: there is a function that satisfies a recursive
  definition, as what it calls itself with is less.
* *Writing.* `Joins(g, n, pieces)` says that `g[k]` is the first `k` pieces one after the
  other; what is written of packed numbers, of addresses and of an object is put in this form,
  with `Sums` of their lengths beside it. `ByteSizeWritten` compares the two sums field by
  field, a packed run with the length in front of it.
* *Reading.* `Sits(octets, at, s)`: `s` is there in full from `at`; `Torn(octets, at, s)`: the
  octets end before it does. A varint, a number, a delimited run and then a tag with what
  belongs to it read as what was written when they sit there, and fail when they are torn
  behind their tag. `Stands(octets, turns, x, at)` says that the loop comes to `at` with the
  object `x`, and lemmas such as `FieldThere` move it over one field.
* *Objects.* `FieldsThere` is the invariant of the loop over an object: after `j` pieces the
  fields of those are merged and all others untouched (`Mixed`), whatever the order of the
  pieces. Round trip, concatenation and a foreign peer are the same lemma: read into a cleared
  object, into the first object, and with the fields reversed and unknown ones in front of
  some (`InFrontOf`, `UnknownPassed`). For a cut, the last piece that begins before it is torn
  or whole (`CutIsTorn`), and the loop stops with an error or with that field partly read.

Only model-checked: liveness, which includes the fairness half of `ImplementsLogicQueue`.
Liveness under fairness and `ENABLED` are beyond the prover. Of the invariants of the passing
runs all but `StrayRefused` are proved.

## Not modelled

* **The client sessions of the plain connection server.** A client that gets a primary
  claims it and calls `sendPacket` on the null `mSlaveServer` in the handler of one packet
  (`ClientSession.cpp:113-142`, the branches for slave and primary are swapped). The process
  ends before any client is served, and no property of a served client has a state to be
  about. `WSConnectionServer` is the newer form of the same code.
* **The client mirrors of the logic server.** A mirror is made by INIT_CLIENTMIRROR, which
  `claimRuntimeID` sends to what `FindPrimaryLogicServer(-1)` returns (`ClientSession.cpp:65`):
  always null, as `mPrimaryServerID` is still -1. With the connection server of the
  repository no mirror is ever made, and packets to clients, set-slave and kick, which need
  one, are not sent.
* **What passes through and leaves no state**: user messages and packets to clients through
  the center, pings.
* **Parts of the generated code**: `Swap`, arenas, reflection, groups, the log line for a
  string that is not UTF-8.
* **The network library**: timers, sockets, the inside of a websocket frame, SHA1, and what
  `BasePacketWriter` does when a packet does not fit its buffer. Not in the repository.
* Time, other than in `EtcdLease` and `RuntimeId`: idle limits and delays are events that may
  or must happen.
* Logging, configuration, JSON, console input and an orderly shutdown.
