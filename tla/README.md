# MOSSS: models and proofs

TLA+ modules, TLC configurations and TLAPS proofs about MOSSS (also called
CLAMS), a Minecraft server library in C++. Paths below are relative to the
repository. Everything the models say was read off the source; documentation
and comments serve only to state what is expected of the code.

## The system

| component | source | state it keeps | operations | module |
|---|---|---|---|---|
| receive path of a connection | `src/network/connection.cpp`, `src/network/readbuffer.cpp`, the loop of `src/network/worker.cpp` | `primary`, `write_cursor`, `bytes_allowed`, `process_events`, `iv[2]`, `packet_length`, `sizeof_length` | `resolve_length`, `transition_to_secondary`, `copy_to_buffer`, `ready`, `reset`, `feed`, `make_secondary` | `Framing` |
| reading a packet | `src/network/readbuffer.cpp`, and the reads of the handlers in `worker.cpp` | `pos`, `packet_length`, `sizeof_packet_length`, `cursor`, `cursor_index` | `read_length`, `read_char`, `read_varint`, `read_ushort`, `read_ulong`, `read_string`, `read_across_buffers`, `next_cursor` | `ReadBuffer`, `Varint` |
| protocol session | handlers and tables of `src/network/worker.cpp`, `init_player` and the senders of `connection.cpp` | `state`, `handle` | one handler per packet | `Session` |
| a whole connection | the loop of `worker.cpp` around both | the two above | receive, dispatch, reset | `Connection` |
| write buffer and send path | `src/network/writebuffer.cpp`, `Connection::write_wbuf` and the functions `send_*` of `connection.cpp` | `buf`, `sector_start`, `cursor`, `_iov`, `iov_cursor`, `packet_length` | the copied writes, `write_bytes`, `flush_buffer`, `iov`, `reset`, `write_wbuf`, the six senders that are called | `WritePath`, `Senders`, `Varint` |
| threads, connection registry, start and stop | `src/server.cpp`, `src/network/tcpserver.cpp`, `NetworkWorker`, `example/main.cpp` | `running`, `server_fd`, `connections`, `workers`, three threads and a signal handler, the epoll interest list | `server_start`, `server_stop`, `tcp_init`, `tcp_start`, `tcp_stop`, `accept_connections`, `connect`, `disconnect`, `disconnect_all`, `listen`, `~NetworkWorker` | `Server`, `ServerLife` |
| tick scheduler | `loop` and `sleep` of `src/server.cpp` | `base_time`, `ticks` | tick, sleep, catch up, start over | `TickLoop` |
| chunk requests | `src/world/chunk_cache.cpp` | none | `request_chunks` | not modelled |
| entities, math, world data, logger, public key | `src/entity`, `src/math`, `src/world`, `src/loggerimpl.cpp`, `make_public_key` | plain data | constructors, getters, output | not modelled |

How they interact. The acceptor thread (`accept_connections`) takes a client,
makes a `Connection`, adds its socket to the epoll instance of the one
`NetworkWorker` and pushes the pointer to the global vector `connections`. The
worker thread waits in `epoll_wait`, and for each event calls
`conn->process_events(conn)`: the receive path takes what the socket has and
cuts it into packets. When `ready()` says that a packet is complete, the
session's handler for (state, packet id) runs on the same thread: it reads the
packet's values out of one or two buffers, may change the state and reply
through the write path, and `reset()` prepares for the next packet. A hang-up or
an exception makes the worker `disconnect` the connection: out of the vector,
deleted, its socket closed. The main thread runs the tick loop. `server_stop`
runs on the chat thread ("stop" on the console) or in a signal handler on the
main thread: it clears `running`, shuts the listening socket, deletes every
connection in the vector, deletes the workers (joining their threads) and joins
the acceptor.

What is hard in it:

* **Interleaving.** Four threads of control use `connections`, the heap and
  `workers`, and only `running` is atomic. Pointers travel through epoll: an
  event may be older than the object it points to is alive.
* **Cutting the stream.** TCP delivers any number of bytes. The code has three
  states for receiving and several cases in which a read brings too much, too
  little or exactly enough.
* **Values across two buffers.** A packet longer than primary lies in two
  pieces, cut at any byte, also inside a string's length or a number.
* **States on both sides.** The session's packets do not say which state they
  belong to, and both sides change state while packets are under way. Two
  packets (the handshake and `login_acknowledged`) have no answer, so that no
  client can know when they were handled.
* **Partial writes.** `writev` on a nonblocking socket takes any part of a
  packet, drops the rest of it, or kills the process when the client has reset the
  connection; iovec entries point into a buffer that may be reallocated.
* **Refused calls.** `epoll_create1`, `epoll_ctl`, `eventfd`, `accept` and `epoll_wait`
  may fail, and the code goes on.
* **Time.** The tick loop has to be neither early nor, after a delay, too fast.

`PROJECT.json` lists the hazards one by one with the properties about them.

## The modules

    PacketStream <-- Framing <-- Connection --> Session        Varint <-- ReadBuffer
         ^ refined by  |
         +-------------+         ServerLife <-- Server         WritePath <-- Senders         TickLoop

An arrow points to the module that the other one extends or instantiates. `FramingProof`,
`ServerProof`, `SessionProof`, `WriteProof`, `ReadProof` and `TickProof` extend `Framing`, `Server`,
`Connection`, `Senders`, `ReadBuffer` and `TickLoop`, and `WireProof` extends `WriteProof`;
`LeastNumber` holds the induction that `WireProof` and `ReadProof` use. `MCFraming`,
`MCReadBuffer` and `MCServer` give the constants of the runs that cannot be written in a
configuration.

`PacketStream` is what a client may expect: packets are handled once each, in
order, and none before it has been written completely.

`Framing` is one connection's receive path. A byte is its position in the
stream that the client writes, so that a buffer is the position of its first
byte (`base`) and the offsets of the code's pointers: `wpos` is `iv[0].end`,
`rpos` is `iv[0].buf`, `hdr` is `sizeof_length`, `len` is `packet_length`,
`allowed` is `bytes_allowed`, `phase` is `process_events`. An action is one
`recv` with everything that follows it up to the question `ready()`, or one
dispatch with the `reset()` that ends it. The client is external: it writes
packets of any sizes, up to `Window` of them ahead of the handlers, and hangs up
when it likes; TCP brings any number of its bytes at a time. When the code takes
bytes in the middle of a packet for a length prefix, what they spell is any
member of `Stray`; and in place of any packet the client may have written a length of
`Stray` that is below 1, which nothing checks (hazard `bad_length`). A packet of no byte
is ready without an id, and the loop reads behind what was received
(`TruncatedRead`); a negative length makes `reset()` copy from in front of primary
(`bad_copy`); and -1 is what `read_length` returns for an incomplete prefix, so that it goes on
behind it (`ResolveMinusOne`, `AfterMinusOne`). A malformed prefix ends the connection (`Malformed`);
in a packet's place it does the same as a client that hangs up there. `pc` = `"freed"` is the
moment between `disconnect` and the call of `ready()` that the loop makes all the same.

`Varint` holds the two loops of the code's variable-length integers, a turn at a
time, with the sizes of the groups as constants, and beside them what a varint
means when all its bytes are looked at together. `ReadBuffer` uses the first and is
checked against the second: a number is written (`WriteByte`), its bytes come in
any portions, `read_length` resumes wherever it had stopped (`ReadLength`), and
then a handler reads the fields of its packet one by one (`ReadField`). A value
is the sequence of the numbers of its bytes, so that "read right" means: these
bytes in this order. `packet.split` is how much of the packet is in primary,
`packet.ahead` what lies behind it there, `packet.bytes` how long it says it is (which may be shorter than its
handler reads). The layouts are those of the handlers that
read. `read_string`, `read_across_buffers` and `next_cursor` are translated with the
order in which the code takes `remaining`, reads and moves on; a byte outside of
what was received is a `fault`.

`Session` is one session with both its sides. The tables `parsers` are the
code's; a packet carries its name only as a history, to tell whether it met its
own handler. Of each reply `writev` takes all, a part or nothing (`Reply`): what it does not take
is dropped, `unsent` keeps a record of it, and a part of one (`"part"`) confuses whoever reads
it. The client is external: it pipelines whatever the protocol lets
it send, repeats itself, sends what it was never asked for, asks for a transfer
or goes on after its ping (`strayed`: the server supports neither).

`Connection` runs a `Session` over a `Framing` (`Path`, an `INSTANCE` with the
client's packets as the stream). `toServer` is what the client has written and the
handlers have not got. `Deliver` lets TCP bring any part of what was written;
`Receive` is a step of the receive path; `Handle` is a `Dispatch` of `Path` together
with the handler of `Session` that gets the packet. When the receive path, after
a read that brought more than one packet, goes on behind the next packet's
beginning, two things can be: it stands at the beginning of a later packet, and the
ones in between are lost to the session (`Lose`, counted in `lost`), or it stands in the
middle of one (`Derailed`), and the model stops, since what the handlers get is not a
packet of the client's. Packets have one length here; the sizes are `Framing`'s subject.

`Server` is every thread. What clients send is abstract (bytes, or the end of
the stream); a handler succeeds, throws, or answers a client that has reset its
connection (`ReplyAfterReset`: SIGPIPE, which nothing handles or ignores).
Operations on the vector take two steps, so that two of them can overlap, which
is a data race (`Race`). `disconnect_all` deletes connection by connection.
`tcp_init` may fail, and where `KernelMayFail` says so, so may `accept` on an open socket, `epoll_wait`,
`epoll_ctl`, `eventfd` and `epoll_create1`. Without an epoll instance (`workers = "no_epoll"`) the
server starts all the same: its worker's thread goes round, no client can be taken in, and
`~NetworkWorker` neither wakes nor joins the thread, whose destruction is `std::terminate()`.

`ServerLife` is what an operator and the clients may expect of all that: the
server comes up once and goes down once, its two threads start in order and have
ended when a stop is over, and a client is let in once, by the acceptor, and let go
once. `Server!ImplementsLife` maps the program counters and the heap to it.

`TickLoop` is the main thread in `loop()` and `sleep()`; the clock moves on by
any amount between any two steps.

`WritePath` is one packet after the other, from the first write to the last
`writev`. Bytes are numbered, so that what the kernel took can be compared with
what was to be sent. Whoever writes may write anything, in any order. `reach` is the entry of the array
at which the loop of `write_wbuf` has stopped: once all of a packet is out that is the one
behind the last, which the code reads and writes, whether or not the array has it. What is found there
was left by a longer packet, or is anything (`ran_off` where it looks finished and sends the loop on).

`Senders` is who does. `Layouts` holds, for every sender that a handler calls, the sequence of
its writes: a value that is copied into the buffer (with its size) or a string that
is only pointed to, behind its length. `Call` begins a packet, `NextWrite` does what the layout
says next, and everything else is `WritePath`'s. One more sender, `"any"`, mixes writes of all
sizes up to `MaxMixed` bytes: what `WritePath` allows and no sender of today does.

**Undefined behaviour** (an access outside a buffer, a bad free, a use after
free, a data race, `erase(end())`, joining a thread that cannot be joined), and what ends the
process (a signal, `std::terminate`), set `fault`, and the model stops there: nothing can
be said of the process afterwards. One exception: the entry behind the iovec array, which every
connection's first packet makes the code read and write back, is recorded in `reach`, and the model goes on as the
code does where that memory is there, since nothing of a send could be said otherwise. The properties say under which conditions a
fault cannot happen, and what each fault needs. Nothing is proved about the
process after a fault.

Operators whose comment begins with "Mutation" are variants of the definition
that follows them, with a plausible mistake in it. No specification uses them:
they document that the property named in `PROJECT.json` would notice.

## The runs

Passing runs:

* `framing_mixed` (`PrimarySize` 4, a client one packet ahead, so two on the wire,
  427,000 states). One packet a byte short of primary, an exact fit, one a byte longer than primary, one that
  takes several reads of the secondary buffer, with prefixes of one and two bytes; and in place of
  each of them a length of 0, -1, -2 or -3. Shows that the handlers get
  exactly the client's packets, and nothing that has arrived stays in the buffers while the
  worker waits, until one of four patterns is met
  (`read_ahead`, `first_read_fills`, `short_fill`, `bad_length`); which pattern each fault
  needs (`FaultsNeedPattern`); that no pattern comes of the network alone, each taking a client that writes ahead, a
  packet longer than primary or a bad length (`HazardsNeedClient`), so that a client in lock step with
  short, well-formed packets never meets one; that up to the first pattern `Framing` implements `PacketStream`; that a read
  that ends at the end of a packet is the last one for it; and that each packet that has arrived is handled
  unless a pattern was met, a long packet had a bad pointer freed, or the client resets the
  connection. Four bytes are enough: the code compares only sums of
  offsets with the size of primary, and the sizes on both sides of each comparison
  occur, as do lengths below, at and above minus the size of a prefix.
* `server_threads` (two clients, `MaxEvents` 2, failing kernel calls, fair threads,
  1.36 million states). The vector and the heap agree between operations (`VectorExact`), the worker's
  memory outlives its thread and whoever a stop waits for can move (`JoinsEnd`). A running server meets three faults and
  no other: a race of `push_back` with `erase`, which takes a client that hung up or made its handler throw;
  `SIGPIPE`, which takes one that hung up; and `erase(end())`, which takes a failing `epoll_ctl` (or no epoll instance) or a
  client that is gone before it was pushed. It touches no deleted connection. In a stop on the console nothing is
  deleted or joined twice, and `std::terminate` takes a failed `epoll_create1`
  (`FaultsNeedCause`, of all of these). A server that nobody has connected to reaches a fault only in that last way, or by a
  signal that stops it too early or once more (`QuietStopSafe`). The threads implement `ServerLife`, and a stop on
  the console ends the process, unless `eventfd` failed in `~NetworkWorker` so that
  the join waits for ever, as the code does (`StopFinishes`). Two clients and a batch of
  two are what it takes for one event to be stale because of another.
* `tick_loop` (`TickTime` 2, `CatchUp` 2, clock up to 13). Enough time for the server to fall
  behind twice and to start over twice. The bound `CatchUp + 2` is tight: with
  `CatchUp + 1` TLC finds a burst.
* `session` (`Connection`; the handshake, three more packets sent unasked and both acknowledgements,
  packets of two bytes, two of them in primary, each reply taken whole, in part or not at all; 45,000 states). As long as no
  packet is lost, each one meets its own handler (`HandlersKept`), both sides agree on their states, every reply finds the
  client in its state unless one was cut, and a client that logs in waits for an answer with nothing under way only if
  that one answer (`login_success`, or `finish_config`) was dropped by `writev` (`StatesKept`). A packet is lost only after
  one `recv()` returned bytes of two, until when each is handled whole; and a client that
  never writes before its last packet was handled loses none (`PatientClientSafe`). One that loses none is taken from login to play
  unless its answer was dropped (`LoginAdvances`): a status, a brand or a list of features that was not
  written holds nobody up. A login takes two of the three unasked packets; one is left to be
  in the wrong place, repeated or one too many. Two packets in primary are what a read ahead needs.
* `readbuffer` (groups of 3 bits, two of them and a last byte of 2 bits; numbers from -2
  to 127; six byte values in every prefix of four bytes, in every portioning; every
  packet a handler reads, split at every byte, up to two bytes of the next packet behind
  it, up to one byte too short; the numbers from -2 to 127 include negative ones, which are written for ever). What is written is read back and fits its array
  (`VarintFits`, `RoundTrip`); `read_length` answers exactly when the prefix is complete
  (`LengthExact`); every value consists of its own bytes in their order, unless it is a number
  that lies across the buffers (`ValuesExact`; see `readbuffer_numbers`); the next value is found where it
  begins (`ReadsInStep`); and a read leaves the buffers only where a field does not end within its
  packet or a string lies across the buffers or begins with the second (`FaultHasCause`). The last byte is narrower than a group, as the
  code's is (4 bits of 7), and the packets are long enough for each field to be cut inside, before
  and behind.
* `write_path` (`Senders`; `Headroom` 2, `Capacity` 4, `Extra` 8, `Radix` 4, two packets of up
  to 14 bytes, mixes of up to 5). What the kernel takes is the packet, exactly, behind its length
  (`WireExact`). No write leaves the array of entries, nor the length the room for it; `write_wbuf` does leave the
  array, by the entry behind the last one and once the packet is out, and goes further only over an empty
  entry that it finds there (`ArrayLeftAtEnd`). On the first packet of a connection it always does, since the array has
  just as many entries as the packet (`FirstPacketLeavesArray`). No entry points into a buffer that was given back, as long as a packet copies no more
  than the first buffer holds or is a packet of one of the senders (`EntriesLive`); a
  sender that was called returns, if no fault ends the model (`SendersReturn`). The sizes are a quarter of the code's: a UUID
  is as long as the first buffer (16 bytes in 16) and so does not fit behind the packet's id, `EXTRA_CAPACITY`
  is twice that (32), prefixes have one byte and two. Names of 0, 1 and 5 bytes are an empty one, which has
  no entry, a short one and one whose length has two bytes. The mixes outgrow the buffer
  before and after their first string, and the second packet meets the arrays of the first. If
  `send_login_success` wrote the name before the UUID, the buffer would grow under an
  entry; the mutant of `EntriesLive` does just that.

Runs that end in a violation, each about a sentence of the code's own comments:

* `framing_readahead`: bytes of the next packets are copied back "so parsing can
  continue correctly with the next packet" (`connection.cpp:103`). The next packet's
  prefix is among the copied bytes, and `feed(primary + overflow)` starts behind them.
* `framing_firstread`: ready means that the connection "has copied all the data from the
  OS" (`worker.cpp:492`). A first read that fills primary makes `bytes_allowed` 0.
* `framing_afterfree`: after a disconnect `ready()` "will always fail"
  (`worker.cpp:489`). It reads a deleted object.
* `server_leftover`: `tcp_stop` is to "disconnect all current clients"
  (`tcpserver.cpp:234`). One that is just being accepted stays.

* `readbuffer_numbers`: midway between the buffers the bytes are to be copied "byte by byte in the right
  order" (`readbuffer.cpp:162`). A number that lies across them is not swapped, and comes out reversed.
* `readbuffer_bounds`: `BufferOverflowException` is "Thrown when you try to read completely out of the bounds of
  the buffers" (`readbuffer.hpp:16`). A read that begins behind the last byte received follows the pointer of a buffer
  that was never fed, or of one behind the array of two.

What else the models met, which no sentence of the repository contradicts: a client that
pipelines its handshake and its login can lose the second packet; a short read in
`transition_to_secondary` leaves `bytes_allowed` as it was, so that the next one can write behind primary; a string across the
buffers is taken with a `remaining` from before its length was read (`readbuffer.cpp:222`); a length below 1 is taken as
it is; `write_wbuf` reads and writes the entry behind its array; a reply the socket has no room for is dropped while
the client waits for it; and a server whose `epoll_create1` failed starts, and ends in `std::terminate`.

Deadlock is not checked where the system may really stop: a client may stop sending,
a stopped server ends, a bounded clock or packet count runs out, and a fault ends
the model. Bounds: `NumPackets`, `Window`, `Stray` (Framing), `Clients`, `MaxEvents`
(Server; each client connects once), `MaxTime` (TickLoop), `MaxPackets` (Session and
Connection, unasked packets), `MaxPacket`, `MaxPackets` (WritePath), `MaxMixed`,
`NameSizes` (Senders), `MaxAhead`,
`MaxShort` and the sizes of fields (ReadBuffer).

## Fairness

* `Framing!FairSpec`: weak fairness of the worker. Its loop never blocks while an
  event is ready (epoll is level triggered). Nothing is assumed of the client.
* `Server!FairSpec`: weak fairness of each thread by itself, and of each thread that
  is in `server_stop`, but not of a thread that is blocked: `accept()` and `epoll_wait()` may fail without a reason,
  but no thread that waits in them with nothing to return can count on that. Clients, the operator and signals owe nothing.
* `TickLoop!TickFairSpec`: the clock goes on and the main thread is scheduled.
* `Connection!ConnSpec`: the network delivers what was written, the worker serves what has
  arrived, and the client reads what it was sent. The client's own packets are not
  assumed; `LoginAdvances` is about a packet that was sent.
* `Senders!SendersSpec`: weak fairness of the worker from the call of a sender to its return:
  its own writes, `iov()` and `writev`, which does not block. That `writev` fails is not
  assumed, and nor is that a handler calls a sender.

## The proofs

The inductive invariants below were checked with TLC on the instances above before they
were proved. The proofs assume the named `ASSUME`s of `Framing`, `Server`, `TickLoop`,
`Session`, `Connection`, `WritePath`, `Senders`, `Varint` and `ReadBuffer`, which TLC evaluates in the
runs, and nothing else. Most of them only say what kind of thing a constant is. Three say more, and
the code's numbers meet them:

* `LayoutAssumption` (`Senders`): a UUID is no shorter than what the buffer first holds (16 and 16 bytes), so that
  it never fits behind the packet's id; one that has made the buffer grow fits it, with room for the prefixes
  (16 + 2 * 5 bytes in 16 + 32); and the id and two lengths of strings fit at first.
* `ReadAssumption` (`ReadBuffer`): what is given to `write_varint` is an `int32_t`.
* `PacketAssumption` (`ReadBuffer`): so is the length of a packet.

Every invariant and action property of a passing run is proved.

`FramingProof` proves about `Framing`, for every buffer size, prefix length, set of
packets, window and set of stray prefixes that `FramingAssumption` admits:

* `TypeCorrect`, `RecvAlwaysAsks`, `PrimaryStaysContiguous`, from the inductive
  invariant `BasicInv == TypeOK /\ CursorInv`. `CursorInv` holds of all clients, also of those that write lengths
  below 1: it says how `bytes_allowed` depends on the phase, that a negative one counts the bytes
  behind the packet, and that primary holds a contiguous part of the stream.
* `PacketsExact` (`ExactUnlessHazard`), from `ExactInv`, which adds `CutInv`: as long as no
  hazard was met, `base` is where the next packet starts and what is left to read of
  it is `bytes_allowed`. `ExactUnlessHazard` by itself says nothing of the packet
  being received and so is not inductive. Its two halves are `FramesExact`, what the handlers
  got, and `NothingLeft`, that no packet has arrived completely and is still in the buffers when the worker waits.
* `WorkerComesToRest` (`WorkerEnds`): each step of the worker makes `WorkLeft` smaller, twice the bytes
  it has not read and its place in the loop. So it waits again after finitely many, and with
  `NothingLeft` it has then handled all that arrived: what `EveryPacketHandled` says,
  without the word "eventually".
* `HazardsComeFromClients` (`HazardsNeedClient`), an action property, from `ExactInv`: until the first hazard the packet that
  is received is the client's next one, so that a read beyond it takes a byte behind it that has arrived.
* `BufferFaultsNeedPattern` (`FaultsNeedPattern`), from `FaultInv`: as long as nothing was read
  ahead, no fill was short and no length below 1 was met, what may still be read fits behind `wpos` (`RoomInv`), so a write behind
  primary takes one of these; `reset()` copies from in front of primary only once a bad length was met; and a secondary
  buffer there is only after a long packet (`SpillInv`), so freeing a bad one takes that.
* `ReadsStopAtPacketEnd` (`ReadsEndWithPacket`), an action property, from `ExactInv`: what is left to read is what
  is left of the packet.
* `FramingImplementsStream` (`ImplementsStream`): `Spec` implies `Stream!StreamSpec`, for every client up to the first hazard; the mapping
  takes `written` to the packets that have arrived completely and `handled` to
  the packets whose bytes the handlers got before one was met (`clean`). `Dispatch` maps to `Deliver`, `Arrive` to `Write`,
  every other step, and every step after a hazard, to a stutter or a `Write`.

`ServerProof` proves about `Server`, for any set of clients, batch size and kernel, every
safety property of `server_threads`:

* `ServerTypeCorrect` and `VectorHoldsTheLive`, from `SafeInv`. `VectorExact` speaks of the
  vector between operations only; to be inductive it needs what is being pushed and what is
  being deleted in the middle of one (`VectorInv`), that at most one thread is in the middle of
  an operation and which one (`InsideInv`), that the acceptor's client is its own until it is pushed
  (`AcceptorInv`), that while the server runs the worker's events are of live connections
  (`WorkerInv`), and in which order threads start and the flag falls (`StopInv`).
* `RunningFaultsHaveCause` (`FaultsNeedCause`) and `QuietServerStopsSafely` (`QuietStopSafe`). Both speak of what has
  happened already, and are proved of the step that does it: `FaultSteps` lists the actions that set a fault, `RunningStep` says which of
  them a running server can take, `LoneStopJoinsOnce` that a stop without a signal finds the workers and the acceptor as
  `StartInv` and `DownInv` (in `LifeInv`) have them: started once, not yet joined, and without an epoll instance if it ends in
  `std::terminate`.
* `JoinsComeToAnEnd` (`JoinsEnd`): the worker's memory is freed after its thread has ended; and whenever a stop on
  the console waits, for the vector or in a join, the thread it waits for can move or waits for one that can
  (`StopGoesOn`). On top of `ServerInv` this takes `ListenInv`: the socket is made before the chat thread
  and shut down before anything is deleted, so that `accept()` returns. It is what `StopFinishes` says of safety:
  nobody waits in a circle.
* `ServerLivesALife`: `Spec` implies `Life!LifeSpec`, from `LifeInv`, which adds that the server
  goes up and down only once (`StartInv`, `DownInv`) and that no client is in two
  places (`ClientInv`). Every action is mapped to one step of `ServerLife` or to a stutter.

`SessionProof` proves about `Connection`, for any number of packets and any sizes of packet
and buffer: `OwnHandlers` (`HandlersKept`) and `AgreedStates` (`StatesKept`), from
`SessionInv`. That the next packet meets its own handler follows from nothing about the
next packet alone. `ChainInv` says that the packets under way form a chain of states, each beginning
where the one before it ends, from the server's state to the client's; `PlayerInv` that
at most one `login_start` is ever under way and that whatever comes after it implies
the player; `PendingInv` that of a login or a configuration that is not over a packet or an answer is
under way, or the answer was dropped (`unsent`; `LoginsSettle`, the safety half of `LoginAdvances`); `ReplyInv`, for a client that gives its information once, that the answers are
under way one group at a time and the client stays in its state until the last. The
steps of the receive path leave the session alone, and `Lose` ends what is claimed.

`SessionTypes` (`SessionTypeOK`) and `PatientClients` (`PatientClientSafe`) hold of any client, also after packets were
lost, and come from `PathInv`, which is about the receive path under a session. `StreamInv`: no byte is taken
that was not written, and the path never falls back behind the packet whose turn it is. So a packet that `Lose`
steps over had been written, and its queue is not empty. `PhaseInv` gives the offsets for
packets of one length, and `CountInv` that those passed and those in the queue were written. `PatientInv` is what the client
that waits adds: at most one packet is under way, at the front of primary, so that no read goes beyond it.

The modules meet in four more theorems. `PathIsFraming`: the receive path of a connection takes the steps
of `Framing` and no others. With it the theorems of `FramingProof`, taken by `INSTANCE` with the layout of
`Connection`, hold of the path below a session; `PacketsWhole`, the last part of `PatientClientSafe`, is
`PacketsExact` there. `WaitingClients`: a client that waits has every safety property of `Session`,
and `ConnectionIsSession`: its connection, and any other as long as no packet is stepped over,
implements `Session`, every step of the receive path being a stutter.

`WriteProof` proves about `WritePath` and `Senders`, for any sizes of buffer, values, strings and names, any
number of packets and any way `writev` takes them: `MixesFit` and `SendersFit` (`ArrayLeftAtEnd`), `SmallMixesSafe`
and `SmallPacketsLive` (`SmallPacketsSafe`), from `WriteInv`. What they need besides the order of the
offsets (`OffsetInv`) is `FirstInv`: the first entry begins right behind the room for the
length until that is written, and as long as there is no entry, everything that was written lies
in the buffer, so that the last write makes one. Each write, `iov()`, `writev` and `reset` is
a lemma about `WriteInv`, used for mixes and, with the fact that layouts are sequences of writes, for
the senders. The bytes play no part.

`FirstPacketEndsOutside` (`FirstPacketLeavesArray`): every string of a sender comes right behind a value that is copied
(`BehindCopies`, a fact about the layouts), so that the array grows by just the two entries `write_bytes` makes, and the last one
takes the place that there is (`ArrayInv`); so all are taken when `write_wbuf` stops.

`SendersEntriesLive` (`EntriesLive`) is about the packets of the senders, of which two are longer than the buffer first
is. `LayoutInv` follows a layout through: until the last write there is no entry (`EntryLast`); or the UUID is still
to come, and will find the buffer too small or already grown, but no entry yet (`BeforeUuid`); or a string is still
to come, and what is copied before and after it has room (`BeforeText`, `AfterText`). A packet that
has made the buffer grow leaves it large enough for every later one.

`WireProof` proves that what the kernel takes is the packet: `MixesExact` and `PacketsExact` (`WireExact`), and
`WriteTypes` (`WriteTypeOK`), from `WireInv`. While a packet is built (`Filling`) the entries lie one behind the other
in it, the buffer's sector behind them, and each byte in the buffer is the one its place says. While it is sent
(`Leaving`) the entries that are not done begin where what the kernel has taken ends. `Ends` sums the lengths of
the entries; that such sums exist and grow is proved by induction. `SendsComeToAnEnd` (`SendsApproach`) and
`SendsGoOn` are about the loop of `write_wbuf`: each `writev` leaves less of `Unsent`, the bytes and entries
to go, even one that finishes nothing but an empty entry; and whatever number of bytes the kernel takes, they finish
entries and a part of one, so that the loop has a next step. This is what `SendersReturn` says without fairness.

`ReadProof` proves every property of `readbuffer`, for any fields, split, and groups of bits:

* `ValuesAreExact` (`ValuesExact`), `NextFound` (`ReadsInStep`), `FaultsHaveCause` (`FaultHasCause`), from `ReadInv`: between two
  reads the cursor is at the byte where the next field begins, in the buffer that has it (`InStep`). There is one
  lemma for each kind of field, about a read from byte `p` on: what it returns, where it leaves the
  cursor, and when it keeps to what was received. `StringFacts` shows that a string never comes out
  of two buffers: `remaining` is older than the length, and the read leaves what was received first.
* `PrefixFits` (`VarintFits`), `LengthsComeBack` (`RoundTrip`), `LengthsAreExact` (`LengthExact`), from `VarintInv`. It has no
  sums: what is still to be written is the number divided by the weight of what was written, and
  what was written and read so far are its digits (`Spells`). `NextDigit` says what or'ing in one more group does to
  the digits, and `SameDigits` that they determine the number. `Behind` is the one odd state: behind a
  prefix that said -1, `read_length` goes on with the bytes that follow.
* `ReadTypes` (`ReadTypeOK`), from both.

`TickProof` proves about `TickLoop`, for every tick time, catch-up, threshold and
nap unit: `TickTypeCorrect`, `TicksNeverEarly`, `NapsNeverTooLong`, `NextTickNear` from `LoopInv`, and
`BurstsAreBounded` from `BurstInv`. `BurstInv` gives every tick in the history an
account (`Accounted`): either it started a whole `TickTime` before the present
`base_time`, or at most `TickTime * (CatchUp - k)` after the time now due, where `k` counts
the ticks since. The tick `CatchUp + 1` ago must then be a `TickTime` old.

Induction. The prover cannot use an induction theorem that has the claim as a parameter. `LeastNumber` states
induction about sets: `LeastNat` (a set of numbers that is not empty has a least one), `UpTo` (a set that has 0 and,
with each number, the next one has all of them), and `Iterate` (values that are made one from the other exist), which is what it takes
to reason about a function that is defined by recursion. Sums of entries, places of fields, digits and the two reading loops
rest on them. For that the modules define such things with `LET f[i \in 0 .. n] == ...` rather than with
a fold.

Only model-checked: the liveness properties (`LoginAdvances`, `SendersReturn`, `StopFinishes`, `StopLeaves` and `EveryPacketHandled`), because the prover has no fairness and no `ENABLED`. What is safety
in them is proved, but for `StopLeaves`: that the worker and `write_wbuf` take finitely many steps and leave nothing
undone (`PacketsExact`, `WorkerComesToRest`, `SendsComeToAnEnd`, `SendsGoOn`), and that nobody is left to wait for what
will not come (`AgreedStates`, `JoinsComeToAnEnd`).

## Not modelled

* What a value is encoded to or decoded from, apart from length prefixes and the order of
  bytes.
* Lengths so large that `packet_length` and the size of the prefix overflow an `int`, and a secondary buffer
  that cannot be had (`std::bad_alloc`). How far behind a bad length a handler reads.
* Handlers that are given other bytes than a packet of theirs: a string with a negative
  length makes `std::string` throw what the loop does not catch (`worker.cpp:505`), and
  a varint that is too long throws what it does. In `Server` such a packet is
  "a handler throws", in `Session` a `Kick`.
* `read_uchar`, `read_short`, `read_int`, `read_float`, `read_double`: declared, defined nowhere.
* What happens after undefined behaviour.
* `Server` does not repeat the call of `ready()` on a deleted connection, which `Framing` has;
  `Connection` leaves hang-ups to both.
* A clock that is set back (`high_resolution_clock` may be the system clock), and a server that
  is started again after a failed start.
* `chunk_cache.cpp`: nothing calls `request_chunks`, `ChunkCache::at` returns no chunk, and all that
  the loop does with its diamond of positions is to mark them in a local array and print that. There
  is no state to state a property of. Entities, positions, identifiers
  and the world classes only hold data; the logger only prints; the public key is
  made once and used nowhere.

## Plan

Done, in this order: `PacketStream` and `Framing` (the most delicate code), `FramingProof`,
`Server`, `TickLoop`, `TickProof`, `Session`, `WritePath`, `ServerLife`, `Varint` and `ReadBuffer`,
`Connection`, `ServerProof`, `SessionProof`, `Senders`, `WriteProof`, `WireProof`, `ReadProof`.

Next:

1. `Senders`: one abstract sender, whose packets reach the wire whole or not at all, and that
   `SendersSpec` implements it, as `Server` does `ServerLife`.
2. `ReadBuffer`: a bound on what a read outside of the buffers touches, for each kind of field.
