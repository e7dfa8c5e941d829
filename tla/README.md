# TLA+ models of ntex-h2

Models, TLC runs and TLAPS proofs for the HTTP/2 implementation in this
repository (`src/` here is the crate's `src/` directory). Every definition is
translated from the Rust source; `PROJECT.json` maps definitions to lines.

Run a model with `tlc -workers 2 -config X.cfg M` and the proofs of a module
with `tlapm M.tla` (`LocalStreamsProofs` and the other `*Proofs` modules).

## 1. Inventory

The crate is single threaded per connection: all state sits in `Rc`/`Cell`, and
code runs without interruption from one `await` to the next. The concurrency is
that of tasks (request futures, handlers, publish and control calls, timers),
and of frames that the peer sends meanwhile.

| Component | State | Operations | What makes it correct |
|---|---|---|---|
| Local stream slots (`connection.rs`, `client/simple.rs`) | `active_local_streams`, `reserved_streams`, `readiness` queue, limit | `send`, `ready`, `reserve`, release, SETTINGS, GOAWAY, close, failure | the counter is exact, no wake-up is lost, no waiter is left behind, the limit is kept |
| Connection and streams (`connection.rs`, `stream.rs`) | map of streams, two halves per stream, stream and connection error, last and next id, reset counters, flags | a handler per frame, sends, resets, timeouts | the map holds the open streams, closed stays closed, frames are in order, a drained connection closes |
| Dispatcher (`dispatcher.rs`, `message.rs`, `control.rs`) | `disconnected`, calls in flight | `publish`, `control`, stop reasons | messages in order, one final message, GOAWAY is right |
| Recently reset streams (`Pending`) | set and queue of ids with times | add, remove, expiry | set and queue agree, bounded, not forgotten early |
| Receive flow control (`stream.rs`, `window.rs`) | stream and connection windows, unconsumed bytes | DATA, `Capacity::consume`, SETTINGS acknowledgment | a conforming peer is never failed and never blocked, buffers are bounded |
| Send flow control (`stream.rs`) | windows, waker, `WAIT_FOR_CAPACITY`, `CAPACITY_TIMER` | `send_pages`, `send_capacity`, `poll_send_capacity`, WINDOW_UPDATE, SETTINGS | windows are respected, no sleeping sender is missed, waits end |
| Capacity timer (`timer.rs`) | thread-local map of streams by second, `running`, `current` | register, unregister, tick, task end and restart | every registered stream times out, in time, whatever the others do |
| Client pool, connector (`client/pool.rs`, `client/connector.rs`) | connections, waiters, connects in progress | `client`, `ready`, connect, notify | bounds, no lost waiter |
| Client stream handles (`client/stream.rs`) | queue of messages per stream, waiter, flags | recv, reset, drop of either handle | what recv returns is a response, dropped handles release the stream, recv never sleeps through an end |
| Server service (`server/service.rs`) | handshake, guard | `run`, `handle_one` | streams are failed when the future is dropped, a silent client is dropped |
| Keep-alive, settings timer (`connection.rs`) | `ping_payload`, `RECV_PONG` | ping, pong, timeout | a live peer is kept, a silent one is not |
| Codec and frames (`codec/`, `frame/`) | frame length, partial header block, spare header maps, limits | decode in pieces, encode, load and encode per frame | what was sent is decoded whatever the pieces, errors are the right ones, buffers are bounded |
| HPACK (`hpack/`) | encoder table with hash index, decoder table, pending size updates | encode, decode, insert, evict, grow, resize | both tables agree, the index finds what is there, coding is one to one |

Interaction: the io dispatcher (external, ntex) decodes a frame and calls the
`Dispatcher`, which calls a `recv_*` handler of the connection; the handler
changes streams, writes frames and returns a message, a stream error or a
connection error. A message goes to the publish service, an error to
`handle_message`, which resets the stream or fails the connection and calls the
control service. Applications act on streams through `StreamRef`, clients
through `SimpleClient` or the pool. A stream that closes on both sides calls back
into the connection (`drop_stream`), which wakes waiters, tells the pool
(`on_capacity`) and may close the io.

The hard behaviours are listed with their lines as `hazards` in `PROJECT.json`:
lost wake-ups, values read before an `await` and used after it, streams that are
closed by several actors at once, failures in the middle of a handler, SETTINGS
that cross DATA and WINDOW_UPDATE, timeouts that race what they wait for, and
limits at their edges.

## 2. Modules

**LocalStreams**: `connection.rs` `ready`, `send_request`, `reserve_stream`,
`release_*`, `drop_stream`, `recv_settings`, `recv_go_away`,
`disconnect_when_ready`, `take_streams`. A future is a state
(`idle, parked, woken, canceled`, then how it ended); a poll is one step and is
one of `PollFails`, `PollParks`, `PollOpens`, `PollOpenFails`, `PollReady`.
`WakeWaiters(f, n)` is `wake_waiters(n)`: it pops queue entries until `n` live
ones are woken, entries of dropped futures do not count. `WakePoint` says which
prefix is popped, without recursion, so that it can be proved about.

**LocalStreamsProofs**, and a `*Proofs` module each for Connection (with
PendingResets), RecvFlow, SendFlow, Pool, ClientStream, Timers and Hpack: the
theorems of section 5.

**Connection**: the stream map, the halves and the error of every stream,
resets by either side, the reset limit, graceful shutdown, failures, publish and
control calls. The peer is arbitrary: any frame at any time. A frame is a class
that selects a branch (`ok`, `eof`, `invalid`). `RecvAck` is the acknowledgment
of SETTINGS that overflows the windows of some streams: the dispatcher's loop
fails them one by one (`Turns`) and awaits a publish call for each (`failer`),
so every other action may happen between two turns; streams that are still to be
failed are in `failing`. A window overflows only when the configured one is near
2^31 - 1 and the window was raised before the acknowledgment; RecvFlow has that
arithmetic. `msg`, `wire`, `muted` and `overflowed` are histories: the last
message the publish service got for a stream, the state of the stream as the
peer sees it from the frames it got, the streams that closed with no message and
no call left to publish it, and those the acknowledgment failed. `server` is the flag
`SERVER` of `config`: a server has only streams of the
peer, a client only its own. RecvFlow has the same flag. In both the parameters of
an instance are a record `config`, chosen from `Configs` at the start, so that
one run has several instances.

**PendingSet**, **PendingResets**: the abstract set `Connection` uses and
`Pending` with its queue and clock, which implements it; `MaxResets` of the one
is `ResetMax` of the other.

**FlowWindow**: the operations of `window.rs`, shared by the next two.

**RecvFlow**: an endpoint that receives, two FIFO channels and a peer that obeys
the windows it knows. The peer's part is marked external. `RecvAck` is
`recv_settings` with an acknowledgment: `update_recv_window` of every stream, in
any order, and the first stream whose window overflows is reset in the same poll;
the others (`failing`) are reset one by one afterwards (`FailNext`). The window
of a failing stream did not follow the settings, so it may be exceeded until the
stream is reset; `PeerNotFailed` leaves that out.

**SendFlow**: streams in payload state that share the connection window, one task
per stream. `SendLoop` is the loop of `send_pages` from one `await` to the next:
it writes some bytes, then ends, waits for the io or waits for capacity.

**Pool**: the futures of `client()`, `send()` and `ready()`, the queue of
waiters, the connect task, and connections as the pool sees them (open,
draining, closed; active streams; the peer's limit). `PollClient` is one turn of
the loop of `client()`: it cleans the list of connections up, then returns one,
connects or waits. A request opens its stream or fails to (`Outcomes`,
`UseHandle`): it then releases its slot without a notification, which `lost`
records until the next one. `OnCapacity(n)` is n calls of the callback that
`create_connection` gives a connection; the places that call it are those of
`LocalStreams` (`CapacityNotified` says which, the failed open is not one). `is_closed` is
taken to hold from `close()` on.

**ClientStream**: one stream of a client as its user sees it. `SendStream` and
`RecvStream` are members of `handles`; `queue` and `last` are `Inflight`;
`waiter` is the io waiter of `RecvStream` and `task` the future of `recv()`.
`RecvHeaders` and `RecvData` have the checks of `stream.rs` (pseudo-headers,
interim responses, HEAD, content-length, trailers) that Connection leaves to the
class of a frame. `Change` is every change of the two halves with what follows
from it: the stream leaves the map, the io of a disconnecting connection closes,
waiters fire, messages are queued. The `Disconnect` message of a failed
connection comes from a spawned task (`PublishDisconnect`).

**Timer**, **Timers**: `timer.rs` as a record with one operator per method, and
the connection around it: the handshake under its timeout, `settings_timer`,
`ping` with its counter and `RECV_PONG`, streams that wait for capacity, and what
each timeout does. A stream in the map has its send half open (`open`) or closed
(`half`): `SendCloses` leaves the timer armed, the waiter's next poll stops it,
and `capacity_timeout` looks at the half again. Time is discrete, `Second` units are a second; every task may
run late by `Slack`. `config.live` says whether the peer answers within `Delay`,
which is below the keep-alive time then (`LivePeerAssumption`).

**HpackCoding**: prefixed integers and the first byte of a representation.
**HuffmanTable**: both tables of `huffman/table.rs`, row by row. **Huffman**:
`encode()` and `decode()` of `huffman/mod.rs` as a state machine, a byte at a
time, over strings from `encode()` or from a peer that writes any bytes; beside
the decoder a reference walks the same bits along the codes, without
`DECODE_TABLE`. **HpackTable**: the static tables as encoder and decoder
write them down, the encoder's table with its Robin Hood index (search, insert
with displacement, eviction, growth, resize), the decoder's table. **Hpack**: one
direction of a connection, blocks encoded and decoded, size updates in between.
Entries are counted in small units (`NameLen`, `ValueLen`); `Width` is the number
of values of `usize`, so that `inserted` wraps in the run. These modules have
recursive functions only, no RECURSIVE operator, so they can be proved about.

**Frames**: the bytes of every frame, `load` and `encode`. A u32 is the i32 with
the same bits, because TLC's integers have 32. **Codec**: `decode()` and
`encode()` with the length decoder, CONTINUATION, the pool of header maps and all
limits. HPACK is reduced to a table of indexed headers: enough to tell whether a
refused block was still decoded. The sender is this codec, a peer that pads and
splits as it likes, or one that breaks the protocol; `expect` says what its
frames mean.

How they fit together: Connection and ClientStream take frames as Codec gives
them; LocalStreams has the slots that Connection's streams take, and Pool sees a
connection as LocalStreams gives it; PendingResets implements the set Connection
uses; SendFlow and RecvFlow have the windows, Timers the timer that SendFlow has
as a flag.

The `MC*` modules extend these for TLC. Definitions named as mutants in comments
are not used by any specification: each is a plausible mistake in the code that
the named property finds.

## 3. Runs

| Run | Instance | Shows |
|---|---|---|
| LocalStreams | 2 senders, 1 ready(), 1 reservation, 3 ids, limits 1, 0, 2, none | counters, queue, limit, notification; while no ready() call was made, no lost wake-up; every send() that can go on is woken |
| LocalStreamsReady | the same, limits 0 and 1 | violation: ready() swallows a wake-up |
| Connection | server (2 calls in flight, limit 2), client, server with limit 1; 2 ids. PendingResets: 4 ids, at most 2 kept, clock to 3 | life cycle, counters, final messages published or owed, frame order, graceful shutdown, with streams failed by the SETTINGS acknowledgment; no reset id is forgotten early, refinement of PendingSet |
| ConnectionResetLimit | the server of Connection | violation: no final message past the reset limit |
| ClientStream | lengths to 2, bodies to 3 bytes, 3 queued messages | responses are well formed, handles release the stream, recv() ends |
| RecvFlow | 2 streams, 2 frames in flight; server (4 bytes of data) and client (2 bytes) with default window 1, configured 3, maximum 4; server with default 4, configured 3 (4 bytes); symmetric in the streams | windows across the SETTINGS exchange, overflow by the acknowledgment, negative windows, nobody is blocked |
| SendFlow | 2 streams, windows to 1, 2 bytes per call | windows, wake-ups, waits end |
| Pool | 2 calls and 1 ready(), at least 1 and at most 2 connections, stream limits 1 and 0 | connection limit, notifications are passed on, a waiting call has a wake-up ahead and is woken |
| PoolFailedSend | the same with 1 connection | violation: a request that fails to open its stream leaves the next call waiting |
| Hpack | 8 headers (3 names of near hashes, static ones, sensitive ones), 12 blocks, table sizes 0 to 5, 4 index positions at first. Huffman: strings of any length, over two symbols of every code length for `encode()` and over all bytes for the peer | blocks decode to what was encoded, tables equal, index sound; symbols, EOS and padding are decoded as the codes say, what is encoded is decoded |
| Codec | frames of 13 or 16 bytes, 6 header lists in 4 layouts, 13 broken inputs, pieces of 7 or 60 bytes | frames decode to what was sent or to the right error, bounds, no frame is held back |
| Timers | 2 streams that starve; a live peer; a silent one; both timers at once; 5.5 seconds | timer and streams agree, timeouts are in time and not after the send half closed, a live peer is kept, a silent one is closed |

The runs Connection and Hpack each hold two state machines that have nothing in
common: `MCSpec` takes steps of the one or of the other and leaves the other in
an initial state.

`CHECK_DEADLOCK FALSE` is given everywhere: a connection really stops, and an
application or a peer may do nothing for ever.

The state machines have a `TypeOK` (Hpack, Huffman and Codec excepted). It is not in the `.cfg`
files: it is the type assumption of the proofs and part of their invariants, and
`[]TypeOK` of LocalStreams is a theorem of its own.

**Bounds.** Two streams suffice for every interaction between streams of a
connection (shared window, shared counter, last stream gone, one stream reset
while another is served). LocalStreams has two senders and a ready() call, so
that one future is woken, one parked and one dropped; before a ready() call is
made, the two senders and the reservation compete for the slots. `RatioWindow` 4
and `RatioMin` 2 stand for 1024 and 10, so that decay and the reset limit are
reached with two resets (`resets`). Windows of 1 to 4 bytes make an update due
at some consumptions and not at others, go negative when the configured window
is below the default, and overflow a maximum of 4. `data` bounds what the
peer sends, `MaxFlight` the frames it and a client's request keep under way. The
clock of PendingResets passes the duration twice. In SendFlow a window of 1 and
calls of 2 bytes make calls wait in the middle, and SETTINGS make windows
negative. In ClientStream a body of 3 bytes is too short, right and too long for
every announced length, and three messages are a response, data and an end.
In Hpack two names have one hash and two want the positions behind it, a table
of four units holds two to four entries, so that insertions evict none, one or
several entries, move others and grow the index; the insertion counter wraps at
8. In Codec three headers take two frames, a list of three exceeds each limit,
and pieces of 7 bytes split every head and every payload; `MaxNet` lets two to
four frames be on the way. Huffman has no bound on the length of a string: what
is carried from byte to byte is finite, so TLC visits every state of the decoder
with every byte. `MaxTime` of Timers covers the handshake, two pings
and two capacity timeouts; `Slack` lets tasks run late by half a second.

**Fairness.** LocalStreams: the executor polls a woken future, an error is
followed by the close of the io, and the io dispatcher stops once the io is
closed. SendFlow: woken tasks are polled and the timer fires. ClientStream: a
woken `recv()` is polled, the spawned task that publishes `Disconnect` runs, and
the dispatcher of a closed io is stopped; nothing is assumed of the peer or the
user. Pool: woken futures are polled, a connect attempt ends (it has a timeout),
the dispatcher of a closed io shuts down (its `shutdown` calls `disconnect()`),
an application that asked for a connection uses or drops it once a request on it
does not wait, and streams end; the last two are what a waiting call depends on by design. The deadlines of Timers are
safety properties: time does not pass a due task by more than `Slack`.

## 4. What the code does differently from what it says

1. *LocalStreamsReady.* `SimpleClient::ready()` returns once a slot is free and
   leaves it free; the wake-up it used is not passed on. A `send()` parked behind
   it sleeps although a stream could be opened. The pool notifies again after its
   own `ready()`.
2. *ConnectionResetLimit.* `recv_rst_stream` removes the stream, then
   `update_rst_count` fails the connection; the stream that was just reset gets
   no final message.
3. *PoolFailedSend.* `send_request` (`connection.rs:453`) releases the slot of a
   request that fails to open its stream (header list too large for the peer, no
   stream ids left) and does not call `notify_capacity()`. The waiters of the
   connection are woken, the pool is not told: a call that waits in the pool stays
   there although a slot is free, until something else notifies it. `WakeUpAhead`
   and `CallWoken` leave this case, and a connection that the application was
   given and dropped, out by `lost`.

Met while modelling, without a run that states it:

- The loop over the stream errors of a SETTINGS acknowledgment
  (`dispatcher.rs:175`) awaits a publish call per stream. A later stream that its
  handler resets meanwhile gets its `LocalReset` message, then the loop fails it
  again: a second RST_STREAM and a second error, although `message.rs:38` calls
  `StreamEof` the final event. Connection has these steps; `FinalMessage` allows
  a second error for the streams in `overflowed` and for no others. It takes a
  configured window near 2^31 - 1.
- The last stream id of a control call is taken before the control service is
  awaited (`dispatcher.rs:60`); HEADERS accepted meanwhile are above the id in
  the GOAWAY frame.
- A woken `Client::ready()` of the pool notifies the next waiter before it looks
  at the pool and queues again if the pool is still full (`client/pool.rs:287`):
  two such calls wake each other until capacity appears.
- When the io is closed `poll_recv` leaves its waiter unregistered
  (`client/stream.rs:262`); a local reset before the dispatcher's stop removes
  the stream from the map, so no `Disconnect` message comes, and `recv()` sleeps.
  `RecvEnds` leaves this case out (`late_reset`); it depends on the io's `Waiter`.
- `disconnect_on_drop` acts only when a handle is dropped whose half is
  unfinished (`client/stream.rs:85`).
- A 304 response with a content-length whose END_STREAM comes in an empty DATA
  frame is refused (`stream.rs:604`).
- With windows of 0 to 2 bytes (connection: 0 to 3) the threshold is 0 and a
  WINDOW_UPDATE frame with increment 0 can be written (`config.rs:118`), although
  `Window::update` promises a positive number (`window.rs:34`). The run has larger
  windows and the proof assumes them; with `window |-> 2` `PeerMaySend` fails.
- `recv_data()` refuses an empty DATA frame with END_STREAM while the window of
  the stream is negative (`stream.rs:641`): 0 is larger than the window. A window
  is negative after the acknowledgment of a smaller window; RFC 9113 section
  6.9.1 lets the peer send such a frame, and `send_pages()` does.
- A pool with `minconn` and `connection_limit` both 0, accepted by the setters, opens no
  connection, and its calls wait for ever.
- An invalid HEADERS frame for an idle stream id makes a client write RST_STREAM
  for it (`wire` becomes `idleReset`).
- `Data::set_padded` on a payload of the largest size makes a frame one byte over
  the limit; the crate itself never calls it.
- A header list within the announced `max_header_list_size` is refused when it
  needs more CONTINUATION frames than `max_header_continuations`.

## 5. Proofs

Every theorem holds for all values of the constants that satisfy the `ASSUME`s of
its module: any number of futures, streams, ids and connections, any limits,
windows and times. The bounds of the runs (`MaxFlight`, `MaxTime`, `data`...) are
constants like the others. Each proof has an inductive invariant, named below
with what the property lacks on its own.

**LocalStreamsProofs.** `TypeCorrect`, `CountersCorrect` (`CountersMatch`),
`DrainedCorrect` (`DrainedIsClosed`), `WaitersCorrect` (`WaiterQueued`),
`FreeSlotsWakeWaiters` (`WakePerFreeSlot`), and the action properties
`LimitCorrect` (`OpensWithinLimit`) and `CapacityNotificationsComplete`
(`CapacityNotified`). `SlotInv` is `TypeOK /\ CountersMatch /\ IdsUsed /\
DrainedIsClosed`: `CountersMatch` alone is not inductive, opening a stream adds
one to the map only if the id is not in it, which is `IdsUsed`. With it every
`saturating_sub` subtracts from a positive number. `WakeInv` adds `WaiterQueued`
and `QueueOnce`, a future is in the queue at most once and was not woken since:
popping n live entries then wakes n futures (`WakesEnough`). A step without the
callback neither lowers the counter nor changes the limit (`SilentStep`).

**ConnectionProofs.** `ActiveStreamsMatch` (`ActiveMatches`),
`MapHoldsOpenStreams` (`MapIsOpenStreams`), `DrainCloses` (`DrainedIsClosed`),
`FinalMessagePublished` (`FinalMessage`), `FramesInOrder` (`WireOrder`),
`GoAwayHonoured` (`GracefulGoAway`), for both roles and both settings of
`SkipUnknown`. `ConnInv` has a part per question: `MapInv` (used ids
are not used again and unused ones have idle halves, without which a new stream
could reuse an entry), `GracefulInv`, `WireInv` (the send half agrees with what
the peer got), `MessageInv` (the receive half agrees with what was published, and
a stream whose final message is owed has a call that watches it), `AckInv` (what
the acknowledgment's loop has left to do was opened and had its window
overflowed, so that two errors come from this loop only).
The building blocks of the actions (close, drop, take, publish, write) have a
lemma for each part. `StateOK` leaves out the types of `rst_count` and
`streams_count`: they are divided by powers of two, which the provers do not
know, and nothing proved depends on them. `RatioMin` is assumed positive
(10 in `update_rst_count`).

The second part of the module is about PendingResets: `IdsNotForgottenEarly`
(`NotForgottenEarly`) and `PendingSetImplemented`: `Pending` implements
PendingSet, every step is one of its steps or leaves the set alone. `ResetInv` says that the queue holds the ids of the
set, once each and in the order of the resets, and what was reset after each.

**RecvFlowProofs.** `ObedientPeerNotFailed` (`PeerNotFailed`),
`ConnectionWindowMatches` (`ConWindowMatches`), `BuffersBounded` (`BufferBound`),
and `FlowControlGoesOn` (`PeerMaySend`), the last for configurations with stream
windows from 3 and connection windows from 4 bytes on (`Thresholds`, see section
4). `RecvInv` must follow a stream through the exchange of the settings:
`Balanced` says what the peer's window is before it applies the SETTINGS, while
its acknowledgment is under way and after it; `FitsIn` says that each DATA frame
under way fits into the window it will find, which grows or shrinks when the
acknowledgment passes. `OutOrder`, `InOrder` and `HalfInv` are the order of
frames that these rest on, `SizeInv` that window and unconsumed data of an open
stream stay positive together. Sums over queues and streams are recursive
functions; the lemmas on them argue by the least index at which a claim fails.
`FlowControlGoesOn` adds that all queued increments are positive.

**SendFlowProofs.** `WakeUpsNotLost` (`NoLostWake`) and the action property
`DataWithinWindows` (`WithinWindows`). `SendInv` adds `SendOpen`: a stream whose
send half is open is in the map and nothing has failed; WINDOW_UPDATE and
SETTINGS wake only streams in the map.

**ClientStreamProofs.** `ResponsesWellFormed` (`ResponseWellFormed`) and
`StreamsReleased` (`HandlesRelease`). The checks are made when a frame comes, the
property speaks of what `recv()` returned, and the queue lies between them:
`QueueInv` says that some sequence of responses leads from what the user has seen
through each queued message to the state of the stream.

**TimersProofs.** `TimerStaysInStep` (`TimerInStep`), `LivePeersKept`
(`LivePeerKept`), `SilentPeersClosed` (`SilentPeerClosed`), and the action
property `CapacityTimeoutsOnTime` (`CapacityTimeoutOnTime`). `CapacityInv` bounds
the time to each stream's second from both sides: the seconds that are missing,
each from `Second` to `Second + Slack` long; an armed stream is in the map and
waits, its send half may be closed. `TaskInv` says where the ends of the
other sleeps lie and what the dispatcher was told.

**PoolProofs.** `PoolWithinLimit` (`PoolBound`) and `WaitersNotStranded`
(`WakeUpAhead`), the latter for pools with `MinConn + MaxConn > 0`. `PoolInv` says
that the queue holds the waiting futures, once each. `AheadInv` counts a returned
connection as a reason for a later wake-up only while it is open: when it closes,
the shutdown of its dispatcher is still to come. A notification that led to no
stream sets `lost`, and every step that clears it brings a new wake-up.

**HpackProofs.** `IndexAlwaysSound` (`IndexSound`) and `HpackDecodesAsEncoded`
(`DecodesAsEncoded`), with their invariants `EncoderInvariant` and
`HpackInvariant`, for every hash function, every set of headers and lengths, and
every sequence of table sizes.

- `EncoderInv`: the encoder's table is `Valid`. `IndexSound` is not inductive on its
  own: that a position stays free needs that there are no more slots than usable
  positions, that eviction stops before the table is empty needs that the lengths
  of the slots add up to the size (`Sums`), and that a stored index names one slot
  only needs that there are fewer slots than `Width`. `Sound` states the Robin Hood
  order between neighbours instead of along a probe: insertion by displacement,
  removal by backward shift and growth change a neighbourhood at a time. Each
  method of the table has a lemma that it leaves a `Valid` table and says which
  headers are in it (`Inserts`, `Shrinks`, `Holds`, `Indexes`).
- `HpackInv`: `EncoderInv`, the decoder's table is the encoder's without the index
  (`InStep`), no block was in error, and the size updates that wait bring the
  table down to every size the peer announced since the last block
  (`Announced`). A representation `Yields` its header at every decoder in step;
  this includes that a prefixed integer is decoded to what was encoded, for all
  integers that occur. The loop of `decode()` is followed turn by turn: size
  updates, the header, the headers that repeat its name.

Assumed: `RawCap` at least 4 (8 in `table.rs`); `MaxTable < Width` (4096 and the
values of `usize`: distances between entries do not wrap, although `inserted`
does); `MaxTable + 62 < 2^28` (every index and size fits into the bytes
`decode_int` accepts); the length of an entry is positive (32 bytes are added to
each).

Some operators are written so that they can be proved about: `Kept` of Pool
(`retain`), `Without` of PendingResets (removal by position), `Put` of Timer, and
`WakePoint` of LocalStreams say by positions and counts what the code's loops do.
The loops of HpackTable and of `Decode` are recursive functions of the number of
turns, and the static tables are literal lists. A claim about all turns is proved
from the least turn at which it would fail.

Only model-checked: liveness (`SendWoken`, `RecvEnds`, `WaitEnds`, `CallWoken`),
which the prover cannot do with fairness; `DecodesTheCode` and `RoundTrip` of
Huffman, whose reference is a fold over bits and whose tables are checked row by
row, for every byte in every state of the decoder that a string reaches, but
with two symbols of each code length in the strings that `encode()` is given; and
Codec (`FramesAsSent`, `PartialBound`, `NothingStuck`, `LoadedBySpec`), which
codes and decodes frames byte by byte and needs induction over the data. String
literals are single values in Hpack, so `HpackDecodesAsEncoded` does not
depend on Huffman coding.

## 6. Not modelled, and plan

Not modelled: the validation of a request by a server (a HEADERS frame of a
request is valid or not in Connection; ClientStream has the validation of a
response), the answer to PING, the arithmetic of the reset ratio beyond its small instance, the pool's statistics, names and conversions of error
codes, logging, configuration setters, error types, the default control service.
io back-pressure and the service call limit belong to ntex and are modelled from how they are used.

Next, in this order:

1. Proofs: the bound of Codec's partial blocks (`PartialBound`), and the type of
   the reset counters of Connection with a lemma on division by powers of two.
2. *Connection*: the final frame that is encoded after the send half closed.
3. The validation of requests, next to that of responses.
