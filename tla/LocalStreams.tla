---------------------------- MODULE LocalStreams ----------------------------
(***************************************************************************)
(* The slots of locally initiated streams of a client connection           *)
(* (connection.rs, client/simple.rs): the counters active_local_streams    *)
(* and reserved_streams, the queue `readiness` of futures waiting for a    *)
(* slot, the wake-ups they get, reservations, and what graceful shutdown,  *)
(* GOAWAY and connection failures do to all of them.                       *)
(*                                                                         *)
(* The code is single threaded: the code between two awaits is one step.   *)
(* A future is polled when it is first awaited and again after its channel *)
(* is completed (woken) or its sender is dropped (canceled).  A future is  *)
(* used once, so the queue entry of a dropped future is never mistaken for *)
(* a later one.  Stream id n stands for the odd id 2n - 1.                 *)
(***************************************************************************)
EXTENDS Integers, Sequences, FiniteSets, FiniteSetsExt

CONSTANTS
    Senders,        \* futures of SimpleClient::send
    ReadyCallers,   \* futures of SimpleClient::ready
    Reservers,      \* callers of SimpleClient::reserve
    MaxStreamId,    \* StreamId::MAX, the last id never opens (next_id overflows)
    NoLimit,        \* local_max_concurrent_streams = None
    InitLimit,      \* the limit assumed until the first SETTINGS (100)
    Limits          \* values of SETTINGS_MAX_CONCURRENT_STREAMS

Futures == Senders \union ReadyCallers

ASSUME LimitAssumption ==
    /\ InitLimit \in Nat
    /\ Limits \subseteq Nat
    /\ NoLimit \notin Nat
    /\ MaxStreamId \in Nat \ {0}

ASSUME FutureAssumption ==
    /\ Senders \intersect ReadyCallers = {}
    /\ IsFiniteSet(Futures)
    /\ IsFiniteSet(Reservers)

VARIABLES
    streams,         \* ids of the streams in the connection's map
    next_stream_id,
    active_local,    \* active_local_streams
    reserved,        \* reserved_streams
    local_max,       \* local_max_concurrent_streams
    remote_settings, \* flag REMOTE_SETTINGS
    readiness,       \* queue of channel senders, named by their future
    fut,             \* state of every send() and ready() future
    resv,            \* state of every StreamReservation
    error,           \* a connection error is set
    go_away,         \* a GOAWAY frame was received
    disconnecting,   \* flag DISCONNECT_WHEN_READY
    io_closed,
    notified         \* the on_capacity callback ran in the last step

slotVars == <<streams, next_stream_id, active_local, reserved>>
waitVars == <<readiness, fut>>
connVars == <<error, go_away, disconnecting, io_closed>>
vars == <<slotVars, local_max, remote_settings, waitVars, resv, connVars, notified>>

Ids == 1 .. MaxStreamId
FutureStates == {"idle", "parked", "woken", "canceled", "opened", "ready", "failed", "gone"}

TypeOK ==
    /\ streams \subseteq Ids
    /\ next_stream_id \in Ids
    /\ active_local \in Nat
    /\ reserved \in Nat
    /\ local_max \in Nat \union {NoLimit}
    /\ readiness \in Seq(Futures)
    /\ fut \in [Futures -> FutureStates]
    /\ resv \in [Reservers -> {"none", "held", "done"}]
    /\ remote_settings \in BOOLEAN
    /\ error \in BOOLEAN
    /\ go_away \in BOOLEAN
    /\ disconnecting \in BOOLEAN
    /\ io_closed \in BOOLEAN
    /\ notified \in BOOLEAN

Init ==
    /\ streams = {}
    /\ next_stream_id = 1
    /\ active_local = 0
    /\ reserved = 0
    /\ local_max = InitLimit
    /\ remote_settings = FALSE
    /\ readiness = <<>>
    /\ fut = [t \in Futures |-> "idle"]
    /\ resv = [r \in Reservers |-> "none"]
    /\ error = FALSE
    /\ go_away = FALSE
    /\ disconnecting = FALSE
    /\ io_closed = FALSE
    /\ notified = FALSE

-----------------------------------------------------------------------------
(* Helpers of ConnectionState. *)

\* u32::saturating_sub
SaturatingSub(a, b) == IF a >= b THEN a - b ELSE 0

\* check_error_with_disconnect() succeeds
Usable == ~error /\ ~go_away /\ ~disconnecting

\* mutant: the limit is exceeded by one
CanCreateOneMore == local_max # NoLimit => active_local <= local_max

\* can_create_new_stream()
CanCreate == local_max # NoLimit => active_local < local_max

\* mutant: the slot of the released stream itself is not counted
FreeSlotsOff(local) == IF local_max = NoLimit THEN 0 ELSE SaturatingSub(local_max, local + 1)

\* Number of free slots a release sees, max.saturating_sub(local); without a
\* limit release_local_stream() wakes nobody.
FreeSlots(local) == IF local_max = NoLimit THEN 0 ELSE SaturatingSub(local_max, local)

\* The k first entries of the queue are popped by wake_waiters(n): entries
\* whose future was dropped do not count.
WakePoint(f, k, n) ==
    LET live(j) == Cardinality({i \in 1 .. j : f[readiness[i]] = "parked"})
    IN  \/ n = 0 /\ k = 0
        \/ n > 0 /\ live(Len(readiness)) < n /\ k = Len(readiness)
        \/ n > 0 /\ k > 0 /\ live(k) = n /\ live(k - 1) < n

\* wake_waiters(n), `f` holds the states of the futures before the call
WakeWaiters(f, n) ==
    \E k \in 0 .. Len(readiness) :
        /\ WakePoint(f, k, n)
        /\ readiness' = SubSeq(readiness, k + 1, Len(readiness))
        /\ fut' = [t \in Futures |->
                      IF f[t] = "parked" /\ \E i \in 1 .. k : readiness[i] = t
                      THEN "woken" ELSE f[t]]

\* mutant: the queue is kept when the connection ends
ClearReadinessKeeps(f) == readiness' = readiness /\ fut' = f

\* readiness.clear(): the senders are dropped
ClearReadiness(f) ==
    /\ readiness' = <<>>
    /\ fut' = [t \in Futures |-> IF f[t] = "parked" THEN "canceled" ELSE f[t]]

\* StreamId::next_id() does not overflow
IdLeft == next_stream_id + 1 \in Ids

NotifyCapacity == notified' = TRUE
NoNotification == notified' = FALSE

-----------------------------------------------------------------------------
(* SimpleClient::send() and SimpleClient::ready(). *)

\* A future runs: first poll, after a wake-up, or after its sender is dropped.
Runnable(t) == fut[t] \in {"idle", "woken", "canceled"}

\* ready() fails: the connection is not usable, or the waiter was dropped
PollFails(t) ==
    /\ Runnable(t)
    /\ fut[t] = "canceled" \/ ~Usable
    /\ fut' = [fut EXCEPT ![t] = "failed"]
    /\ NoNotification
    /\ UNCHANGED <<slotVars, local_max, remote_settings, readiness, resv, connVars>>

\* no slot: a new channel is queued, a woken waiter goes to the back again
PollParks(t) ==
    /\ fut[t] \in {"idle", "woken"}
    /\ Usable
    /\ ~CanCreate
    /\ fut' = [fut EXCEPT ![t] = "parked"]
    /\ readiness' = Append(readiness, t)
    /\ NoNotification
    /\ UNCHANGED <<slotVars, local_max, remote_settings, resv, connVars>>

\* open_stream() succeeds, the slot is counted before it is called
PollOpens(t) ==
    /\ t \in Senders
    /\ fut[t] \in {"idle", "woken"}
    /\ Usable
    /\ CanCreate
    /\ IdLeft
    /\ streams' = streams \union {next_stream_id}
    /\ next_stream_id' = next_stream_id + 1
    /\ active_local' = active_local + 1
    /\ fut' = [fut EXCEPT ![t] = "opened"]
    /\ NoNotification
    /\ UNCHANGED <<reserved, local_max, remote_settings, readiness, resv, connVars>>

\* open_stream() fails (header list too large for the peer, or no stream ids
\* are left) and the counted slot is released again
PollOpenFails(t) ==
    /\ t \in Senders
    /\ fut[t] \in {"idle", "woken"}
    /\ Usable
    /\ CanCreate
    /\ WakeWaiters([fut EXCEPT ![t] = "failed"], FreeSlots(active_local))
    /\ NoNotification
    /\ UNCHANGED <<slotVars, local_max, remote_settings, resv, connVars>>

\* SimpleClient::ready() resolves, it takes no slot
PollReady(t) ==
    /\ t \in ReadyCallers
    /\ fut[t] \in {"idle", "woken"}
    /\ Usable
    /\ CanCreate
    /\ fut' = [fut EXCEPT ![t] = "ready"]
    /\ NoNotification
    /\ UNCHANGED <<slotVars, local_max, remote_settings, readiness, resv, connVars>>

Poll(t) ==
    \/ PollFails(t) \/ PollParks(t) \/ PollOpens(t) \/ PollOpenFails(t) \/ PollReady(t)

\* mutant: a wake-up is lost with the future that got it
DropFutureForgets(t) ==
    /\ fut[t] \in {"parked", "woken", "canceled"}
    /\ fut' = [fut EXCEPT ![t] = "gone"]
    /\ NoNotification
    /\ UNCHANGED <<slotVars, local_max, remote_settings, readiness, resv, connVars>>

\* The future is dropped while it waits; ReadyWaiter passes an unused wake-up on.
DropFuture(t) ==
    /\ fut[t] \in {"parked", "woken", "canceled"}
    /\ WakeWaiters([fut EXCEPT ![t] = "gone"], IF fut[t] = "woken" THEN 1 ELSE 0)
    /\ NoNotification
    /\ UNCHANGED <<slotVars, local_max, remote_settings, resv, connVars>>

-----------------------------------------------------------------------------
(* Reservations. *)

\* reserve_stream()
Reserve(r) ==
    /\ resv[r] = "none"
    /\ Usable
    /\ CanCreate
    /\ active_local' = active_local + 1
    /\ reserved' = reserved + 1
    /\ resv' = [resv EXCEPT ![r] = "held"]
    /\ NoNotification
    /\ UNCHANGED <<streams, next_stream_id, local_max, remote_settings, waitVars, connVars>>

\* mutant: the last reservation does not end a graceful disconnect
ReleaseReservedOpen(r) ==
    /\ resv[r] = "held"
    /\ resv' = [resv EXCEPT ![r] = "done"]
    /\ reserved' = SaturatingSub(reserved, 1)
    /\ active_local' = SaturatingSub(active_local, 1)
    /\ WakeWaiters(fut, FreeSlots(SaturatingSub(active_local, 1)))
    /\ NotifyCapacity
    /\ UNCHANGED <<streams, next_stream_id, local_max, remote_settings, connVars>>

\* release_reserved_stream(): the reservation is dropped, or its send() failed
ReleaseReserved(r) ==
    /\ resv[r] = "held"
    /\ resv' = [resv EXCEPT ![r] = "done"]
    /\ reserved' = SaturatingSub(reserved, 1)
    /\ active_local' = SaturatingSub(active_local, 1)
    /\ WakeWaiters(fut, FreeSlots(SaturatingSub(active_local, 1)))
    /\ io_closed' = (io_closed \/ (reserved' = 0 /\ streams = {} /\ disconnecting))
    /\ NotifyCapacity
    /\ UNCHANGED <<streams, next_stream_id, local_max, remote_settings, error, go_away, disconnecting>>

\* send_reserved_request(), allowed while a graceful disconnect is in progress
SendReserved(r) ==
    /\ resv[r] = "held"
    /\ ~error /\ ~io_closed /\ ~go_away
    /\ IdLeft
    /\ streams' = streams \union {next_stream_id}
    /\ next_stream_id' = next_stream_id + 1
    /\ reserved' = SaturatingSub(reserved, 1)
    /\ resv' = [resv EXCEPT ![r] = "done"]
    /\ NoNotification
    /\ UNCHANGED <<active_local, local_max, remote_settings, waitVars, connVars>>

-----------------------------------------------------------------------------
(* Events of the connection. *)

\* drop_stream() of a local stream whose both sides are closed
StreamClosed(id) ==
    /\ id \in streams
    /\ streams' = streams \ {id}
    /\ active_local' = SaturatingSub(active_local, 1)
    /\ WakeWaiters(fut, FreeSlots(SaturatingSub(active_local, 1)))
    /\ io_closed' = (io_closed \/ (streams' = {} /\ reserved = 0 /\ disconnecting))
    /\ NotifyCapacity
    /\ UNCHANGED <<next_stream_id, reserved, local_max, remote_settings, resv,
                   error, go_away, disconnecting>>

\* mutant: the pool is not told that the limit changed
RecvSettingsSilent(max) ==
    /\ max # NoLimit \/ ~remote_settings
    /\ remote_settings' = TRUE
    /\ local_max' = max
    /\ readiness' = <<>>
    /\ fut' = [t \in Futures |-> IF fut[t] = "parked" THEN "woken" ELSE fut[t]]
    /\ NoNotification
    /\ UNCHANGED <<slotVars, resv, connVars>>

\* recv_settings(): the limit changes, all waiters are woken.  Without the
\* setting only the first SETTINGS frame has an effect, it removes the limit.
RecvSettings(max) ==
    /\ max # NoLimit \/ ~remote_settings
    /\ remote_settings' = TRUE
    /\ local_max' = max
    /\ readiness' = <<>>
    /\ fut' = [t \in Futures |-> IF fut[t] = "parked" THEN "woken" ELSE fut[t]]
    /\ NotifyCapacity
    /\ UNCHANGED <<slotVars, resv, connVars>>

\* disconnect_when_ready(): close(), the last client clone is dropped, ...
DisconnectWhenReady ==
    /\ ClearReadiness(fut)
    /\ disconnecting' = TRUE
    /\ io_closed' = (io_closed \/ (streams = {} /\ reserved = 0))
    /\ NoNotification
    /\ UNCHANGED <<slotVars, local_max, remote_settings, resv, error, go_away>>

\* wake-ups of n releases in a row, each one counts the free slots again
ReleaseWakes(n) ==
    MapThenSumSet(LAMBDA i : FreeSlots(SaturatingSub(active_local, i)), 1 .. n)

\* recv_go_away(): streams above `last` fail and are dropped one by one, then
\* graceful disconnect starts.
RecvGoAway(last) ==
    LET dropped == {id \in streams : id > last}
        n == Cardinality(dropped)
    IN  /\ go_away' = TRUE
        /\ disconnecting' = TRUE
        /\ streams' = streams \ dropped
        /\ active_local' = SaturatingSub(active_local, n)
        /\ readiness' = <<>>
        /\ \E k \in 0 .. Len(readiness) :
              /\ WakePoint(fut, k, ReleaseWakes(n))
              /\ fut' = [t \in Futures |->
                            IF fut[t] # "parked" THEN fut[t]
                            ELSE IF \E i \in 1 .. k : readiness[i] = t
                                 THEN "woken" ELSE "canceled"]
        /\ io_closed' = (io_closed \/ (streams' = {} /\ reserved = 0))
        /\ NotifyCapacity
        /\ UNCHANGED <<next_stream_id, reserved, local_max, remote_settings, resv, error>>

\* mutant: the slots of reservations are lost with the streams
TakeStreamsAll ==
    /\ error' = TRUE
    /\ ClearReadiness(fut)
    /\ streams' = {}
    /\ active_local' = 0
    /\ NotifyCapacity
    /\ UNCHANGED <<next_stream_id, reserved, local_max, remote_settings, resv,
                   go_away, disconnecting>>

\* take_streams() and the failed streams: the common part of the failures
TakeStreams ==
    /\ error' = TRUE
    /\ ClearReadiness(fut)
    /\ streams' = {}
    /\ active_local' = reserved
    /\ NotifyCapacity
    /\ UNCHANGED <<next_stream_id, reserved, local_max, remote_settings, resv,
                   go_away, disconnecting>>

\* proto_error(), the io is closed when the control service returns
ProtoError == TakeStreams /\ UNCHANGED io_closed

\* timeout(): keep-alive, settings, read or write timeout
Timeout == TakeStreams /\ io_closed' = TRUE

\* disconnect(): the io dispatcher stops or is dropped
Disconnect ==
    /\ TakeStreams
    /\ io_closed' = (io_closed \/ (streams # {} /\ reserved = 0 /\ disconnecting))

\* force_close(), ClientDisconnect dropped or timed out, or control() done
IoClose ==
    /\ ~io_closed
    /\ io_closed' = TRUE
    /\ NoNotification
    /\ UNCHANGED <<slotVars, local_max, remote_settings, waitVars, resv,
                   error, go_away, disconnecting>>

Next ==
    \/ \E t \in Futures : Poll(t) \/ DropFuture(t)
    \/ \E r \in Reservers : Reserve(r) \/ ReleaseReserved(r) \/ SendReserved(r)
    \/ \E id \in Ids : StreamClosed(id)
    \/ \E max \in Limits \union {NoLimit} : RecvSettings(max)
    \/ \E last \in Ids \union {0} : RecvGoAway(last)
    \/ DisconnectWhenReady
    \/ ProtoError \/ Timeout \/ Disconnect \/ IoClose

(***************************************************************************)
(* Fairness: the executor polls a future whose waker was called, and the   *)
(* io dispatcher stops (calling disconnect()) once the io is closed; an    *)
(* error is always followed by the close of the io, dispatcher.rs          *)
(* control().  Nothing is assumed of the peer or of the application.       *)
(***************************************************************************)
Fairness ==
    /\ \A t \in Futures : WF_vars(fut[t] \in {"woken", "canceled"} /\ Poll(t))
    /\ WF_vars(error /\ IoClose)
    /\ WF_vars(io_closed /\ ~error /\ Disconnect)

Spec == Init /\ [][Next]_vars /\ Fairness

-----------------------------------------------------------------------------
(* Properties. *)

Parked == {t \in Futures : fut[t] = "parked"}
Woken == {t \in Futures : fut[t] = "woken"}
NoReadyCall == \A t \in ReadyCallers : fut[t] # "ready"
Held == {r \in Reservers : resv[r] = "held"}

\* connection.rs active_local_streams: the counter the limit is compared with
\* is always the number of open local streams plus the reservations held, on
\* every path that opens, fails, releases or takes streams.
CountersMatch ==
    /\ reserved = Cardinality(Held)
    /\ active_local = Cardinality(streams) + Cardinality(Held)

\* connection.rs release_local_stream, "wake a waiter for each free slot":
\* while a waiter is parked, there are at least as many woken waiters as free
\* slots, and nobody is parked without a limit.  Left out: a
\* SimpleClient::ready() that resolved (SendNotStranded).
WakePerFreeSlot ==
    NoReadyCall =>
        \/ Parked = {}
        \/ local_max # NoLimit /\ Cardinality(Woken) >= local_max - active_local

\* connection.rs ready(): a future waits only while its channel's sender is in
\* the queue, so every parked future can still be woken or cancelled, and the
\* queue is empty once the connection is not usable.
WaiterQueued ==
    /\ \A t \in Parked : \E i \in 1 .. Len(readiness) : readiness[i] = t
    /\ ~Usable => Parked = {}

\* connection.rs disconnect_when_ready/drop_stream/release_reserved_stream: a
\* graceful disconnect closes the io as soon as no stream and no reservation
\* is left (a failed connection is closed by its error handler).
DrainedIsClosed ==
    disconnecting /\ ~error /\ streams = {} /\ reserved = 0 => io_closed

\* The limit is only ever exceeded because the peer lowered it: no step opens
\* or reserves a stream when the limit is reached.
OpensWithinLimit ==
    [][active_local' > active_local /\ local_max # NoLimit => active_local' <= local_max]_vars

\* client/simple.rs on_capacity: the callback runs in every step that makes a
\* connection able to open a stream again, and in every step that fails it.
CapacityNotified ==
    [][(~CanCreate /\ CanCreate') \/ (~error /\ error') \/ (~go_away /\ go_away') => notified']_vars

\* client/simple.rs send(): while the limit allows a stream no send() stays
\* parked, whoever is woken, re-queued or dropped before it, unless a
\* SimpleClient::ready() took its wake-up (SendNotStranded).
SendWoken ==
    \A t \in Senders :
        <>[](NoReadyCall /\ Usable /\ CanCreate) => []<>(fut[t] # "parked")

\* client/simple.rs send(): "Waits until the peer's concurrent stream limit
\* allows a new stream": while the limit allows one, no send() stays parked.
SendNotStranded ==
    \A t \in Senders :
        <>[](Usable /\ CanCreate) => []<>(fut[t] # "parked")

=============================================================================
