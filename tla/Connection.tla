----------------------------- MODULE Connection -----------------------------
(***************************************************************************)
(* One endpoint of a connection (connection.rs, stream.rs, dispatcher.rs): *)
(* the map of streams, the two halves of every stream, stream resets from  *)
(* either side, graceful shutdown, connection failures, the messages the   *)
(* publish service gets and the frames the peer gets.                      *)
(*                                                                         *)
(* The peer is arbitrary: any frame for any stream at any time.  Frames    *)
(* are classes: what is left of a frame is what selects a branch.  The     *)
(* code between two awaits is one step.  Stream id n stands for the odd id *)
(* 2n - 1, id 0 for the even ids, which are never opened.  A server has    *)
(* only peer initiated streams, a client only its own; reservations and    *)
(* waiting for a slot are in LocalStreams, windows are in SendFlow.        *)
(***************************************************************************)
EXTENDS Integers, Sequences, FiniteSets, FiniteSetsExt

CONSTANTS
    Configs,       \* roles with their limits
    SkipUnknown,   \* flag UNKNOWN_STREAMS is not set
    MaxId,         \* bound: number of stream ids
    ResetMax,      \* reset_max
    RatioWindow,   \* RESET_RATIO_WINDOW (1024)
    RatioMin,      \* streams before the reset ratio is checked (10)
    None

Ids == 1 .. MaxId
AnyId == 0 .. MaxId

\* server: flag SERVER; max: remote_max_concurrent_streams;
\* inflight: max_inflight; resets: bound, value of rst_count
ASSUME ConnAssumption ==
    /\ Configs \subseteq [server : BOOLEAN, max : Nat, inflight : Nat, resets : Nat]
    /\ SkipUnknown \in BOOLEAN
    /\ MaxId \in Nat
    /\ ResetMax \in Nat
    /\ RatioWindow \in Nat \ {0}
    /\ RatioMin \in Nat \ {0}
    /\ None \notin Nat

VARIABLES
    config,        \* role and limits, they never change
    streams,       \* ids in the map
    active,        \* active_remote_streams of a server, active_local_streams of a client
    pending,       \* ids in local_pending_reset
    opened,        \* ids a StreamRef was created for
    late,          \* those opened after con_error, publish() does not watch their calls
    last_id,       \* last id initiated by the peer
    next_id,       \* next_stream_id
    recv, send,    \* the halves of every stream
    serr,          \* StreamState::error
    local_close,   \* StreamState::local_close
    rst_count, streams_count,
    disconnecting, \* flag DISCONNECT_WHEN_READY
    go_away,       \* a GOAWAY frame was received
    con_error,     \* ConnectionState::error is set
    io_closed,
    ctl,           \* Inner::disconnected and the control call in flight
    stopped,       \* the io dispatcher delivers no more frames
    calls,         \* publish calls in flight
    failing,       \* streams the SETTINGS acknowledgment has yet to fail
    failer,        \* the service call its loop waits for
    overflowed,    \* history: streams whose window the acknowledgment overflowed
    muted,         \* history: streams that closed with no message and no call to publish it
    msg,           \* history: last message published for a stream
    wire,          \* history: what the peer got for a stream
    graceful       \* history: last stream id of the graceful GOAWAY

server == config.server

mapVars == <<streams, active>>
idVars == <<opened, late, last_id, next_id>>
halfVars == <<recv, send, serr>>
rstVars == <<rst_count, streams_count>>
flagVars == <<config, disconnecting, go_away>>
ackVars == <<failing, failer, overflowed>>
vars == <<mapVars, pending, idVars, halfVars, local_close, rstVars, flagVars, con_error,
          io_closed, ctl, stopped, calls, ackVars, muted, msg, wire, graceful>>

Halves == {"idle", "payload", "closed"}
Errors == {"none", "local", "remote", "failed", "timeout"}
Messages == {"none", "open", "eof", "error", "twice", "bad"}
Written == {"none", "idleReset", "head", "ended", "reset", "bad"}

TypeOK ==
    /\ config \in Configs
    /\ streams \subseteq Ids /\ pending \subseteq Ids
    /\ opened \subseteq Ids /\ late \subseteq Ids
    /\ active \in Int
    /\ last_id \in AnyId
    /\ next_id \in 1 .. MaxId + 1
    /\ recv \in [Ids -> Halves] /\ send \in [Ids -> Halves]
    /\ serr \in [Ids -> Errors]
    /\ local_close \in [Ids -> BOOLEAN]
    /\ rst_count \in Nat /\ streams_count \in Nat
    /\ disconnecting \in BOOLEAN /\ go_away \in BOOLEAN /\ con_error \in BOOLEAN
    /\ io_closed \in BOOLEAN /\ stopped \in BOOLEAN
    /\ ctl \in {"idle", "close", "gone", "graceful", "done"}
    /\ calls \in [Ids -> Nat]
    /\ failing \subseteq Ids /\ overflowed \subseteq Ids /\ muted \subseteq Ids
    /\ failer \in {"idle", "publish", "control"}
    /\ msg \in [Ids -> Messages]
    /\ wire \in [Ids -> Written]
    /\ graceful \in AnyId \union {None}

Init ==
    /\ config \in Configs
    /\ streams = {} /\ pending = {} /\ opened = {} /\ late = {}
    /\ active = 0
    /\ last_id = 0
    /\ next_id = 1
    /\ recv = [i \in Ids |-> "idle"] /\ send = [i \in Ids |-> "idle"]
    /\ serr = [i \in Ids |-> "none"]
    /\ local_close = [i \in Ids |-> FALSE]
    /\ rst_count = 0 /\ streams_count = 0
    /\ disconnecting = FALSE /\ go_away = FALSE /\ con_error = FALSE
    /\ io_closed = FALSE /\ stopped = FALSE
    /\ ctl = "idle"
    /\ calls = [i \in Ids |-> 0]
    /\ failing = {} /\ overflowed = {} /\ muted = {}
    /\ failer = "idle"
    /\ msg = [i \in Ids |-> "none"]
    /\ wire = [i \in Ids |-> "none"]
    /\ graceful = None

-----------------------------------------------------------------------------
(* Histories of what is published and written. *)

\* A message follows the ones before it: headers and data, then the end of
\* the stream, then an error; a second error is told apart from more.
MessageAfter(m, kind) ==
    IF kind = "error"
    THEN IF m = "error" THEN "twice" ELSE IF m \in {"twice", "bad"} THEN "bad" ELSE "error"
    ELSE IF m \in {"none", "open"} THEN kind ELSE "bad"

\* publish(): the message is passed to the service, on a client the call of
\* HandleService ends at once
Publish(id, kind) ==
    /\ msg' = [msg EXCEPT ![id] = MessageAfter(@, kind)]
    /\ calls' = IF server THEN [calls EXCEPT ![id] = @ + 1] ELSE calls

\* A frame written for a stream, as the peer's state of the stream sees it;
\* `idle` if the stream was never opened
WriteAfter(w, frame, idle) ==
    LET first == w \in {"none", "idleReset"}
    IN  CASE frame = "rst" -> IF idle THEN "idleReset" ELSE "reset"
          [] frame = "info" -> IF first THEN w ELSE "bad"
          [] frame = "head" -> IF first THEN "head" ELSE "bad"
          [] frame = "headEnd" -> IF first THEN "ended" ELSE "bad"
          [] frame = "data" -> IF w = "head" THEN w ELSE "bad"
          [] frame = "dataEnd" -> IF w = "head" THEN "ended" ELSE "bad"

\* no HEADERS opened or tried to open the stream yet
Idle(id) == IF server THEN id > last_id' ELSE id >= next_id

Write(id, frame) ==
    wire' = [i \in Ids |-> IF i = id THEN WriteAfter(wire[i], frame, Idle(i)) ELSE wire[i]]

-----------------------------------------------------------------------------
(* Closing streams. *)

\* Pending::add() for every id of S: the newest ids stay, older ones may
\* expire or be pushed out (PendingResets implements PendingSet)
Pending == INSTANCE PendingSet WITH StreamIds <- Ids, ids <- pending

PendingAdds(base, S) ==
    IF SkipUnknown \/ S = {} THEN pending' = base ELSE pending' \in Pending!After(base, S)

\* mutant: the map is checked before the stream is removed
ClosingEarly(id) == streams = {} /\ disconnecting

\* The last stream is removed while a graceful disconnect waits for it
Closing(id) == streams = {id} /\ disconnecting

\* mutant: the slot of a removed stream is not released
DropStreamKeepsCount(id, again) ==
    /\ streams' = streams \ {id}
    /\ io_closed' = (io_closed \/ Closing(id))
    /\ PendingAdds(pending, IF Closing(id) /\ ~again THEN {} ELSE {id})
    /\ UNCHANGED active

\* drop_stream() of a stream in the map, `again` if it is called once more
DropStream(id, again) ==
    /\ streams' = streams \ {id}
    /\ active' = IF id \in streams THEN active - 1 ELSE active
    /\ io_closed' = (io_closed \/ Closing(id))
    /\ PendingAdds(pending, IF Closing(id) /\ ~again THEN {} ELSE {id})

\* mutant: the state is not reviewed after a half closes
SetHalvesNoReview(id, r, s) ==
    /\ recv' = [recv EXCEPT ![id] = r]
    /\ send' = [send EXCEPT ![id] = s]
    /\ UNCHANGED <<mapVars, pending, io_closed>>

\* The halves change, review_state() drops a stream closed on both sides
SetHalves(id, r, s) ==
    /\ recv' = [recv EXCEPT ![id] = r]
    /\ send' = [send EXCEPT ![id] = s]
    /\ IF r = "closed" /\ s = "closed"
       THEN DropStream(id, FALSE)
       ELSE UNCHANGED <<mapVars, pending, io_closed>>

\* Both halves are closed with an error
CloseStream(id, err, again) ==
    /\ recv' = [recv EXCEPT ![id] = "closed"]
    /\ send' = [send EXCEPT ![id] = "closed"]
    /\ serr' = [serr EXCEPT ![id] = err]
    /\ DropStream(id, again)

-----------------------------------------------------------------------------
(* Failing the connection. *)

\* control(): the control service is called once, later calls take the
\* default response and close the io
Control(closes) ==
    IF ctl = "idle"
    THEN /\ ctl' = "close"
         /\ io_closed' = (io_closed \/ closes)
    ELSE /\ UNCHANGED ctl
         /\ io_closed' = TRUE

\* take_streams(), every stream is failed; `gone` is dropped by the same step
\* already
TakeStreams(base, gone) ==
    /\ recv' = [i \in Ids |-> IF i \in streams THEN "closed" ELSE recv[i]]
    /\ send' = [i \in Ids |-> IF i \in streams THEN "closed" ELSE send[i]]
    /\ serr' = [i \in Ids |-> IF i \in gone THEN "remote"
                              ELSE IF i \in streams THEN "failed" ELSE serr[i]]
    /\ streams' = {}
    /\ active' = 0
    /\ con_error' = TRUE
    /\ PendingAdds(base, streams \ {i \in gone : Closing(i)})

\* handle_connection_error(): a Disconnect message for every stream
PublishDisconnect(S) ==
    msg' = [i \in Ids |-> IF i \in S THEN MessageAfter(msg[i], "error") ELSE msg[i]]

\* handle_message() with a connection error
ConnFail(gone) ==
    /\ TakeStreams(pending, gone)
    /\ PublishDisconnect(streams \ gone)
    /\ Control(\E i \in gone : Closing(i))

NoFailure == UNCHANGED <<con_error, ctl>>

-----------------------------------------------------------------------------
(* The reset limit, update_rst_count(). *)

\* number of times the history is halved
Decay(count) ==
    CHOOSE k \in 0 .. count :
        /\ count \div 2^k < RatioWindow
        /\ \A j \in 0 .. k - 1 : count \div 2^j >= RatioWindow

RstExceeded(count) ==
    LET sc == count \div 2^Decay(count)
        rc == rst_count \div 2^Decay(count)
    IN  sc >= RatioMin /\ rc + 1 >= sc \div 2

UpdateRstCount(count) ==
    /\ rst_count < config.resets
    /\ streams_count' = count \div 2^Decay(count)
    /\ rst_count' = rst_count \div 2^Decay(count) + (IF RstExceeded(count) THEN 0 ELSE 1)

\* reset_unknown_stream()
ResetUnknown(id, count) ==
    /\ UpdateRstCount(count)
    /\ IF RstExceeded(count)
       THEN ConnFail({}) /\ UNCHANGED <<calls, wire>>
       ELSE /\ Write(id, "rst")
            /\ PendingAdds(pending, {id})
            /\ NoFailure
            /\ UNCHANGED <<mapVars, halfVars, io_closed, calls, msg>>

-----------------------------------------------------------------------------
(* Received frames. *)

Inflight ==
    MapThenSumSet(LAMBDA i : calls[i], Ids) + (IF failer = "idle" THEN 0 ELSE 1)

\* the io dispatcher delivers frames until it stops, at most max_inflight
\* service calls are in flight
CanRecv == ~stopped /\ Inflight < config.inflight

\* is_used_id()
Used(id) == id # 0 /\ (IF server THEN id <= last_id ELSE id < next_id)

\* handle_message() with a stream error: the stream is reset
StreamError(id) ==
    /\ CloseStream(id, "local", FALSE)
    /\ Write(id, "rst")
    /\ Publish(id, "error")
    /\ NoFailure
    /\ UNCHANGED rstVars

\* handle_message() with a connection error found by a frame of this module
FrameFails == ConnFail({}) /\ UNCHANGED <<calls, wire, rstVars>>

\* the frame has no effect, or only an effect that is modelled elsewhere
Ignored ==
    /\ NoFailure
    /\ UNCHANGED <<mapVars, pending, halfVars, rstVars, io_closed, calls, msg, wire>>

\* a frame for a stream that was closed long ago
ResetClosed(id) ==
    /\ Write(id, "rst")
    /\ NoFailure
    /\ UNCHANGED <<mapVars, pending, halfVars, rstVars, io_closed, calls, msg>>

\* left alone by the handlers of all frames but HEADERS and GOAWAY
frameFrame == <<idVars, local_close, flagVars, stopped, ackVars, muted, graceful>>

\* mutant: a stream is accepted after the graceful GOAWAY
AcceptsDisconnecting == active < config.max

\* a new stream is neither refused nor over the limit
Accepts == ~disconnecting /\ active < config.max

\* recv_headers() for a new stream of a server
HeadersOpen(id, ok, eof) ==
    /\ CanRecv
    /\ server /\ id \notin streams /\ id > last_id
    /\ Accepts
    /\ last_id' = id
    /\ opened' = opened \union {id}
    /\ late' = IF con_error THEN late \union {id} ELSE late
    /\ streams_count' = streams_count + 1
    /\ IF ok
       THEN /\ streams' = streams \union {id}
            /\ active' = active + 1
            /\ recv' = [recv EXCEPT ![id] = IF eof THEN "closed" ELSE "payload"]
            /\ Publish(id, IF eof THEN "eof" ELSE "open")
            /\ UNCHANGED <<pending, send, serr, wire>>
       ELSE /\ recv' = [recv EXCEPT ![id] = "closed"]
            /\ send' = [send EXCEPT ![id] = "closed"]
            /\ serr' = [serr EXCEPT ![id] = "local"]
            /\ PendingAdds(pending, {id})
            /\ Write(id, "rst")
            /\ Publish(id, "error")
            /\ UNCHANGED mapVars
    /\ NoFailure
    /\ UNCHANGED <<next_id, rst_count, local_close, flagVars, io_closed, stopped, ackVars, muted, graceful>>

\* a new stream is refused while a graceful disconnect is in progress
HeadersRefused(id) ==
    /\ CanRecv
    /\ server /\ id \notin streams /\ id > last_id
    /\ disconnecting
    /\ last_id' = id
    /\ Write(id, "rst")
    /\ PendingAdds(pending, {id})
    /\ NoFailure
    /\ UNCHANGED <<mapVars, opened, late, next_id, halfVars, local_close, rstVars, flagVars,
                   io_closed, stopped, calls, ackVars, muted, msg, graceful>>

\* too many streams, a malformed request, or a frame that is invalid for its
\* stream only (recv_invalid_frame())
HeadersRejected(id, invalid) ==
    /\ CanRecv
    /\ server /\ id \notin streams /\ id > last_id
    /\ invalid \/ ~disconnecting
    /\ last_id' = id
    /\ UNCHANGED <<opened, late, next_id, local_close, flagVars, stopped, ackVars, muted, graceful>>
    /\ ResetUnknown(id, streams_count + 1)

\* HEADERS for a stream of a server that is not in the map, and for even ids
HeadersClosed(id, invalid) ==
    /\ CanRecv
    /\ UNCHANGED frameFrame
    /\ server \/ id = 0
    /\ id \notin streams /\ id <= last_id
    /\ IF id \in pending /\ ~invalid THEN Ignored ELSE FrameFails

\* HEADERS for a stream of a client that is closed or idle
HeadersUnknown(id, invalid) ==
    /\ CanRecv
    /\ UNCHANGED frameFrame
    /\ ~server /\ id # 0 /\ id \notin streams
    /\ IF ~invalid /\ id >= next_id /\ ~SkipUnknown THEN FrameFails
       ELSE IF id \in pending THEN Ignored
       ELSE IF invalid THEN ResetUnknown(id, streams_count)
       ELSE ResetClosed(id)

\* StreamRef::recv_headers() of a stream in the map: a response, an interim
\* response, or trailers
HeadersStream(id, kind, eof) ==
    LET final == kind = "ok" /\ recv[id] = "idle"
        trailers == kind = "ok" /\ recv[id] = "payload" /\ eof
    IN  /\ CanRecv
        /\ UNCHANGED frameFrame
        /\ id \in streams
        /\ IF final \/ trailers
           THEN /\ SetHalves(id, IF eof THEN "closed" ELSE "payload", send[id])
                /\ Publish(id, IF eof THEN "eof" ELSE "open")
                /\ NoFailure
                /\ UNCHANGED <<serr, rstVars, wire>>
           ELSE IF kind = "interim" /\ recv[id] = "idle" /\ ~eof
           THEN /\ Publish(id, "open")
                /\ NoFailure
                /\ UNCHANGED <<mapVars, pending, halfVars, rstVars, io_closed, wire>>
           ELSE StreamError(id)

\* recv_invalid_frame() for a stream in the map
InvalidStream(id) ==
    /\ CanRecv
    /\ UNCHANGED frameFrame
    /\ id \in streams
    /\ UpdateRstCount(streams_count)
    /\ IF RstExceeded(streams_count)
       THEN ConnFail({}) /\ UNCHANGED <<calls, wire>>
       ELSE /\ CloseStream(id, "local", FALSE)
            /\ Write(id, "rst")
            /\ Publish(id, "error")
            /\ NoFailure

\* recv_data(), `ok` if the windows and the content length allow the frame
RecvData(id, ok, eof) ==
    /\ CanRecv
    /\ UNCHANGED frameFrame
    /\ IF id \in streams
       THEN IF ok /\ recv[id] = "payload"
            THEN /\ SetHalves(id, IF eof THEN "closed" ELSE "payload", send[id])
                 /\ Publish(id, IF eof THEN "eof" ELSE "open")
                 /\ NoFailure
                 /\ UNCHANGED <<serr, rstVars, wire>>
            ELSE StreamError(id)
       ELSE IF id \in pending THEN Ignored
       ELSE IF SkipUnknown \/ Used(id) THEN ResetClosed(id)
       ELSE FrameFails

\* recv_window_update() of a stream, `ok` if the increment is valid
RecvWindowUpdate(id, ok) ==
    /\ CanRecv
    /\ UNCHANGED frameFrame
    /\ IF id \in streams THEN (IF ok THEN Ignored ELSE StreamError(id))
       ELSE IF id \in pending \/ Used(id) THEN Ignored
       ELSE IF SkipUnknown THEN ResetClosed(id)
       ELSE FrameFails

\* recv_rst_stream() for a stream in the map, `noerr` for reason NO_ERROR.
\* The stream is removed first; handle_message() fails it once more.
RecvRst(id, noerr) ==
    LET complete == ~server /\ recv[id] = "closed" /\ noerr
    IN  /\ CanRecv
        /\ UNCHANGED <<wire, frameFrame>>
        /\ id \in streams
        /\ IF complete
           THEN /\ CloseStream(id, "remote", FALSE)
                /\ NoFailure
                /\ UNCHANGED <<rstVars, calls, msg>>
           ELSE /\ UpdateRstCount(streams_count)
                /\ IF RstExceeded(streams_count)
                   THEN ConnFail({id}) /\ UNCHANGED calls
                   ELSE /\ CloseStream(id, "failed", TRUE)
                        /\ Publish(id, "error")
                        /\ NoFailure

\* recv_rst_stream() for a stream that is reset already
RecvRstPending(id) ==
    /\ CanRecv
    /\ UNCHANGED <<calls, wire, frameFrame>>
    /\ id \notin streams /\ id \in pending
    /\ UpdateRstCount(streams_count)
    /\ IF RstExceeded(streams_count)
       THEN /\ TakeStreams(pending \ {id}, {})
            /\ PublishDisconnect(streams)
            /\ Control(FALSE)
       ELSE /\ pending' = pending \ {id}
            /\ NoFailure
            /\ UNCHANGED <<mapVars, halfVars, io_closed, msg>>

\* connection errors found before a stream is looked up: the first frame is
\* not SETTINGS, invalid SETTINGS, the connection windows, RST_STREAM of id 0
RecvConnError ==
    /\ CanRecv
    /\ UNCHANGED frameFrame
    /\ FrameFails

\* disconnect_when_ready() writes GOAWAY on a server once
WritesGraceful == server /\ ~disconnecting /\ ~io_closed /\ ~con_error

\* recv_go_away(): streams above `last` fail, the connection closes when the
\* others are done; go_away() calls the control service
RecvGoAway(last) ==
    LET failed == IF server THEN {} ELSE {i \in streams : i > last}
        left == streams \ failed
        closed == disconnecting /\ failed # {} /\ left = {}
    IN  /\ CanRecv
        /\ go_away' = TRUE
        /\ disconnecting' = TRUE
        /\ recv' = [i \in Ids |-> IF i \in failed THEN "closed" ELSE recv[i]]
        /\ send' = [i \in Ids |-> IF i \in failed THEN "closed" ELSE send[i]]
        /\ serr' = [i \in Ids |-> IF i \in failed THEN "remote" ELSE serr[i]]
        /\ streams' = left
        /\ active' = active - Cardinality(failed)
        /\ IF closed THEN \E i \in failed : PendingAdds(pending, failed \ {i})
                     ELSE PendingAdds(pending, failed)
        /\ io_closed' = (io_closed \/ left = {})
        /\ PublishDisconnect(failed)
        /\ graceful' = IF WritesGraceful THEN last_id ELSE graceful
        /\ ctl' = IF ctl = "idle" THEN "graceful" ELSE ctl
        /\ UNCHANGED <<config, idVars, local_close, rstVars, con_error, stopped, calls, ackVars, muted,
                       wire>>

-----------------------------------------------------------------------------
(* The acknowledgment of SETTINGS.  The new size overflows the windows of   *)
(* some streams (RecvFlow has the windows), a loop of the dispatcher fails  *)
(* them one after the other.                                                *)

\* Turns of the loop for the streams of S: set_failed_stream(), even if the
\* stream was closed meanwhile, RST_STREAM, and the message is published;
\* `closed` if the io is closed before
Turns(S, closed) ==
    LET drains == disconnecting /\ streams # {} /\ streams \subseteq S
    IN  /\ recv' = [i \in Ids |-> IF i \in S THEN "closed" ELSE recv[i]]
        /\ send' = [i \in Ids |-> IF i \in S THEN "closed" ELSE send[i]]
        /\ serr' = [i \in Ids |-> IF i \in S THEN "failed" ELSE serr[i]]
        /\ streams' = streams \ S
        /\ active' = active - Cardinality(streams \intersect S)
        /\ io_closed' = (closed \/ drains)
        /\ IF drains THEN \E i \in streams : PendingAdds(pending, S \ {i})
                     ELSE PendingAdds(pending, S)
        /\ wire' = [i \in Ids |-> IF i \in S THEN WriteAfter(wire[i], "rst", FALSE) ELSE wire[i]]
        /\ msg' = [i \in Ids |-> IF i \in S THEN MessageAfter(msg[i], "error") ELSE msg[i]]

\* recv_settings() of the acknowledgment, it is processed once; the calls of
\* a client end at once, so its loop does not wait
RecvAck(S) ==
    /\ CanRecv
    /\ overflowed = {}
    /\ S # {} /\ S \subseteq {i \in streams : recv[i] # "closed"}
    /\ overflowed' = S
    /\ IF server
       THEN \E id \in S : Turns({id}, io_closed) /\ failing' = S \ {id} /\ failer' = "publish"
       ELSE Turns(S, io_closed) /\ UNCHANGED <<failing, failer>>
    /\ UNCHANGED <<idVars, local_close, rstVars, flagVars, con_error, ctl, stopped, calls, muted, graceful>>

\* the loop goes on after a call
NextTurn(closed) ==
    /\ IF failing = {}
       THEN /\ failer' = "idle"
            /\ io_closed' = closed
            /\ UNCHANGED <<mapVars, pending, halfVars, failing, msg, wire>>
       ELSE /\ \E id \in failing : Turns({id}, closed) /\ failing' = failing \ {id}
            /\ failer' = "publish"
    /\ UNCHANGED <<idVars, local_close, rstVars, flagVars, con_error, stopped, calls, overflowed,
                   muted, graceful>>

AckPublishEnds ==
    /\ failer = "publish"
    /\ NextTurn(io_closed)
    /\ UNCHANGED ctl

\* The call of the loop fails: control() is awaited if it calls the control
\* service, or closes the io
AckPublishFails ==
    /\ failer = "publish"
    /\ IF ctl = "idle"
       THEN /\ ctl' = "close" /\ failer' = "control"
            /\ UNCHANGED <<mapVars, pending, idVars, halfVars, local_close, rstVars, flagVars, con_error,
                           io_closed, stopped, calls, failing, overflowed, muted, msg, wire, graceful>>
       ELSE NextTurn(TRUE) /\ UNCHANGED ctl

AckControlEnds ==
    /\ failer = "control"
    /\ ctl' = "done"
    /\ NextTurn(TRUE)

-----------------------------------------------------------------------------
(* The application: handlers of streams and the client. *)

\* left alone by the operations on one stream
streamFrame == <<idVars, rstVars, flagVars, con_error, ctl, stopped, calls, ackVars, msg, graceful>>

\* mutant: the state of the send half is not checked
CanSendAny(id, s) == id \in opened /\ serr[id] = "none"

\* check_error() of the stream and the state of the send half
CanSend(id, s) == id \in opened /\ serr[id] = "none" /\ send[id] = s

\* send_request() and open_stream() of a client
SendRequest(eof) ==
    /\ ~server
    /\ ~con_error /\ ~go_away /\ ~disconnecting
    /\ next_id \in Ids
    /\ opened' = opened \union {next_id}
    /\ streams' = streams \union {next_id}
    /\ active' = active + 1
    /\ next_id' = next_id + 1
    /\ send' = [send EXCEPT ![next_id] = IF eof THEN "closed" ELSE "payload"]
    /\ Write(next_id, IF eof THEN "headEnd" ELSE "head")
    /\ UNCHANGED <<pending, late, last_id, recv, serr, local_close, rstVars, flagVars, con_error, io_closed,
                   ctl, stopped, calls, ackVars, muted, msg, graceful>>

\* send_informational()
SendInformational(id) ==
    /\ server
    /\ CanSend(id, "idle")
    /\ Write(id, "info")
    /\ UNCHANGED <<streamFrame, mapVars, pending, halfVars, local_close, io_closed, muted>>

\* send_response()
SendResponse(id, eof) ==
    /\ server
    /\ CanSend(id, "idle")
    /\ SetHalves(id, recv[id], IF eof THEN "closed" ELSE "payload")
    /\ Write(id, IF eof THEN "headEnd" ELSE "head")
    /\ UNCHANGED <<streamFrame, serr, local_close, muted>>

\* send_pages() writes a DATA frame
SendData(id, eof) ==
    /\ CanSend(id, "payload")
    /\ SetHalves(id, recv[id], IF eof THEN "closed" ELSE "payload")
    /\ Write(id, IF eof THEN "dataEnd" ELSE "data")
    /\ UNCHANGED <<streamFrame, serr, local_close, muted>>

\* send_trailers() does not check the stream's error
SendTrailers(id) ==
    /\ id \in opened
    /\ send[id] = "payload"
    /\ SetHalves(id, recv[id], "closed")
    /\ Write(id, "dataEnd")
    /\ UNCHANGED <<streamFrame, serr, local_close, muted>>

\* reset_with(): the final message is left to the publish calls that watch
\* the stream; "A remote stream reset outside of a publish call ... does not
\* get the final message"
LocalClose(id) ==
    IF recv[id] = "closed" THEN UNCHANGED <<local_close, muted>>
    ELSE /\ local_close' = [local_close EXCEPT ![id] = TRUE]
         /\ muted' = IF calls[id] = 0 \/ id \in late THEN muted \union {id} ELSE muted

\* reset(), a dropped Stream, SendStream or RecvStream
Reset(id) ==
    /\ id \in opened
    /\ recv[id] # "closed" \/ send[id] # "closed"
    /\ CloseStream(id, "local", FALSE)
    /\ LocalClose(id)
    /\ UNCHANGED streamFrame
    /\ Write(id, "rst")

\* capacity_timeout(): reset_with(), then the stream fails
CapacityTimeout(id) ==
    /\ id \in opened
    /\ send[id] # "closed"
    /\ CloseStream(id, "timeout", TRUE)
    /\ LocalClose(id)
    /\ UNCHANGED streamFrame
    /\ Write(id, "rst")

\* disconnect_when_ready(): server shutdown, client close()
DisconnectWhenReady ==
    /\ disconnecting' = TRUE
    /\ io_closed' = (io_closed \/ streams = {})
    /\ graceful' = IF WritesGraceful THEN last_id ELSE graceful
    /\ UNCHANGED <<mapVars, pending, idVars, halfVars, local_close, rstVars, config, go_away, con_error,
                   ctl, stopped, calls, ackVars, muted, msg, wire>>

-----------------------------------------------------------------------------
(* Service calls. *)

publishFrame == <<mapVars, pending, idVars, halfVars, rstVars, flagVars, con_error, io_closed,
                  ctl, stopped, ackVars, muted, wire, graceful>>

\* mutant: a cancelled call does not look for the final message
PublishEndsForgets(id) ==
    /\ calls[id] > 0
    /\ calls' = [calls EXCEPT ![id] = @ - 1]
    /\ UNCHANGED <<local_close, msg, publishFrame>>

\* A publish call ends, or is cancelled because the stream has an error; the
\* final message of a stream reset by the local side follows it
PublishEnds(id) ==
    /\ calls[id] > 0
    /\ IF local_close[id] /\ id \notin late
       THEN /\ local_close' = [local_close EXCEPT ![id] = FALSE]
            /\ msg' = [msg EXCEPT ![id] = MessageAfter(@, "error")]
            /\ UNCHANGED calls
       ELSE /\ calls' = [calls EXCEPT ![id] = @ - 1]
            /\ UNCHANGED <<local_close, msg>>
    /\ UNCHANGED publishFrame

\* A publish call fails, the final message is then left to the other calls
\* of the stream
PublishFails(id) ==
    /\ calls[id] > 0
    /\ muted' = IF local_close[id] /\ calls[id] = 1 THEN muted \union {id} ELSE muted
    /\ calls' = [calls EXCEPT ![id] = @ - 1]
    /\ UNCHANGED <<mapVars, pending, idVars, halfVars, local_close, rstVars, flagVars, con_error,
                   stopped, ackVars, msg, wire, graceful>>
    /\ Control(FALSE)

\* call_control(): the control service returns, its default response to an
\* error is a GOAWAY frame
ControlEnds(ok) ==
    /\ ctl \in {"close", "gone", "graceful"} /\ failer # "control"
    /\ ctl' = "done"
    /\ io_closed' = (io_closed \/ ctl # "graceful" \/ ~ok)
    /\ UNCHANGED <<mapVars, pending, idVars, halfVars, local_close, rstVars, flagVars, con_error,
                   stopped, calls, ackVars, muted, msg, wire, graceful>>

-----------------------------------------------------------------------------
(* The io dispatcher stops. *)

stopFrame == <<idVars, local_close, rstVars, flagVars, calls, ackVars, wire, graceful>>

\* the codec fails: proto_error() and control()
StopCodec ==
    /\ ~stopped
    /\ stopped' = TRUE
    /\ UNCHANGED <<stopFrame, muted>>
    /\ ConnFail({})

\* a timeout: timeout() writes GOAWAY and closes the io, then control()
StopTimeout ==
    /\ ~stopped
    /\ stopped' = TRUE
    /\ TakeStreams(pending, {})
    /\ PublishDisconnect(streams)
    /\ io_closed' = TRUE
    /\ ctl' = IF ctl = "idle" THEN "close" ELSE ctl
    /\ UNCHANGED <<stopFrame, muted>>

\* the peer is gone: disconnect() and control(), which writes nothing
StopIo ==
    /\ ~stopped
    /\ stopped' = TRUE
    /\ TakeStreams(pending, {})
    /\ PublishDisconnect(streams)
    /\ io_closed' = TRUE
    /\ ctl' = IF ctl = "idle" THEN "gone" ELSE ctl
    /\ UNCHANGED <<stopFrame, muted>>

\* a service call returned an error: disconnect(), GOAWAY and close
StopService ==
    /\ ~stopped
    /\ stopped' = TRUE
    /\ TakeStreams(pending, {})
    /\ PublishDisconnect(streams)
    /\ io_closed' = TRUE
    /\ UNCHANGED <<stopFrame, ctl, muted>>

\* the publish service is not ready any more: disconnect() and control()
PublishNotReady ==
    /\ ~stopped
    /\ UNCHANGED <<stopFrame, stopped, msg>>
    /\ TakeStreams(pending, {})
    /\ muted' = muted \union streams
    /\ Control(streams # {} /\ disconnecting)

\* the dispatcher is dropped (DisconnectGuard): disconnect()
DropDispatcher ==
    /\ ~stopped
    /\ stopped' = TRUE
    /\ muted' = muted \union streams
    /\ TakeStreams(pending, {})
    /\ io_closed' = TRUE
    /\ UNCHANGED <<stopFrame, ctl, msg>>

RecvFrame ==
    \/ \E id \in Ids, ok, eof \in BOOLEAN : HeadersOpen(id, ok, eof)
    \/ \E id \in Ids : HeadersRefused(id)
    \/ \E id \in Ids, invalid \in BOOLEAN : HeadersRejected(id, invalid)
    \/ \E id \in AnyId, invalid \in BOOLEAN : HeadersClosed(id, invalid)
    \/ \E id \in Ids, invalid \in BOOLEAN : HeadersUnknown(id, invalid)
    \/ \E id \in Ids, kind \in {"ok", "interim", "bad"}, eof \in BOOLEAN : HeadersStream(id, kind, eof)
    \/ \E id \in Ids : InvalidStream(id) \/ RecvRstPending(id)
    \/ \E id \in AnyId, ok, eof \in BOOLEAN : RecvData(id, ok, eof)
    \/ \E id \in AnyId, ok \in BOOLEAN : RecvWindowUpdate(id, ok)
    \/ \E id \in Ids, noerr \in BOOLEAN : RecvRst(id, noerr)
    \/ \E last \in AnyId : RecvGoAway(last)
    \/ \E S \in SUBSET Ids : RecvAck(S)
    \/ RecvConnError

Application ==
    \/ \E eof \in BOOLEAN : SendRequest(eof)
    \/ \E id \in Ids, eof \in BOOLEAN : SendResponse(id, eof) \/ SendData(id, eof)
    \/ \E id \in Ids : SendInformational(id) \/ SendTrailers(id) \/ Reset(id) \/ CapacityTimeout(id)
    \/ DisconnectWhenReady

Service ==
    \/ \E id \in Ids : PublishEnds(id) \/ PublishFails(id)
    \/ \E ok \in BOOLEAN : ControlEnds(ok)
    \/ AckPublishEnds \/ AckPublishFails \/ AckControlEnds

Stop == StopCodec \/ StopTimeout \/ StopIo \/ StopService \/ PublishNotReady \/ DropDispatcher

Next == RecvFrame \/ Application \/ Service \/ Stop

Spec == Init /\ [][Next]_vars

-----------------------------------------------------------------------------
(* Properties. *)

\* connection.rs active_remote_streams/active_local_streams: on every path
\* that opens, closes, fails or takes streams the counter the concurrency
\* limit uses is the size of the map, and a server is never over its limit.
ActiveMatches ==
    /\ active = Cardinality(streams)
    /\ server => active <= config.max

\* dispatcher.rs handle_message, "streams are removed once both sides are
\* closed, a queried stream is always reset": the map holds exactly the
\* streams that have an open side, no closed stream stays and no open stream
\* is lost.
MapIsOpenStreams ==
    streams = {id \in opened : recv[id] # "closed" \/ send[id] # "closed"}

\* connection.rs drop_stream/disconnect_when_ready: a graceful disconnect
\* closes the io once no stream is left (a failed connection is closed by its
\* error handler).
DrainedIsClosed ==
    disconnecting /\ streams = {} /\ ~con_error => io_closed

\* message.rs StreamEof, "Final event for an HTTP/2 stream", and stream.rs
\* reset: the messages of a stream come in order, headers and data, then its
\* end, then an error, and a stream is closed only with a final message
\* published for it or owed by a publish call that is still in flight and
\* that takes it when it ends.  Left out: a second error for a stream whose
\* window the SETTINGS acknowledgment overflowed and that was reset, or failed
\* with the connection, before the turn of the loop came to it; a stream
\* reset by the local side with no call that watches it or whose last call
\* fails, streams of a publish service that failed or was dropped, and a
\* server stream whose RST_STREAM exceeded the reset limit
\* (FinalMessageAlways).
FinalMessage ==
    /\ \A id \in Ids : msg[id] # "bad" /\ (msg[id] = "twice" => id \in overflowed)
    /\ \A id \in opened \ streams :
        \/ msg[id] \in {"eof", "error", "twice"}
        \/ local_close[id] /\ calls[id] > 0 /\ id \notin late
        \/ id \in muted
        \/ server /\ serr[id] = "remote"

\* dispatcher.rs publish, "the final message of a reset stream is always
\* published", for a stream reset by the peer.
FinalMessageAlways ==
    \A id \in opened \ streams :
        serr[id] = "remote" => msg[id] \in {"eof", "error"}

\* stream.rs send_response/send_pages/send_trailers: the frames of a stream
\* are HEADERS, DATA, END_STREAM in this order, and nothing but RST_STREAM
\* follows END_STREAM or RST_STREAM.
WireOrder == \A id \in Ids : wire[id] # "bad"

\* connection.rs disconnect_when_ready, "the client learns which of its
\* streams are processed": no stream above the last stream id of the graceful
\* GOAWAY frame is ever opened.
GracefulGoAway ==
    graceful # None => \A id \in opened : id <= graceful
=============================================================================
