---------------------------- MODULE ClientStream ----------------------------
(***************************************************************************)
(* A stream of a client as its user sees it (client/stream.rs): SendStream *)
(* and RecvStream, the message queue between the dispatcher and recv(),    *)
(* and the validation of the response (stream.rs recv_headers, recv_data). *)
(*                                                                         *)
(* The stream is the only one of its connection, the peer is arbitrary.  A *)
(* call of the dispatcher is one step, HandleService never waits.  The     *)
(* Disconnect message of a failed connection comes from a task of its own. *)
(* Windows are in RecvFlow and SendFlow, frames of streams that are not in *)
(* the map are in Connection.                                              *)
(***************************************************************************)
EXTENDS Naturals, Sequences, SequencesExt

CONSTANTS
    MaxLen,    \* bound: largest content-length and payload of a DATA frame
    MaxBody,   \* bound: bytes of a response
    MaxQueue,  \* bound: messages in the queue
    None,      \* no content-length, ContentLength::Omitted
    NoContent, \* ContentLength::Head
    Unparsed   \* a content-length that is not a number

ASSUME ClientStreamAssumption ==
    /\ {MaxLen, MaxBody, MaxQueue} \subseteq Nat
    /\ None \notin Nat /\ NoContent \notin Nat /\ Unparsed \notin Nat
    /\ None # NoContent /\ None # Unparsed

Lengths == 0 .. MaxLen

VARIABLES
    head,           \* the method is HEAD
    recv, send,     \* StreamState::recv, StreamState::send
    remaining,      \* StreamState::content_length: Omitted, Head or Remaining
    local_close,    \* StreamState::local_close
    no_reset,       \* flag NO_RESET_ON_DROP
    disc_on_drop,   \* flag DISCONNECT_ON_DROP
    disconnecting,  \* flag DISCONNECT_WHEN_READY of the connection
    io_closed,      \* io.is_closed()
    stopped,        \* the dispatcher was stopped
    handles,        \* the halves the user holds
    queue, last,    \* Inflight::response and Inflight::last
    waiter,         \* the Waiter of RecvStream: "new", "armed" or "fired"
    task,           \* the future of recv(): "none", "parked" or "woken"
    spawned,        \* the Disconnect message is under way
    response,       \* history: what recv() returned
    late_reset      \* history: reset by the user after the io was closed

streamVars == <<recv, send, remaining, local_close>>
connVars == <<disconnecting, io_closed, stopped, spawned>>
handleVars == <<no_reset, disc_on_drop, handles>>
queueVars == <<queue, last>>
recvVars == <<waiter, task>>
vars == <<head, streamVars, connVars, handleVars, queueVars, recvVars, response, late_reset>>

Halves == {"idle", "payload", "closed"}
Kinds == {"interim", "headers", "headers_eof", "data", "eof_data", "trailers", "error", "disconnect"}
Message == [kind : Kinds, len : Lengths \union {None}]

TypeOK ==
    /\ {recv, send} \subseteq Halves
    /\ remaining \in {None, NoContent} \union Lengths
    /\ {head, local_close, no_reset, disc_on_drop, disconnecting, io_closed,
        stopped, last, spawned, late_reset} \subseteq BOOLEAN
    /\ handles \subseteq {"send", "recv"}
    /\ queue \in Seq(Message)
    /\ waiter \in {"new", "armed", "fired"}
    /\ task \in {"none", "parked", "woken"}

\* The handles right after SimpleClient::send() opened the stream.
Init ==
    /\ head \in BOOLEAN
    /\ recv = "idle"
    /\ send \in {"payload", "closed"}
    /\ remaining = IF head THEN NoContent ELSE None
    /\ no_reset = TRUE
    /\ handles = {"send", "recv"}
    /\ queue = <<>>
    /\ waiter = "new" /\ task = "none"
    /\ response = [phase |-> "start", declared |-> None, got |-> 0]
    /\ local_close = FALSE /\ disc_on_drop = FALSE
    /\ disconnecting = FALSE /\ io_closed = FALSE /\ stopped = FALSE
    /\ last = FALSE /\ spawned = FALSE /\ late_reset = FALSE

-----------------------------------------------------------------------------
(* Closing and publishing. *)

InMap == recv # "closed" \/ send # "closed"

\* Inflight::push, the message is final
IsLast(m) == m.kind \notin {"interim", "headers", "data"}

\* Messages for a stream whose RecvStream was dropped are lost.
Pushed(msgs) == "recv" \in handles /\ msgs # <<>>

Push(msgs) ==
    IF Pushed(msgs)
    THEN queue' = queue \o msgs /\ last' = (last \/ \E i \in DOMAIN msgs : IsLast(msgs[i]))
    ELSE UNCHANGED queueVars

\* Mutant: only a message wakes the future.
WakesByMessage(fires, msgs) ==
    /\ UNCHANGED waiter
    /\ task' = IF task = "parked" /\ Pushed(msgs) THEN "woken" ELSE task

\* review_state() wakes the stream's waiters when recv is closed, io.close()
\* wakes every waiter; a pushed message wakes the future by its own waker.
Wakes(fires, msgs) ==
    /\ waiter' = IF fires /\ waiter = "armed" THEN "fired" ELSE waiter
    /\ task' = IF task = "parked" /\ (Pushed(msgs) \/ waiter' # waiter) THEN "woken" ELSE task

\* The halves become r and s, the connection's flag becomes disc, the stream
\* is dropped once both halves are closed, which closes the io of a connection
\* that is disconnecting, and msgs are published.
Change(r, s, disc, msgs) ==
    /\ recv' = r /\ send' = s
    /\ disconnecting' = disc
    /\ io_closed' = (io_closed \/ (disc /\ r = "closed" /\ s = "closed"))
    /\ Push(msgs)
    /\ Wakes((r = "closed" /\ <<r, s>> # <<recv, send>>) \/ io_closed' # io_closed, msgs)

Published(kind, len) == <<[kind |-> kind, len |-> len]>>

-----------------------------------------------------------------------------
(* Frames of the peer for the stream. *)

QueuedBody == FoldLeft(LAMBDA n, m : IF m.kind \in {"data", "eof_data"} THEN n + m.len ELSE n, 0, queue)

CanRecv == InMap /\ ~stopped /\ Len(queue) < MaxQueue

FrameUnchanged ==
    UNCHANGED <<head, local_close, stopped, spawned, handleVars, response, late_reset>>

\* Dispatcher::handle_message: reset_silent() and the final message.
StreamError == Change("closed", "closed", disconnecting, Published("error", None))

\* The header block of a HEADERS frame: a response (:status alone), an interim
\* response, a 304, no pseudo-header, or pseudo-headers a response must not have.
Blocks == {"final", "interim", "switching", "not_modified", "fields", "request"}

BadResponse(block, eof) ==
    \/ block \in {"fields", "request", "switching"}
    \/ block = "interim" /\ eof

BadLength(block, len, eof) ==
    /\ remaining # NoContent /\ len # None
    /\ len = Unparsed \/ (eof /\ len # 0 /\ block # "not_modified")

RecvResponse(block, len, eof) ==
    /\ recv = "idle"
    /\ \/ /\ BadResponse(block, eof) \/ (block # "interim" /\ BadLength(block, len, eof))
          /\ StreamError
          /\ UNCHANGED remaining
       \/ /\ block = "interim" /\ ~eof
          /\ Change(recv, send, disconnecting, Published("interim", None))
          /\ UNCHANGED remaining
       \/ /\ block \in {"final", "not_modified"}
          /\ ~BadLength(block, len, eof)
          /\ remaining' = IF remaining = NoContent \/ len = None THEN remaining ELSE len
          /\ LET declared == IF remaining = NoContent \/ (eof /\ block = "not_modified")
                             THEN None ELSE len
             IN IF eof
                THEN Change("closed", send, disconnecting, Published("headers_eof", declared))
                ELSE Change("payload", send, disconnecting, Published("headers", declared))

RecvTrailers(block, eof) ==
    /\ recv # "idle"
    /\ IF recv = "payload" /\ remaining \in {None, NoContent, 0} /\ block = "fields" /\ eof
       THEN Change("closed", send, disconnecting, Published("trailers", None))
       ELSE StreamError
    /\ UNCHANGED remaining

RecvHeaders ==
    /\ CanRecv
    /\ \E block \in Blocks, len \in Lengths \union {None, Unparsed}, eof \in BOOLEAN :
         RecvResponse(block, len, eof) \/ RecvTrailers(block, eof)
    /\ FrameUnchanged

\* Mutant: a body that ends early is accepted.
WrongLengthOver(len, eof) ==
    \/ remaining \in Lengths /\ len > remaining
    \/ remaining = NoContent /\ len # 0

\* The payload does not fit the announced length.
WrongLength(len, eof) ==
    \/ remaining \in Lengths /\ (len > remaining \/ (eof /\ len # remaining))
    \/ remaining = NoContent /\ len # 0

Left(len) == IF remaining \in Lengths /\ len <= remaining THEN remaining - len ELSE remaining

RecvData ==
    /\ CanRecv
    /\ \E len \in Lengths, eof \in BOOLEAN :
        /\ response.got + QueuedBody + len <= MaxBody
        /\ remaining' = IF recv = "payload" THEN Left(len) ELSE remaining
        /\ IF recv # "payload" \/ WrongLength(len, eof) THEN StreamError
           ELSE IF eof THEN Change("closed", send, disconnecting, Published("eof_data", len))
           ELSE Change(recv, send, disconnecting, Published("data", len))
    /\ FrameUnchanged

\* An invalid frame, a window that overflows, or data beyond the window.
RecvInvalid ==
    /\ CanRecv
    /\ StreamError
    /\ UNCHANGED remaining
    /\ FrameUnchanged

\* The final message of a complete response is published already, a server
\* that does not want the rest of the request says NO_ERROR.
RecvRst ==
    /\ CanRecv
    /\ \E no_error \in BOOLEAN :
         Change("closed", "closed", disconnecting,
                IF recv = "closed" /\ no_error THEN <<>> ELSE Published("error", None))
    /\ UNCHANGED remaining
    /\ FrameUnchanged

\* recv_go_away: a stream the peer does not process is failed.
RecvGoAway ==
    /\ ~stopped
    /\ \E processed \in BOOLEAN :
        IF processed \/ ~InMap
        THEN Change(recv, send, TRUE, <<>>) /\ UNCHANGED spawned
        ELSE Change("closed", "closed", TRUE, <<>>) /\ spawned' = TRUE
    /\ UNCHANGED <<head, remaining, local_close, stopped, handleVars, response, late_reset>>

-----------------------------------------------------------------------------
(* The connection. *)

\* A protocol error, a timeout or the end of the io stops the dispatcher: the
\* stream is failed, the io is closed.
Stop ==
    /\ ~stopped
    /\ stopped' = TRUE
    /\ recv' = "closed" /\ send' = "closed"
    /\ spawned' = (spawned \/ InMap)
    /\ io_closed' = TRUE
    /\ Wakes(InMap \/ ~io_closed, <<>>)
    /\ UNCHANGED <<head, remaining, local_close, disconnecting, handleVars, queueVars, response, late_reset>>

\* handle_connection_error: the spawned task publishes the message.
PublishDisconnect ==
    /\ spawned
    /\ spawned' = FALSE
    /\ Push(Published("disconnect", None))
    /\ Wakes(FALSE, Published("disconnect", None))
    /\ UNCHANGED <<head, streamVars, disconnecting, io_closed, stopped, handleVars, response, late_reset>>

\* The transport fails or the user closes it by force.
IoCloses ==
    /\ ~io_closed
    /\ io_closed' = TRUE
    /\ Wakes(TRUE, <<>>)
    /\ UNCHANGED <<head, streamVars, disconnecting, stopped, spawned, handleVars, queueVars, response, late_reset>>

\* SimpleClient::close or its last clone is dropped.
Disconnect ==
    /\ Change(recv, send, TRUE, <<>>)
    /\ UNCHANGED <<head, remaining, local_close, stopped, spawned, handleVars, response, late_reset>>

-----------------------------------------------------------------------------
(* The user. *)

LocalUnchanged == UNCHANGED <<head, remaining, stopped, spawned, response>>

\* StreamRef::reset, disc is the connection's flag after it
LocalReset(disc) ==
    /\ IF InMap THEN Change("closed", "closed", disc, <<>>) ELSE Change(recv, send, disc, <<>>)
    /\ local_close' = (local_close \/ recv # "closed")
    /\ late_reset' = (late_reset \/ (io_closed /\ recv # "closed"))

\* The end of the request: an END_STREAM flag or trailers.
SendEof ==
    /\ "send" \in handles
    /\ send = "payload"
    /\ Change(recv, "closed", disconnecting, <<>>)
    /\ UNCHANGED <<local_close, handleVars, late_reset>>
    /\ LocalUnchanged

\* SendStream::reset, or the capacity timeout of a sender
Reset ==
    /\ "send" \in handles
    /\ InMap
    /\ LocalReset(disconnecting)
    /\ UNCHANGED handleVars
    /\ LocalUnchanged

DisconnectOnDrop ==
    /\ handles # {}
    /\ disc_on_drop' = TRUE
    /\ UNCHANGED <<no_reset, handles, streamVars, disconnecting, io_closed, queueVars, recvVars, late_reset>>
    /\ LocalUnchanged

\* Mutant: the reset is left to the Stream of the storage.
DropSendLazy ==
    /\ "send" \in handles
    /\ handles' = handles \ {"send"}
    /\ no_reset' = FALSE
    /\ UNCHANGED <<disc_on_drop, recv, send, local_close, disconnecting, io_closed, queueVars, recvVars, late_reset>>
    /\ LocalUnchanged

DropSend ==
    /\ "send" \in handles
    /\ handles' = handles \ {"send"}
    /\ no_reset' = FALSE
    /\ IF send # "closed" THEN LocalReset(disconnecting \/ disc_on_drop)
       ELSE UNCHANGED <<recv, send, local_close, disconnecting, io_closed, queueVars, recvVars, late_reset>>
    /\ UNCHANGED disc_on_drop
    /\ LocalUnchanged

\* The entry of the storage is removed, with it the Stream that resets what is
\* open unless the SendStream is alive.
DropRecv ==
    /\ "recv" \in handles /\ task = "none"
    /\ handles' = handles \ {"recv"}
    /\ CASE recv # "closed" -> LocalReset(disconnecting \/ disc_on_drop)
         [] recv = "closed" /\ ~no_reset -> LocalReset(disconnecting)
         [] OTHER -> UNCHANGED <<recv, send, local_close, disconnecting, io_closed, queueVars, recvVars, late_reset>>
    /\ UNCHANGED <<no_reset, disc_on_drop>>
    /\ LocalUnchanged

\* What the user has seen of the response after one more message.
After(r, m) ==
    CASE m.kind = "interim" /\ r.phase = "start" -> r
      [] m.kind = "headers" /\ r.phase = "start" -> [r EXCEPT !.phase = "body", !.declared = m.len]
      [] m.kind = "headers_eof" /\ r.phase = "start" -> [r EXCEPT !.phase = "end", !.declared = m.len]
      [] m.kind = "data" /\ r.phase = "body" -> [r EXCEPT !.got = @ + m.len]
      [] m.kind = "eof_data" /\ r.phase = "body" -> [r EXCEPT !.phase = "end", !.got = @ + m.len]
      [] m.kind = "trailers" /\ r.phase = "body" -> [r EXCEPT !.phase = "end"]
      [] m.kind \in {"error", "disconnect"} /\ r.phase # "failed" -> [r EXCEPT !.phase = "failed"]
      [] OTHER -> [r EXCEPT !.phase = "bad"]

PollUnchanged == UNCHANGED <<head, recv, send, remaining, connVars, handleVars, late_reset>>

PollMessage ==
    /\ queue # <<>>
    /\ queue' = Tail(queue)
    /\ response' = After(response, Head(queue))
    /\ task' = "none"
    /\ UNCHANGED <<local_close, last, waiter>>

\* RecvStream::local_close
LocalClosed == recv = "closed" /\ local_close

PollEnd ==
    /\ queue = <<>>
    /\ last \/ LocalClosed
    /\ last' = TRUE
    /\ local_close' = (local_close /\ last)
    /\ task' = "none"
    /\ UNCHANGED <<queue, response, waiter>>

\* The waiter is polled until it is not ready, which registers it; the loop is
\* left with the waiter unregistered when recv or the io is closed.
PollPending ==
    /\ queue = <<>> /\ ~last /\ ~LocalClosed
    /\ task' = "parked"
    /\ waiter' = IF (waiter = "fired" /\ recv = "closed") \/ io_closed THEN "new" ELSE "armed"
    /\ UNCHANGED <<local_close, queueVars, response>>

Poll == (PollMessage \/ PollEnd \/ PollPending) /\ PollUnchanged

\* recv() is called, its future is polled at once.
Recv == "recv" \in handles /\ task = "none" /\ Poll

\* The future is polled again after a wake-up.
PollAgain == task = "woken" /\ Poll

DropFuture ==
    /\ task # "none"
    /\ task' = "none"
    /\ UNCHANGED <<head, streamVars, connVars, handleVars, queueVars, waiter, response, late_reset>>

-----------------------------------------------------------------------------

Peer == RecvHeaders \/ RecvData \/ RecvInvalid \/ RecvRst \/ RecvGoAway

User ==
    \/ SendEof \/ Reset \/ DisconnectOnDrop \/ DropSend \/ DropRecv
    \/ Recv \/ PollAgain \/ DropFuture \/ Disconnect

Next == Peer \/ User \/ Stop \/ PublishDisconnect \/ IoCloses

\* The executor runs woken futures and spawned tasks, the dispatcher of a
\* closed io is stopped.
Fairness ==
    /\ WF_vars(PollAgain)
    /\ WF_vars(PublishDisconnect)
    /\ WF_vars(io_closed /\ Stop)

Spec == Init /\ [][Next]_vars /\ Fairness

-----------------------------------------------------------------------------
(* Properties. *)

\* stream.rs recv_headers/recv_data, client/stream.rs Inflight: whatever the
\* peer sends, recv() returns interim responses, the response, data and an end
\* in this order, one final message after a complete response at most, and the
\* body of a response that ends without error has the announced length.
ResponseWellFormed ==
    /\ response.phase # "bad"
    /\ response.declared # None =>
        /\ response.got <= response.declared
        /\ response.phase = "end" => response.got = response.declared
    /\ head => response.got = 0

\* client/stream.rs drop of SendStream and RecvStream: in whatever order the
\* halves end and the handles go, a stream without handles is closed on both
\* sides, so its slot is free.
HandlesRelease == handles = {} => ~InMap

\* client/stream.rs poll_recv: recv() does not sleep for ever on a message, on
\* a closed receive side or on a closed connection, whether the peer, the
\* connection or the user closed it.  A reset by the user of a stream whose io
\* is closed already is left out, see DropSend and PollPending.
RecvEnds ==
    task # "none" /\ (queue # <<>> \/ recv = "closed" \/ io_closed)
        ~> task = "none" \/ late_reset

=============================================================================
