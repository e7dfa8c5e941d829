------------------------------ MODULE RecvFlow ------------------------------
(***************************************************************************)
(* Receive flow control of an endpoint (stream.rs Capacity, recv_data,     *)
(* received_data_*, update_recv_window; connection.rs data_received,       *)
(* data_consumed, recv_settings) against a peer that obeys the windows it  *)
(* was given.  Frames travel in order in both directions, so a WINDOW_     *)
(* UPDATE frame, the local SETTINGS frame or its acknowledgment can be     *)
(* under way while DATA frames are sent the other way.                     *)
(*                                                                         *)
(* Left out: DATA before the response headers, and the final messages of   *)
(* streams, see Connection.                                                *)
(***************************************************************************)
EXTENDS FlowWindow, Sequences, FiniteSets, FiniteSetsExt, SequencesExt

Con == 0   \* StreamId::CON

CONSTANTS
    Streams,       \* streams of the connection
    Configs,       \* configurations of the endpoint and its role
    MaxFlight      \* bound: frames under way in one direction

\* server: flag SERVER; default: DEFAULT_INITIAL_WINDOW_SIZE (65535);
\* window: window_sz; conn: connection_window_sz; max: i32::MAX;
\* data: bound, bytes the peer sends
ConfigType(c) ==
    /\ c.server \in BOOLEAN
    /\ c.default \in Nat \ {0}
    /\ c.max \in Nat /\ c.data \in Nat
    /\ c.window \in 0 .. c.max
    /\ c.conn \in 0 .. c.max

ASSUME RecvFlowAssumption ==
    /\ IsFiniteSet(Streams) /\ Con \notin Streams
    /\ \A c \in Configs : ConfigType(c)
    /\ MaxFlight \in Nat

VARIABLES
    config,       \* the configuration, it never changes
    half,         \* receive half of a stream, "gone" if it is not in the map
    recv_window, recv_size,
    con_window, con_size,
    acked,        \* flag SETTINGS_PROCESSED
    failing,      \* streams that recv_settings() failed, not yet reset
    out,          \* frames under way to the peer
    in,           \* frames under way from the peer
    peer_window, peer_con,
    peer_open,    \* streams the peer may send on
    peer_applied, \* the peer applied the local settings
    sent,         \* bytes sent by the peer
    exceeded      \* the peer was failed for bytes that its windows allowed

localVars == <<config, half, recv_window, recv_size, con_window, con_size, acked, failing, exceeded>>
peerVars == <<peer_window, peer_con, peer_open, peer_applied, sent>>
vars == <<localVars, peerVars, out, in>>

server == config.server    \* the peer opens the streams
Default == config.default
Window == config.window
ConnWindow == config.conn
MaxWindow == config.max
MaxData == config.data

Threshold == Window \div 3
ConnThreshold == ConnWindow \div 4

Update(id, inc) == [kind |-> "update", id |-> id, inc |-> inc]
Frame(kind, id) == [kind |-> kind, id |-> id]
Data(id, len, pad, eof) == [kind |-> "data", id |-> id, len |-> len, pad |-> pad, eof |-> eof]

TypeOK ==
    /\ config \in Configs
    /\ half \in [Streams -> {"idle", "open", "closed", "gone"}]
    /\ recv_window \in [Streams -> Int]
    /\ recv_size \in [Streams -> Nat]
    /\ con_window \in Nat /\ con_size \in Nat
    /\ acked \in BOOLEAN /\ peer_applied \in BOOLEAN /\ exceeded \in BOOLEAN
    /\ peer_window \in [Streams -> Int] /\ peer_con \in Nat
    /\ peer_open \subseteq Streams /\ failing \subseteq Streams
    /\ sent \in Nat

\* Connection::new(): SETTINGS and the update of the connection window
Init ==
    /\ config \in Configs
    /\ half = [s \in Streams |-> "idle"]
    /\ recv_window = [s \in Streams |-> Default]
    /\ recv_size = [s \in Streams |-> 0]
    /\ con_window = Updated(Default, 0, ConnWindow, ConnThreshold)
    /\ con_size = 0
    /\ acked = FALSE
    /\ failing = {}
    /\ out = <<Frame("settings", Con)>> \o
             (IF UpdateDue(Default, 0, ConnWindow, ConnThreshold)
              THEN <<Update(Con, Available(Default, 0, ConnWindow))>> ELSE <<>>)
    /\ in = <<>>
    /\ peer_window = [s \in Streams |-> Default]
    /\ peer_con = Default
    /\ peer_open = {}
    /\ peer_applied = FALSE
    /\ sent = 0
    /\ exceeded = FALSE

-----------------------------------------------------------------------------
(* Releasing received data. *)

\* StreamRef::new(): the window of a new stream
NewWindow == IF acked THEN Window ELSE Default

\* mutant: the connection window grows without a frame
ConUpdateSilent(window, size) == <<>>

\* data_consumed() of the connection: the frame that is written
ConUpdate(window, size) ==
    IF UpdateDue(window, size, ConnWindow, ConnThreshold)
    THEN <<Update(Con, Available(window, size, ConnWindow))>> ELSE <<>>

\* data_received() and data_consumed(): the windows after them, and the
\* frames with the ones that are written before and after
ConRelease(window, size, before, after) ==
    /\ con_window' = Updated(window, size, ConnWindow, ConnThreshold)
    /\ con_size' = size
    /\ out' = out \o before \o ConUpdate(window, size) \o after

\* received_data_consumed(): `window` and `size` are the stream's after it
\* received what is consumed, the connection received `more` bytes before
StreamRelease(s, window, size, open, more, consumed) ==
    LET left == size - consumed
        due == open /\ UpdateDue(window, left, Window, Threshold)
    IN  /\ recv_size' = [recv_size EXCEPT ![s] = left]
        /\ recv_window' = [recv_window EXCEPT ![s] =
              IF due THEN window + Available(window, left, Window) ELSE window]
        /\ ConRelease(con_window - more, con_size + more - consumed,
              IF due THEN <<Update(s, Available(window, left, Window))>> ELSE <<>>, <<>>)

\* Capacity::consume() or drop: the application releases n bytes
Consume(s, n) ==
    /\ n <= recv_size[s]
    /\ StreamRelease(s, recv_window[s], recv_size[s], half[s] = "open", 0, n)
    /\ UNCHANGED <<half, acked, failing, exceeded, config, peerVars, in>>

-----------------------------------------------------------------------------
(* Received frames. *)

\* the next frame is of this kind
Received(kind) == in # <<>> /\ Head(in).kind = kind

\* recv_headers() of a server
RecvHeaders ==
    /\ Received("headers")
    /\ in' = Tail(in)
    /\ half' = [half EXCEPT ![Head(in).id] = "open"]
    /\ recv_window' = [recv_window EXCEPT ![Head(in).id] = NewWindow]
    /\ UNCHANGED <<recv_size, con_window, con_size, acked, failing, exceeded, config, peerVars, out>>

\* recv_data() of the connection and of the stream.  The window of a stream
\* that recv_settings() failed did not follow the settings: it may be
\* exceeded before the dispatcher resets the stream, which is lost anyway.
\* An empty DATA frame exceeds a negative window, although the peer may end
\* the stream with one; `exceeded` leaves both cases out.
RecvData ==
    /\ Received("data")
    /\ in' = Tail(in)
    /\ UNCHANGED <<acked, failing, config, peerVars>>
    /\ LET f == Head(in)
           s == f.id
       IN  IF f.len > con_window
           THEN /\ exceeded' = TRUE
                /\ UNCHANGED <<half, recv_window, recv_size, con_window, con_size, out>>
           ELSE IF half[s] = "gone"
           THEN /\ ConRelease(con_window - f.len, con_size, <<>>, <<>>)
                /\ UNCHANGED <<half, recv_window, recv_size, exceeded>>
           ELSE IF f.len > recv_window[s]
           THEN /\ exceeded' = (exceeded \/ (f.len > 0 /\ s \notin failing))
                /\ half' = [half EXCEPT ![s] = "gone"]
                /\ ConRelease(con_window - f.len, con_size, <<>>, <<Frame("rst", s)>>)
                /\ UNCHANGED <<recv_window, recv_size>>
           ELSE /\ half' = [half EXCEPT ![s] = IF f.eof THEN "closed" ELSE @]
                /\ UNCHANGED exceeded
                /\ IF f.pad = 0
                   THEN /\ recv_window' = [recv_window EXCEPT ![s] = @ - f.len]
                        /\ recv_size' = [recv_size EXCEPT ![s] = @ + f.len]
                        /\ con_window' = con_window - f.len
                        /\ con_size' = con_size + f.len
                        /\ UNCHANGED out
                   ELSE StreamRelease(s, recv_window[s] - f.len, recv_size[s] + f.len,
                                      half[s] = "open", f.len, f.pad)

\* the window of a stream once the peer applied the local settings
AckedWindow(s) == recv_window[s] + (Window - Default)

\* mutant: the windows of open streams do not follow the settings
RecvAckOld ==
    /\ Received("ack")
    /\ in' = Tail(in)
    /\ acked' = TRUE
    /\ UNCHANGED <<half, recv_window, recv_size, con_window, con_size, failing, exceeded, config, peerVars, out>>

\* what update_recv_window() gives back to the peer
AckedUpdate(s) == Available(AckedWindow(s), recv_size[s], Window)

\* recv_settings() with an acknowledgment, update_recv_window() of all streams
\* in the map, in any order.  A stream whose window overflows is failed: the
\* dispatcher resets the first one in the same poll, the others follow.
RecvAck ==
    LET live == {s \in Streams : half[s] = "open"}
        over == {s \in live : Overflows(recv_window[s], Window - Default, MaxWindow)}
        due == {s \in live \ over : Window # Default
                   /\ UpdateDue(AckedWindow(s), recv_size[s], Window, Threshold)}
    IN  /\ Received("ack")
        /\ in' = Tail(in)
        /\ acked' = TRUE
        /\ recv_window' = [s \in Streams |->
              IF s \in due THEN AckedWindow(s) + AckedUpdate(s)
              ELSE IF s \in live \ over THEN AckedWindow(s)
              ELSE recv_window[s]]
        /\ \E order \in SetToSeqs(due) :
              LET updates == [k \in DOMAIN order |-> Update(order[k], AckedUpdate(order[k]))]
              IN  \/ /\ over = {}
                     /\ out' = out \o updates
                     /\ UNCHANGED <<half, failing>>
                  \/ \E s \in over :
                        /\ failing' = over \ {s}
                        /\ half' = [half EXCEPT ![s] = "gone"]
                        /\ out' = Append(out \o updates, Frame("rst", s))
        /\ UNCHANGED <<recv_size, con_window, con_size, exceeded, config, peerVars>>

\* The dispatcher waits for the publish service after each stream it resets;
\* RST_STREAM is written whatever happened to the stream meanwhile.
FailNext(s) ==
    /\ s \in failing
    /\ failing' = failing \ {s}
    /\ half' = [half EXCEPT ![s] = "gone"]
    /\ out' = Append(out, Frame("rst", s))
    /\ UNCHANGED <<recv_window, recv_size, con_window, con_size, acked, exceeded, config, peerVars, in>>

-----------------------------------------------------------------------------
(* The application. *)

\* open_stream() of a client
OpenStream(s) ==
    /\ ~server
    /\ half[s] = "idle"
    /\ Len(out) < MaxFlight
    /\ half' = [half EXCEPT ![s] = "open"]
    /\ recv_window' = [recv_window EXCEPT ![s] = NewWindow]
    /\ out' = Append(out, Frame("headers", s))
    /\ UNCHANGED <<recv_size, con_window, con_size, acked, failing, exceeded, config, peerVars, in>>

\* reset_stream()
Reset(s) ==
    /\ half[s] \in {"open", "closed"}
    /\ half' = [half EXCEPT ![s] = "gone"]
    /\ out' = Append(out, Frame("rst", s))
    /\ UNCHANGED <<recv_window, recv_size, con_window, con_size, acked, failing, exceeded, config, peerVars, in>>

-----------------------------------------------------------------------------
(* The peer. *)

PeerNewWindow == IF peer_applied THEN Window ELSE Default

PeerOpens(s) ==
    /\ server
    /\ half[s] = "idle" /\ s \notin peer_open
    /\ ~\E k \in DOMAIN in : in[k].kind = "headers" /\ in[k].id = s
    /\ Len(in) < MaxFlight
    /\ peer_open' = peer_open \union {s}
    /\ peer_window' = [peer_window EXCEPT ![s] = PeerNewWindow]
    /\ in' = Append(in, Frame("headers", s))
    /\ UNCHANGED <<localVars, peer_con, peer_applied, sent, out>>

\* a DATA frame the peer's windows allow, an empty one only ends the stream
\* and needs no window; the window of a stream that it is done with is
\* forgotten
PeerSends(s, len, pad, eof) ==
    /\ s \in peer_open
    /\ pad <= len /\ (len = 0 => eof)
    /\ len > 0 => len <= peer_window[s] /\ len <= peer_con
    /\ sent + len <= MaxData
    /\ Len(in) < MaxFlight
    /\ sent' = sent + len
    /\ peer_window' = [peer_window EXCEPT ![s] = IF eof THEN Default ELSE @ - len]
    /\ peer_con' = peer_con - len
    /\ peer_open' = IF eof THEN peer_open \ {s} ELSE peer_open
    /\ in' = Append(in, Data(s, len, pad, eof))
    /\ UNCHANGED <<localVars, peer_applied, out>>

\* the peer handles a frame, it gives up a stream whose window overflows
PeerRecv ==
    /\ out # <<>>
    /\ out' = Tail(out)
    /\ UNCHANGED <<localVars, sent>>
    /\ LET f == Head(out)
       IN  \/ /\ f.kind = "settings"
              /\ peer_applied' = TRUE
              /\ peer_window' = [s \in Streams |->
                    IF s \in peer_open THEN peer_window[s] + Window - Default ELSE peer_window[s]]
              /\ in' = Append(in, Frame("ack", Con))
              /\ UNCHANGED <<peer_con, peer_open>>
           \/ /\ f.kind = "update"
              /\ IF f.id = Con
                 THEN peer_con' = peer_con + f.inc /\ UNCHANGED <<peer_window, peer_open>>
                 ELSE /\ LET over == f.id \in peer_open /\ Overflows(peer_window[f.id], f.inc, MaxWindow)
                         IN  /\ peer_open' = IF over THEN peer_open \ {f.id} ELSE peer_open
                             /\ peer_window' = [peer_window EXCEPT ![f.id] =
                                   IF over THEN Default
                                   ELSE IF f.id \in peer_open THEN @ + f.inc ELSE @]
                      /\ UNCHANGED peer_con
              /\ UNCHANGED <<peer_applied, in>>
           \/ /\ f.kind = "headers"
              /\ peer_open' = peer_open \union {f.id}
              /\ peer_window' = [peer_window EXCEPT ![f.id] = PeerNewWindow]
              /\ UNCHANGED <<peer_con, peer_applied, in>>
           \/ /\ f.kind = "rst"
              /\ peer_open' = peer_open \ {f.id}
              /\ peer_window' = [peer_window EXCEPT ![f.id] = Default]
              /\ UNCHANGED <<peer_con, peer_applied, in>>

Next ==
    \/ RecvHeaders \/ RecvData \/ RecvAck \/ PeerRecv
    \/ \E s \in Streams : OpenStream(s) \/ Reset(s) \/ FailNext(s) \/ PeerOpens(s)
    \/ \E s \in Streams, n \in 0 .. MaxData : Consume(s, n)
    \/ \E s \in Streams, len \in 0 .. MaxData, pad \in 0 .. 1, eof \in BOOLEAN :
          PeerSends(s, len, pad, eof)

Spec == Init /\ [][Next]_vars

-----------------------------------------------------------------------------
(* Properties. *)

\* the bytes that the frames of a kind for these streams stand for
Amount(f, kind, ids) ==
    IF f.kind = kind /\ f.id \in ids
    THEN IF kind = "data" THEN f.len ELSE f.inc ELSE 0

\* ... in the first n frames of the queue q
Running(q, kind, ids) ==
    LET sum[n \in 0 .. Len(q)] ==
          IF n = 0 THEN 0 ELSE sum[n - 1] + Amount(q[n], kind, ids)
    IN  sum

Total(q, kind, ids) == Running(q, kind, ids)[Len(q)]

\* stream.rs recv_data, connection.rs recv_data: a peer that obeys its windows
\* is never failed for exceeding a receive window, whatever is on its way
\* while SETTINGS are exchanged and windows are updated.  Left out are a
\* stream that the endpoint already failed for an overflow of its window, and
\* an empty frame that ends a stream whose window is negative: recv_data()
\* fails it, though send_pages() of this crate sends such frames.
PeerNotFailed == ~exceeded

\* The connection window is what the peer knows plus what is on its way: no
\* received byte is lost or counted twice, for data of closed streams and for
\* padding too.
ConWindowMatches ==
    con_window = peer_con + Total(out, "update", {Con}) + Total(in, "data", Streams)

\* config.rs set_initial_connection_window_size, "it bounds the amount of
\* unconsumed data buffered for all streams of the connection".
BufferBound ==
    con_size + con_window <= Max({Default, ConnWindow})

\* Flow control never deadlocks: once the application consumed everything and
\* nothing is on its way, the peer may send on every open stream; and no
\* WINDOW_UPDATE frame has the increment 0, which is an error for the peer
\* (window.rs update, "returns a positive number representing the increment").
PeerMaySend ==
    /\ out = <<>> /\ in = <<>> =>
        /\ con_size = 0 /\ ConnWindow > 0 => peer_con > 0
        /\ \A s \in peer_open :
              half[s] = "open" /\ recv_size[s] = 0 /\ Window > 0 => peer_window[s] > 0
    /\ \A k \in DOMAIN out : out[k].kind = "update" => out[k].inc > 0

=============================================================================
