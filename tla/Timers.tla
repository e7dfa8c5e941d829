------------------------------- MODULE Timers -------------------------------
(***************************************************************************)
(* Time limits of a connection: the handshake (server/service.rs,          *)
(* client/connector.rs), the settings timer and the keep-alive task        *)
(* (connection.rs settings_timer, ping), and the capacity timer of its     *)
(* streams (timer.rs, stream.rs), which all end in the dispatcher or in a  *)
(* stream.                                                                 *)
(*                                                                         *)
(* Time passes in units, Second of them are a second.  A task runs when    *)
(* its sleep is over or later: the executor is late by Slack at most.      *)
(* Windows are in SendFlow, here a stream has capacity or not.             *)
(***************************************************************************)
EXTENDS Timer, Integers

CONSTANTS
    Streams,       \* streams that may be opened
    Configs,       \* configurations, with the kind of peer
    Second,        \* units of a second
    Extra,         \* the 100 milliseconds added to ping_timeout
    Delay,         \* bound: units until a live peer answers
    Slack,         \* bound: units a task may be late
    MaxTime,       \* bound: units of a behaviour
    None

\* handshake, settings, ping and capacity: the timeouts in seconds, 0 for none
\* (capacity_timeout None); live: the peer answers within Delay; streams:
\* bound, the streams that are opened
ConfigType(c) ==
    /\ c.streams \subseteq Streams
    /\ {c.handshake, c.settings, c.ping, c.capacity} \subseteq Nat
    /\ c.live \in BOOLEAN

ASSUME TimersAssumption ==
    /\ \A c \in Configs : ConfigType(c)
    /\ Second \in Nat \ {0}
    /\ {Extra, Delay, Slack, MaxTime} \subseteq Nat
    /\ None \notin Nat

\* a live peer answers a PING before the keep-alive task runs again
ASSUME LivePeerAssumption ==
    \A c \in Configs : c.live /\ c.ping # 0 => Delay < c.ping * Second + Extra

VARIABLES
    config, now,
    phase,         \* "handshake", "open", "failed" (ConnectionState::error) or "refused"
    reason,        \* the error
    io_closed,     \* io.is_closed()
    ping_due, settings_due, tick_due, \* ends of the tasks' sleeps
    pings,         \* counter of ping() and ping_payload
    pong,          \* flag RECV_PONG
    acked,         \* flag SETTINGS_PROCESSED
    settings_out,  \* flag SETTINGS_TIMEOUT
    notified,      \* when io.notify_timeout() was called
    net,           \* PING frames the peer has not answered, with their time
    timer,         \* the timer of the thread
    open,          \* streams in the map whose send half is open
    half,          \* streams in the map whose send half is closed
    capacity,      \* streams with send capacity
    waits,         \* flag WAIT_FOR_CAPACITY
    armed,         \* flag CAPACITY_TIMER
    late,          \* streams reset by the capacity timeout
    registered,    \* history: when the stream's timeout was registered
    heard,         \* history: when the last PING was answered
    since          \* history: when the connection was created

handshakeVars == <<phase, reason, io_closed, since>>
pingVars == <<ping_due, pings, pong, net, heard>>
settingsVars == <<settings_due, acked, settings_out>>
streamVars == <<timer, tick_due, open, half, capacity, waits, armed, late, registered>>
vars == <<config, now, handshakeVars, pingVars, settingsVars, notified, streamVars>>

TypeOK ==
    /\ config \in Configs
    /\ now \in 0 .. MaxTime
    /\ phase \in {"handshake", "open", "failed", "refused"}
    /\ reason \in {"none", "HandshakeTimeout", "SettingsTimeout", "KeepaliveTimeout", "other"}
    /\ io_closed \in BOOLEAN
    /\ {ping_due, settings_due, tick_due, notified} \subseteq Nat \union {None}
    /\ pings \in Nat
    /\ pong \in BOOLEAN /\ acked \in BOOLEAN /\ settings_out \in BOOLEAN
    /\ net \subseteq [payload : Nat, at : Nat]
    /\ TimerType(timer, Streams)
    /\ UNION {open, half, capacity, waits, armed, late} \subseteq Streams
    /\ registered \in [Streams -> Nat]
    /\ heard \in Nat /\ since \in Nat

Init ==
    /\ config \in Configs
    /\ now = 0
    /\ phase = "handshake" /\ reason = "none" /\ io_closed = FALSE /\ since = 0
    /\ ping_due = None /\ settings_due = None /\ tick_due = None
    /\ pings = 0 /\ pong = FALSE /\ net = {} /\ heard = 0
    /\ acked = FALSE /\ settings_out = FALSE
    /\ notified = None
    /\ timer = NewTimer
    /\ open = {} /\ half = {} /\ capacity = {} /\ waits = {} /\ armed = {} /\ late = {}
    /\ registered = [s \in Streams |-> 0]

-----------------------------------------------------------------------------
(* Time. *)

\* the keep-alive task sleeps a little longer than the configured time
Keepalive == config.ping * Second + Extra

HandshakeDue == IF phase = "handshake" /\ config.handshake # 0 THEN config.handshake * Second ELSE None

Over(due) == due # None /\ now >= due

\* external: sleeps end in time up to Slack, a live peer answers in time
Advance ==
    /\ now < MaxTime
    /\ \A due \in {ping_due, settings_due, tick_due, notified, HandshakeDue} \ {None} : now < due + Slack
    /\ config.live /\ phase = "open" => \A p \in net : now < p.at + Delay
    /\ now' = now + 1
    /\ UNCHANGED <<config, handshakeVars, pingVars, settingsVars, notified, streamVars>>

-----------------------------------------------------------------------------
(* Handshake. *)

\* the peer's preface, or the client's transport, and the services are there:
\* Connection::new() starts the tasks
Connect ==
    /\ phase = "handshake"
    /\ phase' = "open"
    /\ ping_due' = IF config.ping # 0 THEN now + Keepalive ELSE None
    /\ pong' = (config.ping # 0)
    /\ settings_due' = IF config.settings # 0 THEN now + config.settings * Second ELSE None
    /\ heard' = now /\ since' = now
    /\ UNCHANGED <<config, now, reason, io_closed, pings, net, acked, settings_out, notified, streamVars>>

\* an invalid preface, a service or a transport that fails
Refuse ==
    /\ phase = "handshake"
    /\ phase' = "refused" /\ reason' = "other" /\ io_closed' = TRUE
    /\ UNCHANGED <<config, now, since, pingVars, settingsVars, notified, streamVars>>

HandshakeTimeout ==
    /\ phase = "handshake" /\ Over(HandshakeDue)
    /\ phase' = "refused" /\ reason' = "HandshakeTimeout" /\ io_closed' = TRUE
    /\ UNCHANGED <<config, now, since, pingVars, settingsVars, notified, streamVars>>

-----------------------------------------------------------------------------
(* The capacity timeout of streams. *)


\* start_capacity_timer() of a stream whose flag is not set
Start(s) ==
    IF s \in armed \/ config.capacity = 0 THEN UNCHANGED <<armed, timer, tick_due, registered>>
    ELSE /\ armed' = armed \union {s}
         /\ timer' = Register(timer, s, config.capacity, now \div Second)
         /\ tick_due' = IF timer.running THEN tick_due ELSE now + Second
         /\ registered' = [registered EXCEPT ![s] = now]

Forget(S) == [s \in Streams |-> IF s \in S THEN 0 ELSE registered[s]]

\* stop_capacity_timer()
Stop(S) ==
    /\ armed' = armed \ S
    /\ timer' = Unregister(timer, S \intersect armed)
    /\ registered' = Forget(S)
    /\ UNCHANGED tick_due

Open(s) ==
    /\ phase = "open" /\ s \notin open \union half \union late
    /\ open' = open \union {s}
    /\ \E cap \in BOOLEAN : capacity' = IF cap THEN capacity \union {s} ELSE capacity \ {s}
    /\ UNCHANGED <<config, now, handshakeVars, pingVars, settingsVars, notified, timer, tick_due, half, waits,
                   armed, late, registered>>

\* poll_send_capacity(): an error, a closed stream and capacity end the wait
Poll(s) ==
    /\ phase \in {"open", "failed"}
    /\ IF phase = "failed" \/ s \notin open \/ s \in capacity
         THEN waits' = waits \ {s} /\ Stop({s})
         ELSE waits' = waits \union {s} /\ Start(s)
    /\ UNCHANGED <<config, now, handshakeVars, pingVars, settingsVars, notified, open, half, capacity, late>>

\* CapacityWaiter::drop, the future of a wait is dropped
DropWait(s) ==
    /\ s \in waits
    /\ waits' = waits \ {s} /\ Stop({s})
    /\ UNCHANGED <<config, now, handshakeVars, pingVars, settingsVars, notified, open, half, capacity, late>>

\* wake_capacity_waiter() after an update of a window or SETTINGS
Gain(S) ==
    /\ phase = "open"
    /\ capacity' = capacity \union S
    /\ Stop(S \intersect waits)
    /\ UNCHANGED <<config, now, handshakeVars, pingVars, settingsVars, notified, open, half, waits, late>>

\* data or SETTINGS use the windows up
Lose(S) ==
    /\ phase = "open"
    /\ capacity' = capacity \ S
    /\ UNCHANGED <<config, now, handshakeVars, pingVars, settingsVars, notified, timer, tick_due, open, half,
                   waits, armed, late, registered>>

\* state_send_close() of a stream that still receives: trailers or empty data
\* with eof end the send half while another task waits for capacity.  The
\* waiter is woken, the timer runs on until that task is polled
SendCloses(s) ==
    /\ phase = "open" /\ s \in open
    /\ open' = open \ {s}
    /\ half' = half \union {s}
    /\ UNCHANGED <<config, now, handshakeVars, pingVars, settingsVars, notified, timer, tick_due, capacity, waits,
                   armed, late, registered>>

\* both halves are closed, or the stream is reset: drop_stream()
StreamEnds(s) ==
    /\ phase = "open" /\ s \in open \union half
    /\ open' = open \ {s}
    /\ half' = half \ {s}
    /\ Stop({s})
    /\ UNCHANGED <<config, now, handshakeVars, pingVars, settingsVars, notified, capacity, waits, late>>

\* capacity_timeout() resets the stream unless nobody waits any more, the send
\* half is closed or there is capacity
TimesOut(s) == s \in (waits \intersect open) \ capacity

\* the timer's task: it wakes, drops the expired streams and then runs their
\* handlers, which drop streams but start no timer
TimerTask ==
    /\ Over(tick_due)
    /\ LET out == {s \in Expired(timer) : TimesOut(s)}
       IN /\ timer' = IF Tick(timer).running THEN Tick(timer) ELSE Stopped(Tick(timer))
          /\ tick_due' = IF Tick(timer).running THEN now + Second ELSE None
          /\ armed' = armed \ Expired(timer)
          /\ open' = open \ out
          /\ late' = late \union out
          /\ registered' = Forget(Expired(timer))
    /\ UNCHANGED <<config, now, handshakeVars, pingVars, settingsVars, notified, half, capacity, waits>>

\* the runtime drops the task: TimerGuard::drop
DropTimer ==
    /\ timer.running
    /\ timer' = Stopped(timer)
    /\ tick_due' = None
    /\ armed' = armed \ DOMAIN timer.streams
    /\ registered' = Forget(DOMAIN timer.streams)
    /\ UNCHANGED <<config, now, handshakeVars, pingVars, settingsVars, notified, open, half, capacity, waits, late>>

-----------------------------------------------------------------------------
(* Keep-alive and settings. *)

NotifyTimeout == notified' = IF notified = None THEN now ELSE notified

\* ping(): the task stops on a closed io; no answer since the last PING is a
\* timeout
PingTask ==
    /\ Over(ping_due)
    /\ IF io_closed THEN ping_due' = None /\ UNCHANGED <<pings, pong, net, notified>>
       ELSE IF ~pong THEN ping_due' = None /\ NotifyTimeout /\ UNCHANGED <<pings, pong, net>>
       ELSE /\ ping_due' = now + Keepalive
            /\ pings' = pings + 1 /\ pong' = FALSE
            /\ net' = net \union {[payload |-> pings + 1, at |-> now]}
            /\ UNCHANGED notified
    /\ UNCHANGED <<config, now, handshakeVars, settingsVars, heard, streamVars>>

\* recv_pong(): only the payload of the last PING counts; a peer that is not
\* live acknowledges what it likes
\* mutant: any acknowledgment counts
AnswersAny(payload) == TRUE
\* mutant: the payload is compared with the PING before it
AnswersOld(payload) == payload + 1 = pings
Answers(payload) == payload = pings
RecvPong(payload) ==
    /\ phase = "open"
    /\ config.live => \E p \in net : p.payload = payload
    /\ pong' = (pong \/ Answers(payload))
    /\ net' = {p \in net : p.payload # payload}
    /\ heard' = IF payload = pings THEN now ELSE heard
    /\ UNCHANGED <<config, now, handshakeVars, ping_due, pings, settingsVars, notified, streamVars>>

\* recv_settings() with the flag ACK
RecvAck ==
    /\ phase = "open" /\ ~acked
    /\ acked' = TRUE
    /\ UNCHANGED <<config, now, handshakeVars, pingVars, settings_due, settings_out, notified, streamVars>>

SettingsTask ==
    /\ Over(settings_due)
    /\ settings_due' = None
    /\ IF ~io_closed /\ ~acked THEN settings_out' = TRUE /\ NotifyTimeout
       ELSE UNCHANGED <<settings_out, notified>>
    /\ UNCHANGED <<config, now, handshakeVars, pingVars, acked, streamVars>>

-----------------------------------------------------------------------------
(* Failures. *)

\* take_streams() and set_failed_stream()
FailStreams ==
    /\ open' = {} /\ half' = {} /\ Stop(open \union half)
    /\ UNCHANGED <<capacity, waits, late>>

\* DispatchItem::Stop(KeepAlive): settings_timeout() or ping_timeout()
DispatchTimeout ==
    /\ phase = "open" /\ notified # None
    /\ phase' = "failed"
    /\ reason' = IF settings_out THEN "SettingsTimeout" ELSE "KeepaliveTimeout"
    /\ notified' = None
    /\ io_closed' = TRUE
    /\ FailStreams
    /\ UNCHANGED <<config, now, since, pingVars, settingsVars>>

\* any other failure, and the driver that is dropped (DisconnectGuard)
Fail ==
    /\ phase = "open"
    /\ phase' = "failed" /\ reason' = "other" /\ notified' = None
    /\ io_closed' = TRUE
    /\ FailStreams
    /\ UNCHANGED <<config, now, since, pingVars, settingsVars>>

Next ==
    \/ Advance
    \/ Connect \/ Refuse \/ HandshakeTimeout
    \/ \E s \in config.streams : Open(s) \/ Poll(s) \/ DropWait(s) \/ SendCloses(s) \/ StreamEnds(s)
    \/ \E S \in SUBSET config.streams \ {{}} : Gain(S) \/ Lose(S)
    \/ TimerTask \/ DropTimer
    \/ PingTask \/ SettingsTask
    \/ \E payload \in 0 .. pings + 1 : RecvPong(payload)
    \/ RecvAck
    \/ DispatchTimeout \/ Fail

Spec == Init /\ [][Next]_vars

-----------------------------------------------------------------------------
(* Properties. *)

\* timer.rs and stream.rs CAPACITY_TIMER: a stream has the flag exactly while
\* the timer holds it, for one second only, with the task running; and it is
\* then a stream of the map whose wait is not over and which has no capacity,
\* so nothing is left behind by a stream that was dropped or a connection that
\* failed.  The send half may be closed: its timer runs until the waiter is
\* polled, see CapacityTimeoutOnTime.
TimerInStep ==
    /\ armed = DOMAIN timer.streams
    /\ \A s \in armed :
        {key \in DOMAIN timer.notifications : s \in timer.notifications[key]} = {timer.streams[s]}
    /\ armed # {} => timer.running /\ tick_due # None
    /\ armed \subseteq (waits \intersect (open \union half)) \ capacity

\* stream.rs send_capacity, "resets the stream if capacity is not available
\* within the configured capacity timeout": not before that time has passed,
\* although the timer counts whole seconds of its own, and not later than one
\* second and the delays of the task; and a stream that has sent all of its
\* data is not reset by a timer that its last wait left behind.
CapacityTimeoutOnTime ==
    [][\A s \in Streams :
        /\ s \in late' \ late => s \in open /\ now - registered[s] >= config.capacity * Second
        /\ s \in armed => now - registered[s] <= (config.capacity + 1) * (Second + Slack)]_vars

\* connection.rs ping: a peer that answers every PING within the keep-alive
\* time is never timed out, in whatever order its answers, the task and the
\* dispatcher run.
LivePeerKept == config.live => reason # "KeepaliveTimeout"

\* connection.rs ping, settings_timer, server/service.rs run: a silent peer
\* does not keep a connection.  Within their times (and the delays of the
\* tasks) the handshake is over, the SETTINGS are acknowledged, and the peer
\* has answered one of the last two PING frames; an answer to an earlier PING
\* does not count.
SilentPeerClosed ==
    /\ phase = "handshake" /\ config.handshake # 0 => now <= config.handshake * Second + Slack
    /\ phase = "open" /\ config.settings # 0 /\ ~acked => now <= since + config.settings * Second + 2 * Slack
    /\ phase = "open" /\ config.ping # 0 => now <= heard + 2 * (Keepalive + Slack) + Slack
=============================================================================
