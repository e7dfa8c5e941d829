-------------------------------- MODULE Pool --------------------------------
(***************************************************************************)
(* The client pool (client/pool.rs): client() and send() calls share a     *)
(* list of connections, a call that gets none opens one or waits for the   *)
(* capacity notification of a connection.                                  *)
(*                                                                         *)
(* A connection is what the pool sees of it: closed, disconnecting, its    *)
(* active streams and the peer's limit (LocalStreams has the details).  No *)
(* limit is a limit that is not reached.  A poll runs from one await to    *)
(* the next and is one step.  An ended call may be made again, a dead      *)
(* connection's identity is used again for a new one.                      *)
(***************************************************************************)
EXTENDS Integers, Sequences, FiniteSets, FiniteSetsExt

CONSTANTS
    Callers,       \* futures of Client::client() and Client::send()
    ReadyCallers,  \* futures of Client::ready()
    Conns,         \* bound: connections that live at a time
    MinConn,       \* minconn
    MaxConn,       \* connection_limit
    InitLimit,     \* stream limit that is assumed before SETTINGS
    Limits,        \* limits the peer may set
    None

Futures == Callers \union ReadyCallers

ASSUME PoolAssumption ==
    /\ IsFiniteSet(Futures) /\ IsFiniteSet(Conns)
    /\ Callers \intersect ReadyCallers = {}
    /\ MinConn \in Nat /\ MaxConn \in Nat
    /\ InitLimit \in Nat /\ Limits \subseteq Nat
    /\ None \notin Conns \union Futures

VARIABLES
    connections,  \* Inner::config.connections
    connecting,   \* Inner::config.connecting, the connect task runs
    owner,        \* the future that waits for the connect task
    waiters,      \* Client::waiters, the futures the senders belong to
    fut,          \* state of every future
    handle,       \* the connection client() returned
    st,           \* state of every connection
    active,       \* active_streams()
    limit,        \* max_streams()
    stopping,     \* the io is closed and the dispatcher has yet to shut down
    lost          \* history: the last notification was used up without a stream

callVars == <<waiters, fut, handle, lost>>
poolVars == <<connections, connecting, owner>>
conVars == <<st, active, limit, stopping>>
vars == <<poolVars, callVars, conVars>>

\* "got" and "spent": client() returned a connection, without and with the help
\* of a notification
FutStates == {"idle", "waiting", "notified", "connecting", "connected", "refused", "got", "spent"}
ConStates == {"open", "draining", "closed"}

Pooled == {connections[i] : i \in DOMAIN connections}
Queued == {waiters[i] : i \in DOMAIN waiters}

TypeOK ==
    /\ connections \in Seq(Conns)
    /\ connecting \in BOOLEAN
    /\ owner \in Callers \union {None}
    /\ waiters \in Seq(Futures)
    /\ fut \in [Futures -> FutStates]
    /\ handle \in [Callers -> Conns \union {None}]
    /\ st \in [Conns -> ConStates]
    /\ active \in [Conns -> Nat]
    /\ limit \in [Conns -> Nat]
    /\ stopping \in [Conns -> BOOLEAN]
    /\ lost \in BOOLEAN

Init ==
    /\ connections = <<>>
    /\ connecting = FALSE
    /\ owner = None
    /\ waiters = <<>>
    /\ fut = [f \in Futures |-> "idle"]
    /\ handle = [f \in Callers |-> None]
    /\ st = [c \in Conns |-> "closed"]
    /\ active = [c \in Conns |-> 0]
    /\ limit = [c \in Conns |-> InitLimit]
    /\ stopping = [c \in Conns |-> FALSE]
    /\ lost = FALSE

-----------------------------------------------------------------------------
(* Helpers. *)

\* retain(): the elements of the sequence that are in S, in their order
Kept(s, S) ==
    LET keep == {i \in DOMAIN s : s[i] \in S}
        Rank(i) == Cardinality({j \in keep : j <= i})
    IN  [k \in 1 .. Cardinality(keep) |-> s[CHOOSE i \in keep : Rank(i) = k]]

\* the futures that n calls of notify() wake: every sender in the queue has a
\* live receiver
Notified(n) == {waiters[i] : i \in 1 .. Min({n, Len(waiters)})}
Rest(n) == SubSeq(waiters, n + 1, Len(waiters))
Wakes(n) == [f \in Futures |-> IF f \in Notified(n) THEN "notified" ELSE fut[f]]

\* n calls of the on_capacity callback of a connection, n > 0
OnCapacity(n) ==
    /\ fut' = Wakes(n)
    /\ waiters' = Rest(n)
    /\ lost' = FALSE
    /\ UNCHANGED <<handle, poolVars>>

\* can_create_new_stream()
CanCreate(c) == active[c] < limit[c]

\* get_client(), the choice: the first connection that uses at most half of
\* its limit, else a random one that can open a stream
GetClient(list) ==
    LET light == {i \in DOMAIN list : CanCreate(list[i]) /\ active[list[i]] <= limit[list[i]] \div 2}
    IN  IF MinConn > 0 /\ Len(list) < MinConn THEN {}
        ELSE IF light # {} THEN {list[Min(light)]}
        ELSE {c \in Pooled : CanCreate(c) /\ \E i \in DOMAIN list : list[i] = c}

\* mutant: one connection too many
MayConnectOneMore(num) == ~connecting /\ (num <= MaxConn \/ (MinConn > 0 /\ num < MinConn))

\* connect(), the condition
MayConnect(num) == ~connecting /\ (num < MaxConn \/ (MinConn > 0 /\ num < MinConn))

\* disconnect_when_ready() of the connections of S
Drain(S) ==
    /\ st' = [c \in Conns |-> IF c \notin S THEN st[c] ELSE IF active[c] = 0 THEN "closed" ELSE "draining"]
    /\ stopping' = [c \in Conns |-> stopping[c] \/ (c \in S /\ active[c] = 0)]

-----------------------------------------------------------------------------
(* client() and send(). *)

Outcomes == {"returns", "opens", "fails"}

Runnable(f) == fut[f] \in {"idle", "notified", "connected"}

\* get_client() returns a connection: client() "returns" it, send() calls
\* open_stream() in the same poll, which "opens" a stream or "fails" (headers
\* too large for the peer, no stream ids left) and releases its slot without
\* notify_capacity()
PollGets(f, c, outcome) ==
    /\ active' = IF outcome = "opens" THEN [active EXCEPT ![c] = @ + 1] ELSE active
    /\ fut' = [fut EXCEPT ![f] = IF outcome # "returns" THEN "idle"
                                 ELSE IF @ = "notified" THEN "spent" ELSE "got"]
    /\ handle' = [handle EXCEPT ![f] = IF outcome = "returns" THEN c ELSE None]
    /\ lost' = (lost \/ (outcome = "fails" /\ fut[f] = "notified"))
    /\ UNCHANGED <<connecting, owner, waiters, limit>>

\* create_connection()
PollConnects(f) ==
    /\ connecting' = TRUE
    /\ owner' = f
    /\ fut' = [fut EXCEPT ![f] = "connecting"]
    /\ UNCHANGED <<waiters, handle, lost, active, limit>>

\* wait_for_capacity()
PollWaits(f) ==
    /\ waiters' = Append(waiters, f)
    /\ fut' = [fut EXCEPT ![f] = "waiting"]
    /\ UNCHANGED <<connecting, owner, handle, lost, active, limit>>

\* A poll of client(): get_client() drops closed, disconnecting and expired
\* connections, then one is chosen, a new one is opened or the call waits
PollClient(f, outcome) ==
    /\ Runnable(f)
    /\ \E expired \in SUBSET {c \in Pooled : st[c] = "open"} :
          LET list == Kept(connections, {c \in Conns : st[c] = "open"} \ expired)
          IN  /\ connections' = list
              /\ Drain(expired)
              /\ \/ \E c \in GetClient(list) : PollGets(f, c, outcome)
                 \/ GetClient(list) = {} /\ MayConnect(Len(list)) /\ PollConnects(f)
                 \/ GetClient(list) = {} /\ ~MayConnect(Len(list)) /\ PollWaits(f)

\* the connect task failed, its owner gets the error
PollRefused(f) ==
    /\ fut[f] = "refused"
    /\ fut' = [fut EXCEPT ![f] = "idle"]
    /\ UNCHANGED <<waiters, handle, lost, poolVars, conVars>>

\* the application sends a request on the connection client() returned, which
\* opens a stream; or the connection is not open, open_stream() fails, or the
\* application drops the connection
UseHandle(f, opens) ==
    /\ fut[f] \in {"got", "spent"}
    /\ opens => st[handle[f]] = "open" /\ CanCreate(handle[f])
    /\ active' = IF opens THEN [active EXCEPT ![handle[f]] = @ + 1] ELSE active
    /\ fut' = [fut EXCEPT ![f] = "idle"]
    /\ handle' = [handle EXCEPT ![f] = None]
    /\ lost' = (lost \/ (~opens /\ fut[f] = "spent" /\ st[handle[f]] = "open"))
    /\ UNCHANGED <<waiters, poolVars, st, limit, stopping>>

\* mutant: the notification of a dropped future is lost
DropFutureForgets(f) ==
    /\ fut[f] \in {"waiting", "notified", "connecting", "connected", "refused"}
    /\ fut' = [fut EXCEPT ![f] = "idle"]
    /\ waiters' = Kept(waiters, Futures \ {f})
    /\ owner' = IF owner = f THEN None ELSE owner
    /\ UNCHANGED <<handle, lost, connections, connecting, conVars>>

\* A future is dropped: Waiter removes its sender or passes the notification
\* on, a connect task goes on
DropFuture(f) ==
    /\ fut[f] \in {"waiting", "notified", "connecting", "connected", "refused"}
    /\ fut' = [(IF fut[f] = "notified" THEN Wakes(1) ELSE fut) EXCEPT ![f] = "idle"]
    /\ waiters' = IF fut[f] = "notified" THEN Rest(1) ELSE Kept(waiters, Futures \ {f})
    /\ owner' = IF owner = f THEN None ELSE owner
    /\ UNCHANGED <<handle, lost, connections, connecting, conVars>>

-----------------------------------------------------------------------------
(* ready(). *)

\* is_ready(): connections that are closed or disconnecting count too
IsReady ==
    \/ \E c \in Pooled : CanCreate(c)
    \/ ~connecting /\ Len(connections) < MaxConn

\* the first poll of a ready() that does not end at once
StartReady(f) ==
    /\ fut[f] = "idle" /\ ~IsReady
    /\ waiters' = Append(waiters, f)
    /\ fut' = [fut EXCEPT ![f] = "waiting"]
    /\ UNCHANGED <<handle, lost, poolVars, conVars>>

\* a woken ready() notifies the next waiter, then ends or waits again
PollReady(f) ==
    /\ fut[f] = "notified"
    /\ fut' = [Wakes(1) EXCEPT ![f] = IF IsReady THEN "idle" ELSE "waiting"]
    /\ waiters' = IF IsReady THEN Rest(1) ELSE Append(Rest(1), f)
    /\ UNCHANGED <<handle, lost, poolVars, conVars>>

-----------------------------------------------------------------------------
(* The connect task. *)

\* mutant: only the owner is woken
ConnectEndsOwnerOnly(result) ==
    /\ connecting
    /\ connecting' = FALSE
    /\ owner' = None
    /\ fut' = [f \in Futures |-> IF f = owner THEN result ELSE fut[f]]
    /\ lost' = FALSE
    /\ UNCHANGED <<waiters, handle>>

\* the task ends: all waiters are woken, the owner gets the result
ConnectEnds(result) ==
    /\ connecting
    /\ connecting' = FALSE
    /\ owner' = None
    /\ fut' = [f \in Futures |-> IF f \in Queued THEN "notified"
                                 ELSE IF f = owner THEN result ELSE fut[f]]
    /\ waiters' = <<>>
    /\ lost' = FALSE
    /\ UNCHANGED handle

\* the client is added to the pool and gets the callback
Connected(c) ==
    /\ st[c] = "closed" /\ ~stopping[c] /\ c \notin Pooled
    /\ \A f \in Callers : handle[f] # c
    /\ ConnectEnds("connected")
    /\ connections' = Append(connections, c)
    /\ st' = [st EXCEPT ![c] = "open"]
    /\ active' = [active EXCEPT ![c] = 0]
    /\ limit' = [limit EXCEPT ![c] = InitLimit]
    /\ UNCHANGED stopping

\* an error of the connector or its timeout
ConnectFails ==
    /\ ConnectEnds("refused")
    /\ UNCHANGED <<connections, conVars>>

-----------------------------------------------------------------------------
(* The connections. *)

\* a stream is opened or reserved by an application that holds a clone
OpenStream(c) ==
    /\ st[c] = "open" /\ CanCreate(c)
    /\ active' = [active EXCEPT ![c] = @ + 1]
    /\ UNCHANGED <<poolVars, callVars, st, limit, stopping>>

\* drop_stream() or release_reserved_stream(): the callback runs, the last
\* stream of a disconnecting connection closes the io
StreamEnds(c) ==
    /\ active[c] > 0
    /\ active' = [active EXCEPT ![c] = @ - 1]
    /\ LET last == st[c] = "draining" /\ active[c] = 1
       IN  /\ st' = [st EXCEPT ![c] = IF last THEN "closed" ELSE @]
           /\ stopping' = [stopping EXCEPT ![c] = @ \/ last]
    /\ UNCHANGED limit
    /\ OnCapacity(1)

\* SETTINGS_MAX_CONCURRENT_STREAMS
RecvSettings(c, max) ==
    /\ st[c] # "closed"
    /\ limit' = [limit EXCEPT ![c] = max]
    /\ UNCHANGED <<st, active, stopping>>
    /\ OnCapacity(1)

\* recv_go_away(): n streams fail, each is released, the callback runs again
RecvGoAway(c, n) ==
    /\ st[c] # "closed" /\ n <= active[c]
    /\ active' = [active EXCEPT ![c] = @ - n]
    /\ st' = [st EXCEPT ![c] = IF active[c] = n THEN "closed" ELSE "draining"]
    /\ stopping' = [stopping EXCEPT ![c] = @ \/ active[c] = n]
    /\ UNCHANGED limit
    /\ OnCapacity(n + 1)

\* SimpleClient::close() of a clone
Close(c) ==
    /\ st[c] = "open"
    /\ Drain({c})
    /\ UNCHANGED <<poolVars, callVars, active, limit>>

\* the peer closes the io, force_close(), or a disconnect timeout
IoCloses(c) ==
    /\ st[c] # "closed"
    /\ st' = [st EXCEPT ![c] = "closed"]
    /\ stopping' = [stopping EXCEPT ![c] = TRUE]
    /\ UNCHANGED <<poolVars, callVars, active, limit>>

\* proto_error() or timeout(); DefaultControlService answers at once and the
\* io is closed
Fails(c) ==
    /\ st[c] # "closed"
    /\ st' = [st EXCEPT ![c] = "closed"]
    /\ stopping' = [stopping EXCEPT ![c] = TRUE]
    /\ active' = [active EXCEPT ![c] = 0]
    /\ UNCHANGED limit
    /\ OnCapacity(1)

\* disconnect() when the dispatcher stops or shuts down
Shutdown(c) ==
    /\ stopping[c]
    /\ stopping' = [stopping EXCEPT ![c] = FALSE]
    /\ active' = [active EXCEPT ![c] = 0]
    /\ UNCHANGED <<st, limit>>
    /\ OnCapacity(1)

Next ==
    \/ \E f \in Callers, outcome \in Outcomes : PollClient(f, outcome)
    \/ \E f \in Callers : PollRefused(f)
    \/ \E f \in Callers, opens \in BOOLEAN : UseHandle(f, opens)
    \/ \E f \in Futures : DropFuture(f)
    \/ \E f \in ReadyCallers : StartReady(f) \/ PollReady(f)
    \/ \E c \in Conns : Connected(c) \/ OpenStream(c) \/ StreamEnds(c)
    \/ ConnectFails
    \/ \E c \in Conns, max \in Limits : RecvSettings(c, max)
    \/ \E c \in Conns : \E n \in 0 .. active[c] : RecvGoAway(c, n)
    \/ \E c \in Conns : Close(c) \/ IoCloses(c) \/ Fails(c) \/ Shutdown(c)

(***************************************************************************)
(* Fairness: woken futures are polled, a connect attempt ends (it has a    *)
(* timeout), a dispatcher whose io is closed shuts down, the application   *)
(* uses or drops a connection it asked for, once a request on it does not  *)
(* wait, and streams end.                                                  *)
(***************************************************************************)
Usable(f) == handle[f] # None /\ (st[handle[f]] = "open" => CanCreate(handle[f]))

Fairness ==
    /\ \A f \in Callers :
          /\ WF_vars(fut[f] \in {"notified", "connected"} /\ \E outcome \in Outcomes : PollClient(f, outcome))
          /\ WF_vars(PollRefused(f))
          /\ WF_vars(Usable(f) /\ \E opens \in BOOLEAN : UseHandle(f, opens))
    /\ \A f \in ReadyCallers : WF_vars(PollReady(f))
    /\ WF_vars(ConnectFails \/ \E c \in Conns : Connected(c))
    /\ \A c \in Conns : WF_vars(Shutdown(c)) /\ WF_vars(StreamEnds(c))

Spec == Init /\ [][Next]_vars /\ Fairness

-----------------------------------------------------------------------------
(* Properties. *)

\* pool.rs connect: the pool and the connection that is being opened stay
\* within the limit, whoever asks meanwhile and whatever is dropped.
PoolBound ==
    Len(connections) + (IF connecting THEN 1 ELSE 0) <= Max({MinConn, MaxConn})

\* what is left that will wake a waiting call: a connect attempt, a future with
\* a notification, a connection that such a future got, a stream that will end,
\* a dispatcher that will shut down, a peer that allows no stream
Source ==
    \/ connecting
    \/ \E f \in Futures : fut[f] \in {"notified", "spent"}
    \/ \E c \in Conns : active[c] > 0 \/ stopping[c]
    \/ \E c \in Pooled : st[c] = "open" /\ limit[c] = 0

CallWaits == \E f \in Callers : fut[f] = "waiting"

\* pool.rs client, "passes any unused capacity notification to another
\* waiter": while a call waits, a wake-up is on its way or something is left
\* that will give one.  Left out: the notification went to a call that opened
\* no stream with it, open_stream() failed or the application dropped the
\* connection, and none came since; see ReleaseNotifies.
WakeUpAhead == CallWaits => Source \/ lost

\* simple.rs on_capacity, "The callback is called when a client-initiated
\* stream is released": so a waiting call has a wake-up ahead after a send
\* that released its slot without opening a stream, too.  It has not.
ReleaseNotifies == CallWaits => Source

\* pool.rs client, "Waits for an existing connection, or opens a new one": a
\* waiting call is woken, unless a peer allows no stream, or the notification
\* was lost as in WakeUpAhead.
CallWoken ==
    \A f \in Callers :
        fut[f] = "waiting" ~> fut[f] # "waiting" \/ lost \/ (\E c \in Pooled : limit[c] = 0)

=============================================================================
