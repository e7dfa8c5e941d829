------------------------------ MODULE SendFlow ------------------------------
(***************************************************************************)
(* Send flow control (stream.rs send_pages, send_capacity,                 *)
(* poll_send_capacity, write_ready; connection.rs recv_window_update,      *)
(* recv_settings): streams whose headers are sent share the connection     *)
(* window.  A task that finds no capacity registers its waker and the      *)
(* capacity timer, a task that finds the write buffer full waits for the   *)
(* io; frames of the peer change windows and wake tasks.                   *)
(*                                                                         *)
(* A poll runs from one await to the next and is one step.  One task sends *)
(* on a stream, as StreamRef requires.                                     *)
(***************************************************************************)
EXTENDS FlowWindow, FiniteSets, FiniteSetsExt

CONSTANTS
    Streams,     \* streams in payload state
    MaxWindow,   \* i32::MAX
    MaxLen,      \* bound: bytes of one send_pages() call
    InitWindow,  \* remote_window_sz when the streams were opened
    InitCon      \* the connection's send window

ASSUME SendFlowAssumption ==
    /\ IsFiniteSet(Streams)
    /\ MaxWindow \in Nat /\ MaxLen \in Nat
    /\ InitWindow \in 0 .. MaxWindow
    /\ InitCon \in 0 .. MaxWindow

VARIABLES
    send_window,   \* of every stream
    con_window,    \* of the connection
    remote_window, \* remote_window_sz
    send,          \* send half of every stream
    open,          \* the stream is in the connection's map
    err,           \* the stream has an error
    con_error,     \* the connection has an error
    task,          \* what the task of a stream waits for
    left,          \* bytes left of its send_pages() call
    eof,           \* the call ends the stream
    waker,         \* send_cap holds a waker
    woken,         \* the task was woken
    wait,          \* flag WAIT_FOR_CAPACITY
    timer,         \* flag CAPACITY_TIMER
    stopped,       \* history: the application stopped polling for capacity
    full           \* is_wr_backpressure()

windowVars == <<send_window, con_window, remote_window>>
stateVars == <<send, open, err, con_error>>
callVars == <<task, left, eof>>
wakeVars == <<waker, woken>>
flagVars == <<wait, timer, stopped>>
vars == <<windowVars, stateVars, callVars, wakeVars, flagVars, full>>

Tasks == {"idle", "capacity", "poll", "write"}

TypeOK ==
    /\ send_window \in [Streams -> Int]
    /\ con_window \in 0 .. MaxWindow
    /\ remote_window \in 0 .. MaxWindow
    /\ send \in [Streams -> {"payload", "closed"}]
    /\ task \in [Streams -> Tasks]
    /\ left \in [Streams -> 0 .. MaxLen]
    /\ \A f \in {open, err, eof, waker, woken, wait, timer, stopped} : f \in [Streams -> BOOLEAN]
    /\ con_error \in BOOLEAN
    /\ full \in BOOLEAN

Init ==
    /\ send_window = [s \in Streams |-> InitWindow]
    /\ con_window = InitCon
    /\ remote_window = InitWindow
    /\ send = [s \in Streams |-> "payload"]
    /\ task = [s \in Streams |-> "idle"]
    /\ left = [s \in Streams |-> 0]
    /\ open = [s \in Streams |-> TRUE]
    /\ err = [s \in Streams |-> FALSE]
    /\ eof = [s \in Streams |-> FALSE]
    /\ waker = [s \in Streams |-> FALSE]
    /\ woken = [s \in Streams |-> FALSE]
    /\ wait = [s \in Streams |-> FALSE]
    /\ timer = [s \in Streams |-> FALSE]
    /\ stopped = [s \in Streams |-> FALSE]
    /\ con_error = FALSE
    /\ full = FALSE

-----------------------------------------------------------------------------
(* Helpers. *)

\* available_send_capacity()
SendCapacity(sw, cw) == Min({WindowSize(sw), WindowSize(cw)})

Capacity(s) == SendCapacity(send_window[s], con_window)

\* check_error() of the stream and of the connection
Failed(s) == err[s] \/ con_error

\* send_cap.wake() of the streams of S
Wake(S) ==
    /\ waker' = [s \in Streams |-> waker[s] /\ s \notin S]
    /\ woken' = [s \in Streams |-> woken[s] \/ (s \in S /\ waker[s])]

\* streams that wake_capacity_waiter() wakes under the new windows
CapacityWaiters(S, sw, cw) == {s \in S : wait[s] /\ SendCapacity(sw[s], cw) > 0}

\* wake_capacity_waiter() of the streams of S, their timers stop
WakeCapacity(S) ==
    LET ready == CapacityWaiters(S, send_window', con_window')
    IN  /\ Wake(ready)
        /\ timer' = [s \in Streams |-> timer[s] /\ s \notin ready]
        /\ UNCHANGED <<wait, stopped>>

\* cancel_capacity_wait()
CancelWait(s) ==
    /\ wait' = [wait EXCEPT ![s] = FALSE]
    /\ timer' = [timer EXCEPT ![s] = FALSE]
    /\ stopped' = [stopped EXCEPT ![s] = FALSE]

\* a pending poll_send_capacity(): waker, flag and timer
StartWait(s) ==
    /\ waker' = [waker EXCEPT ![s] = TRUE]
    /\ woken' = [woken EXCEPT ![s] = FALSE]
    /\ wait' = [wait EXCEPT ![s] = TRUE]
    /\ timer' = [timer EXCEPT ![s] = TRUE]
    /\ stopped' = [stopped EXCEPT ![s] = FALSE]

\* state_send_close(); the stream is dropped, and its timer stops, if the
\* receive half is closed (`gone`)
CloseSend(s, gone) ==
    /\ send' = [send EXCEPT ![s] = "closed"]
    /\ open' = [open EXCEPT ![s] = @ /\ ~gone]

StopTimers(S) ==
    /\ timer' = [s \in Streams |-> timer[s] /\ s \notin S]
    /\ UNCHANGED <<wait, stopped>>

\* the task has been polled and does not wait
Polled(s) ==
    /\ woken' = [woken EXCEPT ![s] = FALSE]
    /\ UNCHANGED waker

-----------------------------------------------------------------------------
(* send_pages(). *)

\* The loop of send_pages() with n bytes to send, until it ends or waits; k
\* bytes are written, after any frame the write buffer may be full.
\* `resumed` if it resumes from a capacity wait.
SendLoop(s, n, end, resumed) ==
    \E k \in 0 .. Min({n, Capacity(s)}), full1 \in BOOLEAN, gone \in BOOLEAN :
        /\ full => k = 0
        /\ k = 0 => full1 = full
        /\ gone => end /\ k = n
        /\ full' = full1
        /\ send_window' = [send_window EXCEPT ![s] = @ - k]
        /\ con_window' = con_window - k
        /\ UNCHANGED <<remote_window, err, con_error>>
        /\ \/ /\ \/ k = n   \* all is sent
                 \/ k < Capacity(s) /\ ~full1   \* the io is closed
              /\ task' = [task EXCEPT ![s] = "idle"]
              /\ left' = [left EXCEPT ![s] = 0]
              /\ eof' = [eof EXCEPT ![s] = FALSE]
              /\ IF end /\ k = n THEN CloseSend(s, gone) ELSE UNCHANGED <<send, open>>
              /\ woken' = [woken EXCEPT ![s] = FALSE]
              /\ waker' = [waker EXCEPT ![s] = @ /\ ~(end /\ k = n)]
              /\ IF resumed THEN CancelWait(s) ELSE StopTimers({t \in {s} : gone})
           \/ /\ k < n /\ full1   \* write_ready()
              /\ task' = [task EXCEPT ![s] = "write"]
              /\ left' = [left EXCEPT ![s] = n - k]
              /\ eof' = [eof EXCEPT ![s] = end]
              /\ waker' = [waker EXCEPT ![s] = TRUE]
              /\ woken' = [woken EXCEPT ![s] = FALSE]
              /\ UNCHANGED <<send, open>>
              /\ IF resumed THEN CancelWait(s) ELSE UNCHANGED flagVars
           \/ /\ k < n /\ ~full1 /\ k = Capacity(s)   \* send_capacity()
              /\ task' = [task EXCEPT ![s] = "capacity"]
              /\ left' = [left EXCEPT ![s] = n - k]
              /\ eof' = [eof EXCEPT ![s] = end]
              /\ UNCHANGED <<send, open>>
              /\ StartWait(s)

\* mutant: the state of the stream is not checked
SendPagesClosed(s, n, end) ==
    /\ task[s] = "idle"
    /\ n > 0
    /\ SendLoop(s, n, end, FALSE)

\* send_pages() is called with n bytes
SendPages(s, n, end) ==
    /\ task[s] = "idle"
    /\ send[s] = "payload" /\ ~err[s]
    /\ n > 0
    /\ SendLoop(s, n, end, FALSE)

\* send_trailers(), or send_pages() without data
EndStream(s, gone) ==
    /\ send[s] = "payload"
    /\ CloseSend(s, gone)
    /\ Wake({s})
    /\ StopTimers({t \in {s} : gone})
    /\ UNCHANGED <<windowVars, err, con_error, callVars, full>>

\* state_recv_close() of a stream whose send half is closed: it is dropped
EndRecv(s) ==
    /\ open[s] /\ send[s] = "closed"
    /\ open' = [open EXCEPT ![s] = FALSE]
    /\ Wake({s})
    /\ StopTimers({s})
    /\ UNCHANGED <<windowVars, send, err, con_error, callVars, full>>

\* the call ends with an error
CallFails(s) ==
    /\ task' = [task EXCEPT ![s] = "idle"]
    /\ left' = [left EXCEPT ![s] = 0]
    /\ eof' = [eof EXCEPT ![s] = FALSE]
    /\ Polled(s)
    /\ UNCHANGED <<windowVars, stateVars, full>>

\* A task waiting for capacity is polled
PollCapacityWait(s) ==
    /\ task[s] = "capacity" /\ woken[s]
    /\ IF Failed(s) \/ send[s] = "closed"
       THEN CallFails(s) /\ CancelWait(s)
       ELSE IF Capacity(s) > 0
       THEN SendLoop(s, left[s], eof[s], TRUE)
       ELSE /\ StartWait(s)
            /\ UNCHANGED <<windowVars, stateVars, callVars, full>>

\* A task waiting for the io is polled, its waker is registered before the io
\* is asked
PollWriteWait(s) ==
    /\ task[s] = "write" /\ woken[s]
    /\ IF Failed(s) \/ send[s] = "closed"
       THEN CallFails(s) /\ UNCHANGED flagVars
       ELSE IF full
       THEN /\ waker' = [waker EXCEPT ![s] = TRUE]
            /\ woken' = [woken EXCEPT ![s] = FALSE]
            /\ UNCHANGED <<windowVars, stateVars, callVars, flagVars, full>>
       ELSE SendLoop(s, left[s], eof[s], FALSE)

\* The future of send_pages() is dropped; CapacityWaiter stops the wait
DropSend(s) ==
    /\ task[s] \in {"capacity", "write"}
    /\ task' = [task EXCEPT ![s] = "idle"]
    /\ left' = [left EXCEPT ![s] = 0]
    /\ eof' = [eof EXCEPT ![s] = FALSE]
    /\ Polled(s)
    /\ IF task[s] = "capacity" THEN CancelWait(s) ELSE UNCHANGED flagVars
    /\ UNCHANGED <<windowVars, stateVars, full>>

\* poll_send_capacity() called by the application
PollSendCapacity(s) ==
    /\ task[s] = "idle" \/ (task[s] = "poll" /\ woken[s])
    /\ IF Failed(s) \/ send[s] = "closed" \/ Capacity(s) > 0
       THEN /\ task' = [task EXCEPT ![s] = "idle"]
            /\ Polled(s)
            /\ CancelWait(s)
       ELSE /\ task' = [task EXCEPT ![s] = "poll"]
            /\ StartWait(s)
    /\ UNCHANGED <<windowVars, stateVars, left, eof, full>>

\* The application stops polling, the timeout stays armed
StopPolling(s) ==
    /\ task[s] = "poll"
    /\ task' = [task EXCEPT ![s] = "idle"]
    /\ stopped' = [stopped EXCEPT ![s] = TRUE]
    /\ UNCHANGED <<windowVars, stateVars, left, eof, wakeVars, wait, timer, full>>

-----------------------------------------------------------------------------
(* Frames of the peer, timers, failures. *)

\* recv_window_update() of a stream, an overflow is a stream error
RecvWindowUpdate(s, inc) ==
    /\ open[s] /\ ~con_error
    /\ ~Overflows(send_window[s], inc, MaxWindow)
    /\ send_window' = [send_window EXCEPT ![s] = @ + inc]
    /\ UNCHANGED <<con_window, remote_window, stateVars, callVars, full>>
    /\ WakeCapacity({s})

\* mutant: more connection capacity wakes nobody
RecvConUpdateQuiet(inc) ==
    /\ ~con_error
    /\ ~Overflows(con_window, inc, MaxWindow)
    /\ con_window' = con_window + inc
    /\ UNCHANGED <<send_window, remote_window, stateVars, callVars, full, wakeVars, flagVars>>

\* recv_window_update() of the connection wakes senders if it was exhausted
RecvConUpdate(inc) ==
    /\ ~con_error
    /\ ~Overflows(con_window, inc, MaxWindow)
    /\ con_window' = con_window + inc
    /\ UNCHANGED <<send_window, remote_window, stateVars, callVars, full>>
    /\ WakeCapacity({s \in Streams : WindowSize(con_window) = 0 /\ open[s]})

\* recv_settings() with SETTINGS_INITIAL_WINDOW_SIZE
RecvSettings(val) ==
    LET upd == val - remote_window
    IN  /\ ~con_error
        /\ ~\E s \in Streams : open[s] /\ Overflows(send_window[s], upd, MaxWindow)
        /\ remote_window' = val
        /\ send_window' = [s \in Streams |-> IF open[s] THEN send_window[s] + upd ELSE send_window[s]]
        /\ UNCHANGED <<con_window, stateVars, callVars, full>>
        /\ WakeCapacity({s \in Streams : upd # 0 /\ open[s]})

\* mutant: a failed stream does not wake its task
FailSilent(S) ==
    /\ send' = [s \in Streams |-> IF s \in S THEN "closed" ELSE send[s]]
    /\ err' = [s \in Streams |-> err[s] \/ s \in S]
    /\ open' = [s \in Streams |-> open[s] /\ s \notin S]
    /\ StopTimers(S)
    /\ UNCHANGED wakeVars

\* reset_stream(), remote_reset_stream(), failed(): both halves close, the
\* stream is removed from the map and its timer stops
Fail(S) ==
    /\ send' = [s \in Streams |-> IF s \in S THEN "closed" ELSE send[s]]
    /\ err' = [s \in Streams |-> err[s] \/ s \in S]
    /\ open' = [s \in Streams |-> open[s] /\ s \notin S]
    /\ StopTimers(S)
    /\ Wake(S)

\* a reset by either side, GOAWAY, or a stream error
StreamFails(s) ==
    /\ open[s]
    /\ Fail({s})
    /\ UNCHANGED <<windowVars, con_error, callVars, full>>

\* set_failed_stream() of the streams that take_streams() returned; an
\* overflow of the connection window, or of a stream's by SETTINGS, too
ConnectionFails ==
    /\ ~con_error
    /\ con_error' = TRUE
    /\ Fail({s \in Streams : open[s]})
    /\ UNCHANGED <<windowVars, callVars, full>>

\* capacity_timeout()
CapacityTimeout(s) ==
    /\ timer[s]
    /\ IF wait[s] /\ send[s] = "payload" /\ Capacity(s) = 0
       THEN Fail({s})
       ELSE StopTimers({s}) /\ UNCHANGED <<send, open, err, wakeVars>>
    /\ UNCHANGED <<windowVars, con_error, callVars, full>>

\* the peer reads enough of the write buffer
WriteReady ==
    /\ full
    /\ full' = FALSE
    /\ woken' = [s \in Streams |-> woken[s] \/ task[s] = "write"]
    /\ UNCHANGED <<windowVars, stateVars, callVars, waker, flagVars>>

Next ==
    \/ \E s \in Streams, n \in 1 .. MaxLen, end \in BOOLEAN : SendPages(s, n, end)
    \/ \E s \in Streams :
          \/ EndStream(s, FALSE) \/ EndStream(s, TRUE) \/ EndRecv(s)
          \/ DropSend(s) \/ PollSendCapacity(s) \/ StopPolling(s)
          \/ PollCapacityWait(s) \/ PollWriteWait(s)
          \/ StreamFails(s) \/ CapacityTimeout(s)
    \/ \E s \in Streams, inc \in 1 .. MaxWindow : RecvWindowUpdate(s, inc)
    \/ \E inc \in 1 .. MaxWindow : RecvConUpdate(inc)
    \/ \E val \in 0 .. MaxWindow : RecvSettings(val)
    \/ ConnectionFails
    \/ WriteReady

(***************************************************************************)
(* Fairness: the executor polls a task that was woken, and the timer task  *)
(* runs.  Nothing is assumed of the peer or of the application.            *)
(***************************************************************************)
Fairness ==
    \A s \in Streams :
        /\ WF_vars(PollCapacityWait(s))
        /\ WF_vars(PollWriteWait(s))
        /\ WF_vars(CapacityTimeout(s))

Spec == Init /\ [][Next]_vars /\ Fairness

-----------------------------------------------------------------------------
(* Properties. *)

\* stream.rs send_pages: DATA never exceeds a window, neither the stream's nor
\* the connection's that all streams share, and is sent only on a stream
\* whose send side is open and that did not fail.
WithinWindows ==
    [][\A s \in Streams :
          con_window' < con_window /\ send_window'[s] < send_window[s] =>
              /\ con_window' >= 0 /\ send_window'[s] >= 0
              /\ send[s] = "payload" /\ ~err[s]]_vars

\* stream.rs wake_capacity_waiter, connection.rs recv_window_update "only newly
\* available connection capacity can unblock a sender": a sender that waits
\* and was not woken has nothing to send with and no reason to stop, its waker
\* is registered and its timeout is armed.
NoLostWake ==
    \A s \in Streams : task[s] \in {"capacity", "poll"} /\ ~woken[s] =>
        /\ Capacity(s) = 0
        /\ send[s] = "payload" /\ ~Failed(s)
        /\ waker[s] /\ wait[s] /\ timer[s]

\* stream.rs send_capacity: a wait for capacity ends when capacity stays
\* available, and by timeout when it stays exhausted.
WaitEnds ==
    \A s \in Streams :
        <>[](Capacity(s) > 0) \/ <>[](Capacity(s) = 0) => []<>(task[s] # "capacity")
=============================================================================
