--------------------------- MODULE SendFlowProofs ---------------------------
(***************************************************************************)
(* Proofs about SendFlow for every set of streams and every window: no     *)
(* wake-up of a sender is lost, and DATA stays within both windows.        *)
(*                                                                         *)
(* NoLostWake is inductive together with the types and SendOpen: a stream  *)
(* whose send half is open is in the map, has no error and belongs to a    *)
(* connection without error.  Frames of the peer wake only streams in the  *)
(* map, so without SendOpen a waiting sender might be missed.              *)
(***************************************************************************)
EXTENDS SendFlow, TLAPS

USE SendFlowAssumption

\* a stream whose send half is open is in the map, nothing failed
SendOpen == \A s \in Streams : send[s] = "payload" => open[s] /\ ~err[s] /\ ~con_error

\* TypeOK, the flags one by one
FlagTypes ==
    /\ open \in [Streams -> BOOLEAN] /\ err \in [Streams -> BOOLEAN]
    /\ eof \in [Streams -> BOOLEAN]
    /\ waker \in [Streams -> BOOLEAN] /\ woken \in [Streams -> BOOLEAN]
    /\ wait \in [Streams -> BOOLEAN] /\ timer \in [Streams -> BOOLEAN]
    /\ stopped \in [Streams -> BOOLEAN]

\* the inductive invariant
SendInv == TypeOK /\ SendOpen /\ NoLostWake

-----------------------------------------------------------------------------
(* Capacity. *)

\* The smaller of two numbers.
LEMMA MinOfTwo ==
    ASSUME NEW a \in Int, NEW b \in Int
    PROVE  Min({a, b}) = IF a <= b THEN a ELSE b
<1>1. \E x \in {a, b} : \A y \in {a, b} : x <= y
  OBVIOUS
<1>2. Min({a, b}) \in {a, b} /\ \A y \in {a, b} : Min({a, b}) <= y
  BY <1>1 DEF Min
<1> QED
  BY <1>2

\* available_send_capacity() is the smaller of the two windows, and never
\* negative.
LEMMA CapacityIs ==
    ASSUME NEW sw \in Int, NEW cw \in Int
    PROVE  /\ SendCapacity(sw, cw) \in Nat
           /\ SendCapacity(sw, cw) = 0 <=> sw <= 0 \/ cw <= 0
           /\ SendCapacity(sw, cw) > 0 => SendCapacity(sw, cw) <= sw /\ SendCapacity(sw, cw) <= cw
           /\ sw <= SendCapacity(sw, cw) \/ cw <= SendCapacity(sw, cw)
<1>1. WindowSize(sw) \in Nat /\ WindowSize(cw) \in Nat
  BY DEF WindowSize
<1>2. SendCapacity(sw, cw) = IF WindowSize(sw) <= WindowSize(cw) THEN WindowSize(sw) ELSE WindowSize(cw)
  BY <1>1, MinOfTwo DEF SendCapacity
<1> QED
  BY <1>1, <1>2 DEF WindowSize

\* There is no capacity exactly if one of the windows is exhausted.
LEMMA NoCapacity ==
    ASSUME NEW sw \in Int, NEW cw \in Int
    PROVE  SendCapacity(sw, cw) = 0 <=> sw <= 0 \/ cw <= 0
  BY CapacityIs

\* TypeOK is the types of the numbers and of the flags.
LEMMA Types ==
    ASSUME TypeOK
    PROVE  /\ FlagTypes
           /\ send_window \in [Streams -> Int] /\ con_window \in 0 .. MaxWindow
           /\ \A s \in Streams : Capacity(s) \in Nat
<1>1. FlagTypes
  BY DEF TypeOK, FlagTypes
<1>2. send_window \in [Streams -> Int] /\ con_window \in 0 .. MaxWindow
  BY DEF TypeOK
<1>3. ASSUME NEW s \in Streams
      PROVE  Capacity(s) \in Nat
  <2>1. send_window[s] \in Int /\ con_window \in Int
    BY <1>2
  <2> QED
    BY <2>1, CapacityIs DEF Capacity
<1> QED
  BY <1>1, <1>2, <1>3

\* The sender of a stream is not forgotten: NoLostWake for one stream.
NotForgotten(s) ==
    task[s] \in {"capacity", "poll"} /\ ~woken[s] =>
        /\ Capacity(s) = 0
        /\ send[s] = "payload" /\ ~Failed(s)
        /\ waker[s] /\ wait[s] /\ timer[s]

-----------------------------------------------------------------------------
(* send_pages(). *)

\* Starting and stopping waits and timers keeps the types of the flags.
LEMMA WaitTypes ==
    ASSUME FlagTypes, NEW s \in Streams, NEW S,
           CancelWait(s) \/ StartWait(s) \/ StopTimers(S) \/ UNCHANGED flagVars
    PROVE  /\ wait' \in [Streams -> BOOLEAN] /\ timer' \in [Streams -> BOOLEAN]
           /\ stopped' \in [Streams -> BOOLEAN]
<1>1. CASE CancelWait(s) \/ StartWait(s) \/ UNCHANGED flagVars
  BY <1>1 DEF FlagTypes, CancelWait, StartWait, flagVars
<1>2. CASE StopTimers(S)
  BY <1>2 DEF FlagTypes, StopTimers
<1> QED
  BY <1>1, <1>2

\* send_pages() spends at most what both windows allow, and leaves the senders
\* of other streams with no more capacity than they had.
LEMMA SendLoopWindows ==
    ASSUME TypeOK, NEW s \in Streams, NEW n \in Nat, NEW k \in 0 .. Min({n, Capacity(s)}),
           send_window' = [send_window EXCEPT ![s] = @ - k], con_window' = con_window - k
    PROVE  /\ k <= n /\ k <= Capacity(s) /\ k \in Nat
           /\ send_window' \in [Streams -> Int] /\ con_window' \in 0 .. MaxWindow
           /\ \A t \in Streams : Capacity(t) = 0 => Capacity(t)' = 0
           /\ k = Capacity(s) => Capacity(s)' = 0
           /\ k > 0 => send_window'[s] >= 0
<1>1. Capacity(s) \in Nat /\ send_window \in [Streams -> Int] /\ con_window \in 0 .. MaxWindow
  BY Types
<1>2. k <= n /\ k <= Capacity(s) /\ k \in Nat
  BY <1>1, MinOfTwo
<1>3. Capacity(s) > 0 => Capacity(s) <= send_window[s] /\ Capacity(s) <= con_window
  BY <1>1, CapacityIs DEF Capacity
<1>4. send_window' \in [Streams -> Int] /\ con_window' \in 0 .. MaxWindow
  BY <1>1, <1>2, <1>3
<1>5. ASSUME NEW t \in Streams, Capacity(t) = 0
      PROVE  Capacity(t)' = 0
  <2>1. send_window[t] <= 0 \/ con_window <= 0
    BY <1>1, <1>5, CapacityIs DEF Capacity
  <2>2. send_window'[t] <= send_window[t] /\ con_window' <= con_window
    BY <1>1, <1>2
  <2>3. send_window'[t] \in Int /\ con_window' \in Int /\ (send_window'[t] <= 0 \/ con_window' <= 0)
    BY <1>1, <1>4, <2>1, <2>2
  <2>4. SendCapacity(send_window'[t], con_window') = 0
    BY <2>3, NoCapacity
  <2> QED
    BY <2>4 DEF Capacity
<1>6. ASSUME k = Capacity(s)
      PROVE  Capacity(s)' = 0
  <2>1. send_window[s] <= k \/ con_window <= k
    BY <1>1, <1>6, CapacityIs DEF Capacity
  <2>2. send_window'[s] \in Int /\ con_window' \in Int /\ (send_window'[s] <= 0 \/ con_window' <= 0)
    BY <1>1, <1>2, <1>4, <2>1
  <2>3. SendCapacity(send_window'[s], con_window') = 0
    BY <2>2, NoCapacity
  <2> QED
    BY <2>3 DEF Capacity
<1> QED
  BY <1>1, <1>2, <1>3, <1>4, <1>5, <1>6

\* send_pages() runs until it ends or waits: the invariant is kept, a sender
\* that starts to wait for capacity has none.
LEMMA SendLoopKeeps ==
    ASSUME SendInv, NEW s \in Streams, NEW n \in 0 .. MaxLen, NEW end \in BOOLEAN,
           NEW resumed \in BOOLEAN, send[s] = "payload", SendLoop(s, n, end, resumed)
    PROVE  SendInv'
<1>1. TypeOK /\ FlagTypes /\ Capacity(s) \in Nat
  BY Types DEF SendInv
<1>2. PICK k \in 0 .. Min({n, Capacity(s)}), full1 \in BOOLEAN, gone \in BOOLEAN :
        /\ full => k = 0
        /\ k = 0 => full1 = full
        /\ gone => end /\ k = n
        /\ full' = full1
        /\ send_window' = [send_window EXCEPT ![s] = @ - k]
        /\ con_window' = con_window - k
        /\ UNCHANGED <<remote_window, err, con_error>>
        /\ \/ /\ \/ k = n
                 \/ k < Capacity(s) /\ ~full1
              /\ task' = [task EXCEPT ![s] = "idle"]
              /\ left' = [left EXCEPT ![s] = 0]
              /\ eof' = [eof EXCEPT ![s] = FALSE]
              /\ IF end /\ k = n THEN CloseSend(s, gone) ELSE UNCHANGED <<send, open>>
              /\ woken' = [woken EXCEPT ![s] = FALSE]
              /\ waker' = [waker EXCEPT ![s] = @ /\ ~(end /\ k = n)]
              /\ IF resumed THEN CancelWait(s) ELSE StopTimers({t \in {s} : gone})
           \/ /\ k < n /\ full1
              /\ task' = [task EXCEPT ![s] = "write"]
              /\ left' = [left EXCEPT ![s] = n - k]
              /\ eof' = [eof EXCEPT ![s] = end]
              /\ waker' = [waker EXCEPT ![s] = TRUE]
              /\ woken' = [woken EXCEPT ![s] = FALSE]
              /\ UNCHANGED <<send, open>>
              /\ IF resumed THEN CancelWait(s) ELSE UNCHANGED flagVars
           \/ /\ k < n /\ ~full1 /\ k = Capacity(s)
              /\ task' = [task EXCEPT ![s] = "capacity"]
              /\ left' = [left EXCEPT ![s] = n - k]
              /\ eof' = [eof EXCEPT ![s] = end]
              /\ UNCHANGED <<send, open>>
              /\ StartWait(s)
  BY DEF SendLoop
<1>3. /\ k <= n /\ k \in Nat
      /\ send_window' \in [Streams -> Int] /\ con_window' \in 0 .. MaxWindow
      /\ \A t \in Streams : Capacity(t) = 0 => Capacity(t)' = 0
      /\ k = Capacity(s) => Capacity(s)' = 0
  <2>1. n \in Nat
    OBVIOUS
  <2> QED
    BY <1>1, <1>2, <2>1, SendLoopWindows
<1>4. TypeOK'
  <2>1. /\ remote_window' \in 0 .. MaxWindow
        /\ task' \in [Streams -> Tasks] /\ left' \in [Streams -> 0 .. MaxLen]
        /\ con_error' \in BOOLEAN /\ full' \in BOOLEAN
        /\ send' \in [Streams -> {"payload", "closed"}]
    BY <1>1, <1>2, <1>3 DEF TypeOK, Tasks, CloseSend
  <2>2. FlagTypes'
    <3>1. open' \in [Streams -> BOOLEAN] /\ err' \in [Streams -> BOOLEAN] /\ eof' \in [Streams -> BOOLEAN]
      BY <1>1, <1>2 DEF FlagTypes, CloseSend
    <3>2. waker' \in [Streams -> BOOLEAN] /\ woken' \in [Streams -> BOOLEAN]
      BY <1>1, <1>2 DEF FlagTypes, StartWait
    <3>3. /\ wait' \in [Streams -> BOOLEAN] /\ timer' \in [Streams -> BOOLEAN]
          /\ stopped' \in [Streams -> BOOLEAN]
      <4>1. \/ CancelWait(s) \/ StartWait(s) \/ UNCHANGED flagVars
            \/ StopTimers({t \in {s} : gone})
        BY <1>2
      <4> QED
        BY <1>1, <4>1, WaitTypes
    <3> QED
      BY <3>1, <3>2, <3>3 DEF FlagTypes
  <2> QED
    BY <1>3, <2>1, <2>2 DEF TypeOK, FlagTypes
<1>5. SendOpen'
  <2>1. \A t \in Streams : send'[t] = "payload" => send[t] = "payload" /\ open'[t] = open[t]
    BY <1>1, <1>2 DEF CloseSend, TypeOK, FlagTypes
  <2> QED
    BY <1>2, <2>1 DEF SendInv, SendOpen
<1>6. ASSUME NEW t \in Streams
      PROVE  NotForgotten(t)'
  <2>1. CASE t = s
    <3>1. err[s] = FALSE /\ con_error = FALSE
      BY <1>1 DEF SendInv, SendOpen, TypeOK, FlagTypes
    <3>2. task'[s] = "capacity" => k = Capacity(s) /\ send' = send /\ StartWait(s)
      BY <1>1, <1>2 DEF TypeOK
    <3> QED
      BY <1>1, <1>2, <1>3, <2>1, <3>1, <3>2 DEF NotForgotten, Failed, StartWait, TypeOK, FlagTypes
  <2>2. CASE t # s
    <3>1. /\ task'[t] = task[t] /\ send'[t] = send[t] /\ waker'[t] = waker[t]
          /\ woken'[t] = woken[t] /\ wait'[t] = wait[t] /\ timer'[t] = timer[t]
      BY <1>1, <1>2, <2>2 DEF TypeOK, FlagTypes, CloseSend, CancelWait, StartWait, StopTimers, flagVars
    <3> QED
      BY <1>2, <1>3, <3>1 DEF SendInv, NoLostWake, NotForgotten, Failed
  <2> QED
    BY <2>1, <2>2
<1> QED
  BY <1>4, <1>5, <1>6 DEF SendInv, NoLostWake, NotForgotten

-----------------------------------------------------------------------------
(* Wake-ups. *)

\* Waking senders keeps the types of the flags.
LEMMA WakeTypes ==
    ASSUME FlagTypes, NEW S, Wake(S)
    PROVE  waker' \in [Streams -> BOOLEAN] /\ woken' \in [Streams -> BOOLEAN]
  BY DEF FlagTypes, Wake

\* A change of the windows: every sender that got capacity is woken, because
\* those that are not looked at got none.
LEMMA WakeCapacityKeeps ==
    ASSUME SendInv, NEW S, WakeCapacity(S),
           send_window' \in [Streams -> Int], con_window' \in 0 .. MaxWindow,
           remote_window' \in 0 .. MaxWindow,
           UNCHANGED <<stateVars, callVars, full>>,
           \A t \in Streams \ S : open[t] /\ Capacity(t) = 0 => Capacity(t)' = 0
    PROVE  SendInv'
<1> USE DEF stateVars, callVars
<1>1. TypeOK /\ FlagTypes
  BY Types DEF SendInv
<1>2. PICK ready : /\ ready = CapacityWaiters(S, send_window', con_window')
                   /\ Wake(ready)
                   /\ timer' = [s \in Streams |-> timer[s] /\ s \notin ready]
                   /\ UNCHANGED <<wait, stopped>>
  BY DEF WakeCapacity
<1>3. waker' \in [Streams -> BOOLEAN] /\ woken' \in [Streams -> BOOLEAN]
  BY <1>1, <1>2, WakeTypes
<1>4. timer' \in [Streams -> BOOLEAN]
  BY <1>1, <1>2 DEF FlagTypes
<1>5. TypeOK'
  BY <1>1, <1>2, <1>3, <1>4 DEF TypeOK, FlagTypes
<1>6. SendOpen'
  BY DEF SendInv, SendOpen
<1>7. ASSUME NEW t \in Streams, task'[t] \in {"capacity", "poll"}, ~woken'[t]
      PROVE  /\ Capacity(t)' = 0
             /\ send'[t] = "payload" /\ ~Failed(t)'
             /\ waker'[t] /\ wait'[t] /\ timer'[t]
  <2>1. ~woken[t]
    BY <1>2, <1>7 DEF Wake
  <2>2. /\ Capacity(t) = 0 /\ send[t] = "payload" /\ ~Failed(t)
        /\ waker[t] /\ wait[t] /\ timer[t]
    BY <1>7, <2>1 DEF SendInv, NoLostWake
  <2>3. open[t]
    BY <2>2 DEF SendInv, SendOpen
  <2>4. t \notin ready
    BY <1>2, <1>7, <2>2 DEF Wake
  <2>5. Capacity(t)' = 0
    <3>1. CASE t \in S
      <4>1. ~(SendCapacity(send_window'[t], con_window') > 0)
        BY <1>2, <2>2, <2>4, <3>1 DEF CapacityWaiters
      <4>2. SendCapacity(send_window'[t], con_window') \in Nat
        BY CapacityIs
      <4>3. SendCapacity(send_window'[t], con_window') = 0
        BY <4>1, <4>2
      <4> QED
        BY <4>3 DEF Capacity
    <3>2. CASE t \notin S
      BY <2>2, <2>3, <3>2
    <3> QED
      BY <3>1, <3>2
  <2>6. waker'[t] /\ wait'[t] /\ timer'[t]
    BY <1>2, <2>2, <2>4 DEF Wake
  <2> QED
    BY <2>2, <2>5, <2>6 DEF Failed
<1> QED
  BY <1>5, <1>6, <1>7 DEF SendInv, NoLostWake

\* Failing streams wakes their senders.
LEMMA FailKeeps ==
    ASSUME SendInv, NEW S, S \subseteq Streams, Fail(S), UNCHANGED <<windowVars, callVars, full>>,
           \/ con_error' = con_error
           \/ con_error' = TRUE /\ S = {s \in Streams : open[s]}
    PROVE  SendInv'
<1> USE DEF windowVars, callVars
<1>1. TypeOK /\ FlagTypes
  BY Types DEF SendInv
<1>2. /\ waker' \in [Streams -> BOOLEAN] /\ woken' \in [Streams -> BOOLEAN]
      /\ wait' = wait /\ stopped' = stopped /\ timer' \in [Streams -> BOOLEAN]
  <2>1. StopTimers(S) /\ Wake(S)
    BY DEF Fail
  <2>2. timer' \in [Streams -> BOOLEAN]
    BY <1>1, <2>1 DEF StopTimers, FlagTypes
  <2> QED
    BY <1>1, <2>1, <2>2, WakeTypes DEF StopTimers
<1>3. err' \in [Streams -> BOOLEAN] /\ open' \in [Streams -> BOOLEAN]
  BY <1>1 DEF Fail, FlagTypes
<1>4. TypeOK'
  BY ZenonT(30), <1>1, <1>2, <1>3 DEF Fail, TypeOK, FlagTypes
<1>5. SendOpen'
  <2> SUFFICES ASSUME NEW t \in Streams, send'[t] = "payload"
               PROVE  open'[t] /\ ~err'[t] /\ ~con_error'
    BY DEF SendOpen
  <2>1. t \notin S /\ send[t] = "payload"
    BY <1>1 DEF Fail
  <2>2. open[t] /\ ~err[t] /\ ~con_error
    BY <2>1 DEF SendInv, SendOpen
  <2>3. con_error' = con_error
    BY <2>1, <2>2
  <2>4. open'[t] = open[t] /\ err'[t] = err[t]
    BY <1>1, <2>1 DEF Fail, FlagTypes
  <2> QED
    BY <2>2, <2>3, <2>4
<1>6. ASSUME NEW t \in Streams, task'[t] \in {"capacity", "poll"}, ~woken'[t]
      PROVE  /\ Capacity(t)' = 0
             /\ send'[t] = "payload" /\ ~Failed(t)'
             /\ waker'[t] /\ wait'[t] /\ timer'[t]
  <2>1. ~woken[t]
    BY <1>6 DEF Fail, Wake
  <2>2. /\ Capacity(t) = 0 /\ send[t] = "payload" /\ ~Failed(t)
        /\ waker[t] /\ wait[t] /\ timer[t]
    BY <1>6, <2>1 DEF SendInv, NoLostWake
  <2>3. open[t]
    BY <2>2 DEF SendInv, SendOpen
  <2>4. t \notin S
    BY <1>6, <2>2 DEF Fail, Wake
  <2>5. con_error' = con_error
    BY <2>3, <2>4
  <2> QED
    BY <2>2, <2>4, <2>5 DEF Fail, Wake, StopTimers, Failed, Capacity
<1> QED
  BY <1>4, <1>5, <1>6 DEF SendInv, NoLostWake

\* A sender that is polled, does not wait any more and changed nothing else.
LEMMA PollKeeps ==
    ASSUME SendInv, NEW s \in Streams,
           task' = [task EXCEPT ![s] = "idle"],
           left' \in [Streams -> 0 .. MaxLen], eof' \in [Streams -> BOOLEAN],
           Polled(s), CancelWait(s) \/ UNCHANGED flagVars,
           UNCHANGED <<windowVars, stateVars, full>>
    PROVE  SendInv'
<1> USE DEF windowVars, stateVars
<1>1. TypeOK /\ FlagTypes
  BY Types DEF SendInv
<1>2. /\ wait' \in [Streams -> BOOLEAN] /\ timer' \in [Streams -> BOOLEAN]
      /\ stopped' \in [Streams -> BOOLEAN]
  BY <1>1, WaitTypes
<1>3. TypeOK'
  BY <1>1, <1>2 DEF TypeOK, FlagTypes, Polled, Tasks
<1>4. SendOpen'
  BY DEF SendInv, SendOpen
<1>5. ASSUME NEW t \in Streams, t # s
      PROVE  /\ task'[t] = task[t] /\ woken'[t] = woken[t] /\ waker'[t] = waker[t]
             /\ wait'[t] = wait[t] /\ timer'[t] = timer[t]
  BY <1>1, <1>5 DEF TypeOK, FlagTypes, Polled, CancelWait, flagVars
<1>6. task'[s] = "idle"
  BY <1>1 DEF TypeOK
<1> QED
  BY <1>3, <1>4, <1>5, <1>6 DEF SendInv, NoLostWake, Capacity, Failed

\* A sender that finds no capacity starts to wait, or waits once more.
LEMMA WaitKeeps ==
    ASSUME SendInv, NEW s \in Streams, NEW w \in {"capacity", "poll"},
           task' = [task EXCEPT ![s] = w], UNCHANGED <<windowVars, stateVars, left, eof, full>>,
           StartWait(s), ~Failed(s), send[s] # "closed", ~(Capacity(s) > 0)
    PROVE  SendInv'
<1> USE DEF windowVars, stateVars
<1>1. TypeOK /\ FlagTypes /\ Capacity(s) \in Nat
  BY Types DEF SendInv
<1>2. TypeOK'
  <2>1. FlagTypes'
    BY <1>1 DEF FlagTypes, StartWait
  <2> QED
    BY <1>1, <2>1 DEF TypeOK, FlagTypes, Tasks
<1>3. SendOpen'
  BY DEF SendInv, SendOpen
<1>4. ASSUME NEW t \in Streams, t # s
      PROVE  /\ task'[t] = task[t] /\ woken'[t] = woken[t] /\ waker'[t] = waker[t]
             /\ wait'[t] = wait[t] /\ timer'[t] = timer[t]
  BY <1>1, <1>4 DEF TypeOK, FlagTypes, StartWait
<1>5. /\ Capacity(s) = 0 /\ send[s] = "payload"
      /\ waker'[s] /\ wait'[s] /\ timer'[s]
  BY <1>1 DEF TypeOK, FlagTypes, StartWait
<1> QED
  BY <1>2, <1>3, <1>4, <1>5 DEF SendInv, NoLostWake, Capacity, Failed

-----------------------------------------------------------------------------
(* All steps. *)

\* Every step keeps the invariant.
LEMMA SendStep ==
    ASSUME SendInv, [Next]_vars
    PROVE  SendInv'
<1>1. TypeOK /\ FlagTypes /\ \A s \in Streams : Capacity(s) \in Nat
  BY Types DEF SendInv
<1>2. ASSUME NEW s \in Streams, NEW n \in 1 .. MaxLen, NEW end \in BOOLEAN, SendPages(s, n, end)
      PROVE  SendInv'
  <2>1. n \in 0 .. MaxLen
    OBVIOUS
  <2> QED
    BY <1>2, <2>1, SendLoopKeeps DEF SendPages
<1>3. ASSUME NEW s \in Streams, NEW gone \in BOOLEAN, EndStream(s, gone)
      PROVE  SendInv'
  <2> USE DEF windowVars, callVars
  <2>1. StopTimers({t \in {s} : gone}) /\ Wake({s}) /\ CloseSend(s, gone)
    BY <1>3 DEF EndStream
  <2>2. TypeOK'
    <3>1. /\ wait' \in [Streams -> BOOLEAN] /\ timer' \in [Streams -> BOOLEAN]
          /\ stopped' \in [Streams -> BOOLEAN]
      BY <1>1, <2>1, WaitTypes
    <3>2. waker' \in [Streams -> BOOLEAN] /\ woken' \in [Streams -> BOOLEAN]
      BY <1>1, <2>1, WakeTypes
    <3>3. send' \in [Streams -> {"payload", "closed"}] /\ open' \in [Streams -> BOOLEAN]
      BY <1>1, <2>1 DEF CloseSend, TypeOK, FlagTypes
    <3> QED
      BY <1>1, <1>3, <3>1, <3>2, <3>3 DEF EndStream, TypeOK, FlagTypes
  <2>3. send'[s] = "closed" /\ \A t \in Streams \ {s} : send'[t] = send[t] /\ open'[t] = open[t]
    BY <1>1, <2>1 DEF CloseSend, TypeOK, FlagTypes
  <2>4. SendOpen'
    BY <1>3, <2>3 DEF EndStream, SendInv, SendOpen
  <2>5. \A t \in Streams \ {s} : /\ waker'[t] = waker[t] /\ woken'[t] = woken[t]
                                 /\ wait'[t] = wait[t] /\ timer'[t] = timer[t]
    BY <1>1, <2>1 DEF Wake, StopTimers, FlagTypes
  <2>6. waker[s] => woken'[s]
    BY <2>1 DEF Wake
  <2>7. woken[s] => woken'[s]
    BY <2>1 DEF Wake
  <2> QED
    BY <1>3, <2>2, <2>3, <2>4, <2>5, <2>6, <2>7 DEF EndStream, SendInv, NoLostWake, Capacity, Failed
<1>4. ASSUME NEW s \in Streams, EndRecv(s)
      PROVE  SendInv'
  <2> USE DEF windowVars, callVars
  <2>1. TypeOK'
    <3>1. /\ wait' \in [Streams -> BOOLEAN] /\ timer' \in [Streams -> BOOLEAN]
          /\ stopped' \in [Streams -> BOOLEAN]
      BY <1>1, <1>4, WaitTypes DEF EndRecv
    <3>2. waker' \in [Streams -> BOOLEAN] /\ woken' \in [Streams -> BOOLEAN]
      BY <1>1, <1>4, WakeTypes DEF EndRecv
    <3> QED
      BY <1>1, <1>4, <3>1, <3>2 DEF EndRecv, TypeOK, FlagTypes
  <2>2. SendOpen'
    BY <1>1, <1>4 DEF EndRecv, SendInv, SendOpen, FlagTypes
  <2>3. \A t \in Streams \ {s} : /\ waker'[t] = waker[t] /\ woken'[t] = woken[t]
                                 /\ wait'[t] = wait[t] /\ timer'[t] = timer[t]
    BY <1>1, <1>4 DEF EndRecv, Wake, StopTimers, FlagTypes
  <2>4. woken[s] => woken'[s]
    BY <1>4 DEF EndRecv, Wake
  <2> QED
    BY <1>4, <2>1, <2>2, <2>3, <2>4 DEF EndRecv, SendInv, NoLostWake, Capacity, Failed
<1>5. ASSUME NEW s \in Streams, CallFails(s), CancelWait(s) \/ UNCHANGED flagVars
      PROVE  SendInv'
  <2>1. left' \in [Streams -> 0 .. MaxLen] /\ eof' \in [Streams -> BOOLEAN]
    BY <1>1, <1>5 DEF CallFails, TypeOK, FlagTypes
  <2> QED
    BY <1>5, <2>1, PollKeeps DEF CallFails
<1>6. ASSUME NEW s \in Streams, PollCapacityWait(s)
      PROVE  SendInv'
  <2>1. CASE Failed(s) \/ send[s] = "closed"
    BY <1>5, <1>6, <2>1 DEF PollCapacityWait
  <2>2. CASE ~(Failed(s) \/ send[s] = "closed") /\ Capacity(s) > 0
    <3>1. send[s] = "payload" /\ left[s] \in 0 .. MaxLen /\ eof[s] \in BOOLEAN
      BY <1>1, <2>2 DEF TypeOK, FlagTypes
    <3> QED
      BY <1>6, <2>2, <3>1, SendLoopKeeps DEF PollCapacityWait
  <2>3. CASE ~(Failed(s) \/ send[s] = "closed") /\ ~(Capacity(s) > 0)
    <3>1. task' = [task EXCEPT ![s] = "capacity"]
      BY <1>1, <1>6, <2>3 DEF PollCapacityWait, callVars, TypeOK
    <3> QED
      BY <1>6, <2>3, <3>1, WaitKeeps DEF PollCapacityWait, callVars
  <2> QED
    BY <2>1, <2>2, <2>3
<1>7. ASSUME NEW s \in Streams, PollWriteWait(s)
      PROVE  SendInv'
  <2>1. CASE Failed(s) \/ send[s] = "closed"
    BY <1>5, <1>7, <2>1 DEF PollWriteWait
  <2>2. CASE ~(Failed(s) \/ send[s] = "closed") /\ full
    <3> USE DEF windowVars, stateVars, callVars, flagVars
    <3>1. TypeOK'
      <4>1. waker' \in [Streams -> BOOLEAN] /\ woken' \in [Streams -> BOOLEAN]
        BY <1>1, <1>7, <2>2 DEF PollWriteWait, FlagTypes
      <4> QED
        BY <1>1, <1>7, <2>2, <4>1 DEF PollWriteWait, TypeOK, FlagTypes
    <3>2. SendOpen'
      BY <1>7, <2>2 DEF PollWriteWait, SendInv, SendOpen
    <3>3. \A t \in Streams \ {s} : waker'[t] = waker[t] /\ woken'[t] = woken[t]
      BY <1>1, <1>7, <2>2 DEF PollWriteWait, FlagTypes
    <3> QED
      BY <1>7, <2>2, <3>1, <3>2, <3>3 DEF PollWriteWait, SendInv, NoLostWake, Capacity, Failed
  <2>3. CASE ~(Failed(s) \/ send[s] = "closed") /\ ~full
    <3>1. send[s] = "payload" /\ left[s] \in 0 .. MaxLen /\ eof[s] \in BOOLEAN
      BY <1>1, <2>3 DEF TypeOK, FlagTypes
    <3> QED
      BY <1>7, <2>3, <3>1, SendLoopKeeps DEF PollWriteWait
  <2> QED
    BY <2>1, <2>2, <2>3
<1>8. ASSUME NEW s \in Streams, DropSend(s)
      PROVE  SendInv'
  <2>1. left' \in [Streams -> 0 .. MaxLen] /\ eof' \in [Streams -> BOOLEAN]
    BY <1>1, <1>8 DEF DropSend, TypeOK, FlagTypes
  <2> QED
    BY <1>8, <2>1, PollKeeps DEF DropSend
<1>9. ASSUME NEW s \in Streams, PollSendCapacity(s)
      PROVE  SendInv'
  <2>1. CASE Failed(s) \/ send[s] = "closed" \/ Capacity(s) > 0
    <3>1. left' \in [Streams -> 0 .. MaxLen] /\ eof' \in [Streams -> BOOLEAN]
      BY <1>1, <1>9 DEF PollSendCapacity, TypeOK, FlagTypes
    <3> QED
      BY <1>9, <2>1, <3>1, PollKeeps DEF PollSendCapacity
  <2>2. CASE ~(Failed(s) \/ send[s] = "closed" \/ Capacity(s) > 0)
    BY <1>9, <2>2, WaitKeeps DEF PollSendCapacity
  <2> QED
    BY <2>1, <2>2
<1>10. ASSUME NEW s \in Streams, StopPolling(s)
       PROVE  SendInv'
  <2> USE DEF windowVars, stateVars, wakeVars
  <2>1. TypeOK'
    BY <1>1, <1>10 DEF StopPolling, TypeOK, FlagTypes, Tasks
  <2>2. SendOpen'
    BY <1>10 DEF StopPolling, SendInv, SendOpen
  <2>3. task'[s] = "idle" /\ \A t \in Streams \ {s} : task'[t] = task[t]
    BY <1>1, <1>10 DEF StopPolling, TypeOK
  <2> QED
    BY <1>10, <2>1, <2>2, <2>3 DEF StopPolling, SendInv, NoLostWake, Capacity, Failed
<1>11. ASSUME NEW s \in Streams, NEW inc \in 1 .. MaxWindow, RecvWindowUpdate(s, inc)
       PROVE  SendInv'
  <2>1. send_window' \in [Streams -> Int] /\ con_window' \in 0 .. MaxWindow /\ remote_window' \in 0 .. MaxWindow
    BY <1>1, <1>11 DEF RecvWindowUpdate, TypeOK
  <2>2. \A t \in Streams \ {s} : Capacity(t)' = Capacity(t)
    BY <1>1, <1>11 DEF RecvWindowUpdate, Capacity, TypeOK
  <2> QED
    BY <1>11, <2>1, <2>2, WakeCapacityKeeps DEF RecvWindowUpdate
<1>12. ASSUME NEW inc \in 1 .. MaxWindow, RecvConUpdate(inc)
       PROVE  SendInv'
  <2> DEFINE S == {s \in Streams : WindowSize(con_window) = 0 /\ open[s]}
  <2>1. send_window' \in [Streams -> Int] /\ con_window' \in 0 .. MaxWindow /\ remote_window' \in 0 .. MaxWindow
    BY <1>1, <1>12 DEF RecvConUpdate, Overflows, TypeOK
  <2>2. ASSUME NEW t \in Streams \ S, open[t], Capacity(t) = 0
        PROVE  Capacity(t)' = 0
    <3>1. con_window > 0 /\ con_window \in Int /\ send_window[t] \in Int
      BY <1>1, <2>2 DEF WindowSize, TypeOK
    <3>2. send_window[t] <= 0
      <4>1. SendCapacity(send_window[t], con_window) = 0
        BY <2>2 DEF Capacity
      <4> QED
        BY <3>1, <4>1, NoCapacity
    <3>3. SendCapacity(send_window'[t], con_window') = 0
      BY <1>12, <2>1, <3>1, <3>2, NoCapacity DEF RecvConUpdate
    <3> QED
      BY <3>3 DEF Capacity
  <2> QED
    BY <1>12, <2>1, <2>2, WakeCapacityKeeps DEF RecvConUpdate
<1>13. ASSUME NEW val \in 0 .. MaxWindow, RecvSettings(val)
       PROVE  SendInv'
  <2> DEFINE upd == val - remote_window
             S == {s \in Streams : upd # 0 /\ open[s]}
  <2>1. /\ remote_window' = val /\ con_window' = con_window
        /\ send_window' = [s \in Streams |-> IF open[s] THEN send_window[s] + upd ELSE send_window[s]]
        /\ UNCHANGED <<stateVars, callVars, full>>
        /\ WakeCapacity(S)
    BY <1>13 DEF RecvSettings
  <2>2. send_window' \in [Streams -> Int] /\ con_window' \in 0 .. MaxWindow /\ remote_window' \in 0 .. MaxWindow
    BY <1>1, <2>1 DEF TypeOK
  <2>3. ASSUME NEW t \in Streams \ S, open[t], Capacity(t) = 0
        PROVE  Capacity(t)' = 0
    <3>1. send_window'[t] = send_window[t]
      BY <1>1, <2>1, <2>3 DEF TypeOK
    <3> QED
      BY <2>1, <2>3, <3>1 DEF Capacity
  <2> QED
    BY <2>1, <2>2, <2>3, WakeCapacityKeeps
<1>14. ASSUME NEW s \in Streams, StreamFails(s)
       PROVE  SendInv'
  BY <1>14, FailKeeps DEF StreamFails
<1>15. CASE ConnectionFails
  BY <1>15, FailKeeps DEF ConnectionFails
<1>16. ASSUME NEW s \in Streams, CapacityTimeout(s)
       PROVE  SendInv'
  <2>1. CASE wait[s] /\ send[s] = "payload" /\ Capacity(s) = 0
    BY <1>16, <2>1, FailKeeps DEF CapacityTimeout
  <2>2. CASE ~(wait[s] /\ send[s] = "payload" /\ Capacity(s) = 0)
    <3> USE DEF windowVars, callVars, wakeVars
    <3>1. StopTimers({s}) /\ UNCHANGED <<send, open, err, wakeVars, windowVars, con_error, callVars, full>>
      BY <1>16, <2>2 DEF CapacityTimeout
    <3>2. TypeOK'
      <4>1. /\ wait' \in [Streams -> BOOLEAN] /\ timer' \in [Streams -> BOOLEAN]
            /\ stopped' \in [Streams -> BOOLEAN]
        BY <1>1, <3>1, WaitTypes
      <4> QED
        BY <1>1, <3>1, <4>1 DEF TypeOK, FlagTypes
    <3>3. SendOpen'
      BY <3>1 DEF SendInv, SendOpen
    <3>4. wait' = wait /\ \A t \in Streams \ {s} : timer'[t] = timer[t]
      BY <1>1, <3>1 DEF StopTimers, FlagTypes
    <3> QED
      BY <2>2, <3>1, <3>2, <3>3, <3>4 DEF SendInv, NoLostWake, Capacity, Failed
  <2> QED
    BY <2>1, <2>2
<1>17. CASE WriteReady
  <2> USE DEF windowVars, stateVars, callVars, flagVars
  <2>1. woken' \in [Streams -> BOOLEAN] /\ \A s \in Streams : woken[s] => woken'[s]
    BY <1>1, <1>17 DEF WriteReady, FlagTypes
  <2>2. TypeOK'
    BY <1>1, <1>17, <2>1 DEF WriteReady, TypeOK, FlagTypes
  <2>3. SendOpen'
    BY <1>17 DEF WriteReady, SendInv, SendOpen
  <2> QED
    BY <1>17, <2>1, <2>2, <2>3 DEF WriteReady, SendInv, NoLostWake, Capacity, Failed
<1>18. CASE UNCHANGED vars
  <2> USE DEF vars, windowVars, stateVars, callVars, wakeVars, flagVars
  <2>1. TypeOK'
    BY <1>1, <1>18 DEF TypeOK, FlagTypes
  <2> QED
    BY <1>18, <2>1 DEF SendInv, SendOpen, NoLostWake, Capacity, Failed
<1> QED
  BY <1>2, <1>3, <1>4, <1>6, <1>7, <1>8, <1>9, <1>10, <1>11, <1>12, <1>13, <1>14, <1>15, <1>16, <1>17,
     <1>18 DEF Next

\* stream.rs wake_capacity_waiter, connection.rs recv_window_update and
\* recv_settings: the invariant holds.
THEOREM SendInvariant == Spec => []SendInv
<1>1. Init => SendInv
  <2> SUFFICES ASSUME Init
               PROVE  SendInv
    OBVIOUS
  <2>1. TypeOK
    <3>1. FlagTypes
      BY DEF Init, FlagTypes
    <3>2. /\ send_window \in [Streams -> Int]
          /\ con_window \in 0 .. MaxWindow /\ remote_window \in 0 .. MaxWindow
          /\ left \in [Streams -> 0 .. MaxLen]
      BY DEF Init
    <3>3. /\ send \in [Streams -> {"payload", "closed"}] /\ task \in [Streams -> Tasks]
          /\ con_error \in BOOLEAN /\ full \in BOOLEAN
      BY DEF Init, Tasks
    <3> QED
      BY <3>1, <3>2, <3>3 DEF TypeOK, FlagTypes
  <2>2. SendOpen
    BY DEF Init, SendOpen
  <2>3. NoLostWake
    BY DEF Init, NoLostWake
  <2> QED
    BY <2>1, <2>2, <2>3 DEF SendInv
<1> QED
  BY <1>1, SendStep, PTL DEF Spec

\* stream.rs poll_send_capacity, wake_capacity_waiter: whatever the windows and
\* the number of streams, a sender that waits and was not woken has nothing to
\* send with and no reason to stop.
THEOREM WakeUpsNotLost == Spec => []NoLostWake
<1>1. SendInv => NoLostWake
  BY DEF SendInv
<1> QED
  BY <1>1, SendInvariant, PTL

\* One poll of send_pages() that spends connection window stays within both
\* windows.
LEMMA LoopWithinWindows ==
    ASSUME SendInv, NEW s \in Streams, NEW n \in 0 .. MaxLen, NEW end, NEW resumed,
           SendLoop(s, n, end, resumed), NEW t \in Streams,
           con_window' < con_window, send_window'[t] < send_window[t]
    PROVE  t = s /\ con_window' >= 0 /\ send_window'[t] >= 0
<1>1. TypeOK /\ n \in Nat
  BY DEF SendInv
<1>2. PICK k \in 0 .. Min({n, Capacity(s)}) :
        send_window' = [send_window EXCEPT ![s] = @ - k] /\ con_window' = con_window - k
  BY DEF SendLoop
<1>3. /\ k \in Nat /\ con_window' \in 0 .. MaxWindow
      /\ k > 0 => send_window'[s] >= 0
  BY <1>1, <1>2, SendLoopWindows
<1>4. t = s
  BY <1>1, <1>2 DEF TypeOK
<1>5. k > 0
  BY <1>1, <1>2, <1>3 DEF TypeOK
<1> QED
  BY <1>3, <1>4, <1>5

\* Only send_pages() spends connection window.
LEMMA OnlySendPagesSpends ==
    ASSUME SendInv, [Next]_vars, con_window' < con_window
    PROVE  \E s \in Streams, n \in 0 .. MaxLen, end, resumed \in BOOLEAN :
               send[s] = "payload" /\ SendLoop(s, n, end, resumed)
<1>1. TypeOK /\ FlagTypes
  BY Types DEF SendInv
<1>2. con_window' # con_window
  BY <1>1 DEF TypeOK
<1>3. ASSUME NEW s \in Streams, NEW n \in 1 .. MaxLen, NEW end \in BOOLEAN, SendPages(s, n, end)
      PROVE  send[s] = "payload" /\ n \in 0 .. MaxLen /\ SendLoop(s, n, end, FALSE)
  <2>1. n \in 0 .. MaxLen
    OBVIOUS
  <2> QED
    BY <1>3, <2>1 DEF SendPages
<1>4. ASSUME NEW s \in Streams, PollCapacityWait(s)
      PROVE  /\ send[s] = "payload" /\ left[s] \in 0 .. MaxLen /\ eof[s] \in BOOLEAN
             /\ SendLoop(s, left[s], eof[s], TRUE)
  BY <1>1, <1>2, <1>4 DEF PollCapacityWait, CallFails, windowVars, TypeOK, FlagTypes
<1>5. ASSUME NEW s \in Streams, PollWriteWait(s)
      PROVE  /\ send[s] = "payload" /\ left[s] \in 0 .. MaxLen /\ eof[s] \in BOOLEAN
             /\ SendLoop(s, left[s], eof[s], FALSE)
  BY <1>1, <1>2, <1>5 DEF PollWriteWait, CallFails, windowVars, TypeOK, FlagTypes
<1>6. ASSUME NEW inc \in 1 .. MaxWindow, RecvConUpdate(inc)
      PROVE  FALSE
  BY <1>1, <1>6 DEF RecvConUpdate, TypeOK
<1>7. CASE Next
  BY <1>2, <1>3, <1>4, <1>5, <1>6, <1>7 DEF Next, windowVars, EndStream, EndRecv, DropSend, PollSendCapacity,
       StopPolling, RecvWindowUpdate, RecvSettings, StreamFails, ConnectionFails, CapacityTimeout, WriteReady
<1>8. CASE UNCHANGED vars
  BY <1>2, <1>8 DEF vars, windowVars
<1> QED
  BY <1>7, <1>8

\* stream.rs send_pages: whatever the windows, DATA never exceeds the stream's
\* nor the connection's, and is sent on open streams only.
THEOREM DataWithinWindows == Spec => WithinWindows
<1>1. ASSUME SendInv, [Next]_vars
      PROVE  [\A s \in Streams :
                con_window' < con_window /\ send_window'[s] < send_window[s] =>
                    /\ con_window' >= 0 /\ send_window'[s] >= 0
                    /\ send[s] = "payload" /\ ~err[s]]_vars
  <2> SUFFICES ASSUME NEW t \in Streams, con_window' < con_window, send_window'[t] < send_window[t]
               PROVE  /\ con_window' >= 0 /\ send_window'[t] >= 0
                      /\ send[t] = "payload" /\ ~err[t]
    OBVIOUS
  <2>1. PICK s \in Streams, n \in 0 .. MaxLen, end, resumed \in BOOLEAN :
               send[s] = "payload" /\ SendLoop(s, n, end, resumed)
    BY <1>1, OnlySendPagesSpends
  <2>2. t = s /\ con_window' >= 0 /\ send_window'[t] >= 0
    BY <1>1, <2>1, LoopWithinWindows
  <2> QED
    BY <1>1, <2>1, <2>2 DEF SendInv, SendOpen
<1> QED
  BY <1>1, SendInvariant, PTL DEF Spec, WithinWindows
=============================================================================
