---------------------------- MODULE TimersProofs ----------------------------
(***************************************************************************)
(* Proofs about Timers for every configuration, every length of a second   *)
(* and every delay of the tasks: the capacity timer and its streams stay   *)
(* in step, a capacity timeout is on time, a live peer is kept and a       *)
(* silent one is not.                                                      *)
(*                                                                         *)
(* The capacity timer counts seconds of its own, which begin when its task *)
(* wakes.  TimeLeft bounds from both sides when a stream's second will     *)
(* come: the seconds that are missing, each at least Second and at most    *)
(* Second + Slack long, from the end of the task's sleep on.  The other    *)
(* timeouts follow from where the ends of the sleeps lie.                  *)
(***************************************************************************)
EXTENDS Timers, TLAPS

USE TimersAssumption

\* the streams of A and no others are registered, each in its second
InStep(tm, A) ==
    /\ tm.running \in BOOLEAN
    /\ tm.current \in Nat
    /\ tm.streams \in [A -> Nat]
    /\ tm.notifications \in [DOMAIN tm.notifications -> SUBSET A]
    /\ DOMAIN tm.notifications \subseteq Nat
    /\ \A s \in A : /\ tm.streams[s] >= tm.current
                    /\ tm.streams[s] \in DOMAIN tm.notifications
                    /\ s \in tm.notifications[tm.streams[s]]
    /\ \A key \in DOMAIN tm.notifications : \A s \in tm.notifications[key] : tm.streams[s] = key
    /\ A # {} => tm.running

-----------------------------------------------------------------------------
(* The operations of the timer. *)

\* unregister(): the streams of S are gone, the others stay.
LEMMA UnregisterInStep ==
    ASSUME NEW tm, NEW A, NEW S, InStep(tm, A), NEW B, B = A \ S
    PROVE  /\ InStep(Unregister(tm, S), B)
           /\ Unregister(tm, S).running = tm.running
           /\ Unregister(tm, S).current = tm.current
           /\ \A s \in B : Unregister(tm, S).streams[s] = tm.streams[s]
<1> DEFINE new == Unregister(tm, S)
           n == tm.notifications
           gone(key) == {s \in S \intersect DOMAIN tm.streams : tm.streams[s] = key}
<1>1. /\ DOMAIN tm.streams = A
      /\ tm.streams \in [A -> Nat]
      /\ n \in [DOMAIN n -> SUBSET A]
  BY DEF InStep
<1>2. /\ new.running = tm.running /\ new.current = tm.current
      /\ new.streams = [s \in B |-> tm.streams[s]]
      /\ new.notifications = [key \in DOMAIN n |-> n[key] \ gone(key)]
  BY <1>1 DEF Unregister, Restrict
<1> HIDE DEF new
<1>3. \A key \in DOMAIN n : \A s \in n[key] : s \in S => s \in gone(key)
  BY <1>1 DEF InStep
<1>4. new.notifications \in [DOMAIN new.notifications -> SUBSET B]
  BY <1>1, <1>2, <1>3
<1>5. \A s \in B : /\ new.streams[s] = tm.streams[s]
                       /\ new.streams[s] \in DOMAIN n
                       /\ s \in new.notifications[new.streams[s]]
  BY <1>1, <1>2 DEF InStep
<1>6. \A key \in DOMAIN n : \A s \in new.notifications[key] : new.streams[s] = key
  BY <1>1, <1>2, <1>3 DEF InStep
<1> HIDE DEF gone
<1>7. DOMAIN new.notifications = DOMAIN n /\ new.streams \in [B -> Nat]
  BY <1>1, <1>2
<1>8. \A s \in B : new.streams[s] >= new.current
  BY <1>2, <1>5 DEF InStep
<1>9. InStep(new, B)
  BY <1>2, <1>4, <1>5, <1>6, <1>7, <1>8 DEF InStep
<1> QED
  BY <1>2, <1>5, <1>9 DEF new

\* register() of a stream that is not registered.
LEMMA RegisterInStep ==
    ASSUME NEW tm, NEW A, InStep(tm, A), NEW s, s \notin A,
           NEW timeout \in Nat, NEW secs \in Nat, NEW B, B = A \union {s}
    PROVE  InStep(Register(tm, s, timeout, secs), B)
<1> DEFINE new == Register(tm, s, timeout, secs)
           n == tm.notifications
           current == IF tm.running THEN tm.current ELSE secs
           hnd == current + timeout
<1>1. /\ DOMAIN tm.streams = A
      /\ tm.streams \in [A -> Nat]
      /\ n \in [DOMAIN n -> SUBSET A]
      /\ tm.running \in BOOLEAN
      /\ tm.current \in Nat
      /\ DOMAIN n \subseteq Nat
      /\ A # {} => tm.running
  BY DEF InStep
<1>2. /\ new.running = TRUE
      /\ new.current = current
      /\ new.current \in Nat
      /\ new.streams = Put(tm.streams, s, hnd)
      /\ new.notifications = Put(n, hnd, At(n, hnd) \union {s})
      /\ new.streams[s] = hnd
      /\ \A t \in A : new.streams[t] = tm.streams[t]
  <2>1. new = [running |-> TRUE, current |-> current,
               streams |-> Put(tm.streams, s, hnd),
               notifications |-> Put(n, hnd, At(n, hnd) \union {s})]
    BY <1>1 DEF Register
  <2>2. current \in Nat
    BY <1>1
  <2> HIDE DEF new, n, current, hnd
  <2>3. /\ new.running = TRUE /\ new.current = current
        /\ new.streams = Put(tm.streams, s, hnd)
        /\ new.notifications = Put(n, hnd, At(n, hnd) \union {s})
    BY <2>1
  <2>4. new.streams[s] = hnd /\ \A t \in A : new.streams[t] = tm.streams[t]
    BY <1>1, <2>3 DEF Put
  <2> QED
    BY <2>2, <2>3, <2>4
<1> HIDE DEF new
<1>3. hnd \in Nat /\ hnd >= new.current
  BY <1>2
<1>4. A # {} => new.current = tm.current
  BY <1>1, <1>2
<1> HIDE DEF hnd, current
<1>5. new.streams \in [B -> Nat]
  BY <1>1, <1>2, <1>3 DEF Put
<1>6. /\ DOMAIN new.notifications = DOMAIN n \union {hnd}
      /\ new.notifications[hnd] = At(n, hnd) \union {s}
      /\ \A key \in DOMAIN n : key # hnd => new.notifications[key] = n[key]
      /\ new.notifications = [key \in DOMAIN new.notifications |-> new.notifications[key]]
  BY <1>2 DEF Put
<1>7. At(n, hnd) \subseteq A /\ \A t \in At(n, hnd) : tm.streams[t] = hnd
  BY <1>1 DEF At, InStep
<1>8. new.notifications \in [DOMAIN new.notifications -> SUBSET B]
  <2>1. \A key \in DOMAIN new.notifications : new.notifications[key] \in SUBSET B
    BY <1>1, <1>6, <1>7
  <2> QED
    BY <1>6, <2>1
<1>9. \A t \in B : /\ new.streams[t] >= new.current
                              /\ new.streams[t] \in DOMAIN new.notifications
                              /\ t \in new.notifications[new.streams[t]]
  <2>1. ASSUME NEW t \in A
        PROVE  /\ new.streams[t] >= new.current
               /\ new.streams[t] \in DOMAIN new.notifications
               /\ t \in new.notifications[new.streams[t]]
    <3>1. tm.streams[t] >= tm.current /\ tm.streams[t] \in DOMAIN n /\ t \in n[tm.streams[t]]
      BY <2>1 DEF InStep
    <3>2. new.current = tm.current /\ new.streams[t] = tm.streams[t]
      BY <1>2, <1>4, <2>1
    <3>3. tm.streams[t] \in DOMAIN new.notifications
      BY <1>6, <3>1
    <3>4. t \in new.notifications[tm.streams[t]]
      <4>1. CASE tm.streams[t] = hnd
        BY <1>6, <3>1, <4>1 DEF At
      <4>2. CASE tm.streams[t] # hnd
        BY <1>6, <3>1, <4>2
      <4> QED
        BY <4>1, <4>2
    <3> QED
      BY <3>1, <3>2, <3>3, <3>4
  <2> QED
    BY <1>2, <1>3, <1>6, <2>1
<1>10. \A key \in DOMAIN new.notifications : \A t \in new.notifications[key] : new.streams[t] = key
  <2> TAKE key \in DOMAIN new.notifications
  <2> TAKE t \in new.notifications[key]
  <2>1. CASE key = hnd
    <3>1. t = s \/ (t \in A /\ tm.streams[t] = hnd)
      BY <1>6, <1>7, <2>1
    <3> QED
      BY <1>2, <2>1, <3>1
  <2>2. CASE key # hnd
    <3>1. key \in DOMAIN n /\ t \in n[key] /\ t \in A
      BY <1>1, <1>6, <2>2
    <3> QED
      BY <1>2, <3>1 DEF InStep
  <2> QED
    BY <2>1, <2>2
<1>11. DOMAIN new.notifications \subseteq Nat
  BY <1>1, <1>3, <1>6
<1>12. InStep(new, B)
  BY <1>2, <1>5, <1>8, <1>9, <1>10, <1>11 DEF InStep
<1> QED
  BY <1>12 DEF new

\* The task has nothing left to do.
LEMMA StoppedInStep ==
    ASSUME NEW tm, tm.current \in Nat
    PROVE  InStep(Stopped(tm), {}) /\ Stopped(tm).running = FALSE
<1>1. DOMAIN <<>> = {}
  OBVIOUS
<1>2. <<>> \in [{} -> Nat] /\ <<>> \in [{} -> SUBSET {}]
  OBVIOUS
<1>3. /\ Stopped(tm).running = FALSE /\ Stopped(tm).current = tm.current
      /\ Stopped(tm).streams = <<>> /\ Stopped(tm).notifications = <<>>
  BY DEF Stopped
<1> QED
  BY <1>1, <1>2, <1>3 DEF InStep

\* A turn of the task: the streams of the second that is over are gone.
LEMMA TickInStep ==
    ASSUME NEW tm, NEW A, InStep(tm, A)
    PROVE  LET new == Tick(tm)
               left == A \ Expired(tm)
           IN  /\ InStep(new, left)
               /\ new.current = tm.current + 1
               /\ Expired(tm) = {s \in A : tm.streams[s] = tm.current}
               /\ \A s \in left : new.streams[s] = tm.streams[s]
<1> DEFINE new == Tick(tm)
           n == tm.notifications
           keys == DOMAIN n \ Due(tm)
           left == A \ Expired(tm)
<1>1. /\ DOMAIN tm.streams = A
      /\ tm.streams \in [A -> Nat]
      /\ n \in [DOMAIN n -> SUBSET A]
      /\ tm.current \in Nat
      /\ DOMAIN n \subseteq Nat
  BY DEF InStep
<1>2. Expired(tm) = {s \in A : tm.streams[s] = tm.current}
  BY <1>1 DEF Expired, Due, InStep
<1>3. /\ new.running = (keys # {}) /\ new.current = tm.current + 1
      /\ new.streams = [s \in left |-> tm.streams[s]]
      /\ new.notifications = [key \in keys |-> n[key]]
  BY <1>1 DEF Tick, Restrict
<1> HIDE DEF new
<1>4. new.streams \in [left -> Nat] /\ \A s \in left : new.streams[s] = tm.streams[s]
  BY <1>1, <1>3
<1>5. DOMAIN new.notifications = keys /\ keys \subseteq DOMAIN n /\ keys \subseteq Nat
  BY <1>1, <1>3
<1>6. \A key \in keys : key \in Nat /\ key >= tm.current + 1
  BY <1>1 DEF Due
<1>7. \A key \in keys : \A s \in n[key] : s \in A /\ tm.streams[s] = key
  BY <1>1, <1>5 DEF InStep
<1>8. \A key \in keys : n[key] \subseteq left
  BY <1>1, <1>2, <1>6, <1>7
<1>9. \A s \in left : tm.streams[s] \in keys /\ s \in n[tm.streams[s]]
  BY <1>1, <1>2 DEF InStep, Due
<1> HIDE DEF keys, left
<1>10. new.notifications \in [DOMAIN new.notifications -> SUBSET left]
  BY <1>3, <1>5, <1>8
<1>11. \A s \in left : /\ new.streams[s] >= new.current
                       /\ new.streams[s] \in DOMAIN new.notifications
                       /\ s \in new.notifications[new.streams[s]]
  BY <1>3, <1>4, <1>5, <1>6, <1>9
<1>12. \A key \in DOMAIN new.notifications : \A s \in new.notifications[key] : new.streams[s] = key
  BY <1>3, <1>4, <1>5, <1>7, <1>8
<1>13. new.running \in BOOLEAN /\ (left # {} => new.running) /\ new.current \in Nat
  <2>1. new.current \in Nat
    BY <1>1, <1>3
  <2>2. left # {} => keys # {}
    BY <1>9
  <2> QED
    BY <1>3, <2>1, <2>2, Zenon
<1>14. InStep(new, left)
  BY <1>4, <1>5, <1>10, <1>11, <1>12, <1>13 DEF InStep
<1> QED
  BY <1>2, <1>3, <1>4, <1>14 DEF new, left

-----------------------------------------------------------------------------
(* The time a registered stream has left. *)

Later(due, at) == IF due >= at THEN due ELSE at

\* k seconds of the timer are missing from due on, at time at, for a stream
\* that was registered at time reg with timeout cap
Between(reg, due, at, k, cap) ==
    /\ reg + cap * Second <= Later(due, at) + k * Second
    /\ due + k * (Second + Slack) + Slack <= reg + (cap + 1) * (Second + Slack)

\* One more of the same.
LEMMA Product ==
    ASSUME NEW k \in Nat, NEW x \in Nat
    PROVE  k * x \in Nat /\ (k + 1) * x = k * x + x
  OBVIOUS

\* A stream is registered, the task wakes within a second.
LEMMA BetweenStart ==
    ASSUME NEW at \in Nat, NEW due \in Nat, NEW cap \in Nat, due <= at + Second
    PROVE  Between(at, due, at, cap, cap)
<1>1. /\ Second \in Nat /\ Slack \in Nat /\ Second + Slack \in Nat
  OBVIOUS
<1>2. /\ cap * Second \in Nat /\ cap * (Second + Slack) \in Nat
      /\ (cap + 1) * (Second + Slack) = cap * (Second + Slack) + (Second + Slack)
  BY <1>1, Product
<1> DEFINE p == cap * Second
           q == cap * (Second + Slack)
           r == (cap + 1) * (Second + Slack)
<1>3. p \in Nat /\ q \in Nat /\ r = q + Second + Slack
  BY <1>1, <1>2
<1> HIDE DEF p, q, r
<1>4. at + p <= Later(due, at) + p /\ due + q + Slack <= at + r
  BY <1>1, <1>3 DEF Later
<1> QED
  BY <1>4 DEF Between, p, q, r

\* Time passes.
LEMMA BetweenAdvance ==
    ASSUME NEW reg \in Nat, NEW due \in Nat, NEW at \in Nat, NEW k \in Nat, NEW cap \in Nat,
           Between(reg, due, at, k, cap)
    PROVE  Between(reg, due, at + 1, k, cap)
<1>1. Later(due, at) <= Later(due, at + 1) /\ Later(due, at) \in Nat /\ Later(due, at + 1) \in Nat
  BY DEF Later
<1>2. k * Second \in Nat /\ cap * Second \in Nat
  BY Product
<1>3. reg + cap * Second <= Later(due, at) + k * Second
  BY DEF Between
<1>4. reg + cap * Second <= Later(due, at + 1) + k * Second
  <2> DEFINE p == cap * Second
             q == k * Second
             a == Later(due, at)
             b == Later(due, at + 1)
  <2>1. p \in Nat /\ q \in Nat /\ a \in Nat /\ b \in Nat /\ a <= b /\ reg + p <= a + q
    BY <1>1, <1>2, <1>3
  <2> HIDE DEF p, q, a, b
  <2>2. reg + p <= b + q
    BY <2>1
  <2> QED
    BY <2>2 DEF p, q, b
<1> QED
  BY <1>4 DEF Between

\* The task wakes and sleeps again.
LEMMA BetweenTick ==
    ASSUME NEW reg \in Nat, NEW due \in Nat, NEW at \in Nat, NEW k \in Nat, NEW cap \in Nat,
           Between(reg, due, at, k + 1, cap), due <= at, at <= due + Slack
    PROVE  Between(reg, at + Second, at, k, cap)
<1> DEFINE x == k * Second
           y == k * (Second + Slack)
           p == cap * Second
           q == (cap + 1) * (Second + Slack)
<1>1. Second \in Nat /\ Slack \in Nat /\ Second + Slack \in Nat /\ cap + 1 \in Nat
  OBVIOUS
<1>2. /\ x \in Nat /\ y \in Nat /\ p \in Nat /\ q \in Nat
      /\ (k + 1) * Second = x + Second
      /\ (k + 1) * (Second + Slack) = y + Second + Slack
  BY <1>1, Product
<1>3. Later(due, at) = at /\ Later(at + Second, at) = at + Second
  BY <1>1 DEF Later
<1>4. reg + p <= at + (k + 1) * Second /\ due + (k + 1) * (Second + Slack) + Slack <= reg + q
  BY <1>3 DEF Between
<1> HIDE DEF x, y, p, q
<1>5. reg + p <= at + Second + x /\ at + Second + y + Slack <= reg + q
  BY <1>1, <1>2, <1>4
<1> QED
  BY <1>3, <1>5 DEF Between, x, y, p, q

\* What the bounds say: the timeout has passed when the second comes, and a
\* stream is not registered for longer than its timeout and one second.
LEMMA BetweenEnds ==
    ASSUME NEW reg \in Nat, NEW due \in Nat, NEW at \in Nat, NEW k \in Nat, NEW cap \in Nat,
           Between(reg, due, at, k, cap), at <= due + Slack
    PROVE  /\ at - reg <= (cap + 1) * (Second + Slack)
           /\ k = 0 /\ due <= at => at - reg >= cap * Second
<1> DEFINE y == k * (Second + Slack)
           p == cap * Second
           q == (cap + 1) * (Second + Slack)
<1>1. Second \in Nat /\ Slack \in Nat /\ Second + Slack \in Nat /\ cap + 1 \in Nat
  OBVIOUS
<1>2. y \in Nat /\ p \in Nat /\ q \in Nat
  BY <1>1, Product
<1>3. due + y + Slack <= reg + q
  BY DEF Between
<1>4. k = 0 /\ due <= at => reg + p <= at
  <2> SUFFICES ASSUME k = 0, due <= at PROVE reg + p <= at
    OBVIOUS
  <2>1. k * Second = 0 /\ Later(due, at) = at
    BY <1>1 DEF Later
  <2> QED
    BY <1>1, <1>2, <2>1 DEF Between
<1> HIDE DEF y, p, q
<1>5. at - reg <= q /\ (k = 0 /\ due <= at => at - reg >= p)
  BY <1>1, <1>2, <1>3, <1>4
<1> QED
  BY <1>5 DEF p, q

-----------------------------------------------------------------------------
(* The capacity timer. *)

\* the task sleeps while the timer runs
TickInv ==
    /\ tick_due \in Nat \union {None}
    /\ timer.running <=> tick_due # None
    /\ tick_due # None => now <= tick_due + Slack /\ tick_due <= now + Second

TimeLeft(s) == Between(registered[s], tick_due, now, timer.streams[s] - timer.current, config.capacity)

CapacityInv ==
    /\ config \in Configs /\ now \in Nat
    /\ InStep(timer, armed)
    /\ TickInv
    /\ armed \subseteq Streams
    /\ armed \subseteq (waits \intersect (open \union half)) \ capacity
    /\ registered \in [Streams -> Nat]
    /\ \A s \in armed : TimeLeft(s)

\* What the types say of a registered stream.
LEMMA ArmedTypes ==
    ASSUME CapacityInv, NEW s \in armed
    PROVE  /\ registered[s] \in Nat
           /\ timer.streams[s] - timer.current \in Nat
           /\ timer.streams[s] \in Nat /\ timer.current \in Nat
           /\ tick_due \in Nat
           /\ config.capacity \in Nat
<1>1. config.capacity \in Nat
  BY DEF CapacityInv, ConfigType
<1>2. timer.streams[s] \in Nat /\ timer.current \in Nat /\ timer.streams[s] >= timer.current /\ timer.running
  BY DEF CapacityInv, InStep
<1>3. tick_due \in Nat /\ registered[s] \in Nat
  BY <1>2 DEF CapacityInv, TickInv
<1> QED
  BY <1>1, <1>2, <1>3

\* Steps that leave the timer alone.
LEMMA TimerQuiet ==
    ASSUME CapacityInv, UNCHANGED <<config, now, timer, tick_due, armed, registered>>,
           armed \subseteq (waits' \intersect (open' \union half')) \ capacity'
    PROVE  CapacityInv'
<1>1. TickInv'
  BY DEF CapacityInv, TickInv
<1>2. \A s \in armed' : TimeLeft(s)'
  BY DEF CapacityInv, TimeLeft
<1> QED
  BY <1>1, <1>2 DEF CapacityInv

\* stop_capacity_timer() of the streams of S.
LEMMA StopInv ==
    ASSUME CapacityInv, NEW S, Stop(S), UNCHANGED <<config, now>>,
           armed \ S \subseteq (waits' \intersect (open' \union half')) \ capacity'
    PROVE  CapacityInv'
<1>1. /\ armed' = armed \ S /\ timer' = Unregister(timer, S \intersect armed)
      /\ registered' = Forget(S) /\ tick_due' = tick_due
  BY DEF Stop
<1>2. /\ InStep(timer', armed')
      /\ timer'.running = timer.running /\ timer'.current = timer.current
      /\ \A s \in armed' : timer'.streams[s] = timer.streams[s]
  <2>1. InStep(timer, armed)
    BY DEF CapacityInv
  <2> DEFINE T == S \intersect armed
             left == armed \ T
  <2>2. left = armed \ T /\ left = armed' /\ timer' = Unregister(timer, T)
    BY <1>1
  <2> HIDE DEF T, left
  <2>3. /\ InStep(Unregister(timer, T), left)
        /\ Unregister(timer, T).running = timer.running
        /\ Unregister(timer, T).current = timer.current
        /\ \A s \in left : Unregister(timer, T).streams[s] = timer.streams[s]
    BY <2>1, <2>2, UnregisterInStep
  <2> QED
    BY <2>2, <2>3
<1>3. registered' \in [Streams -> Nat] /\ \A s \in armed' : registered'[s] = registered[s]
  BY <1>1 DEF CapacityInv, Forget
<1>4. TickInv'
  BY <1>1, <1>2 DEF CapacityInv, TickInv
<1>5. \A s \in armed' : TimeLeft(s)'
  <2> TAKE s \in armed'
  <2>1. TimeLeft(s) /\ timer'.streams[s] = timer.streams[s] /\ registered'[s] = registered[s]
    BY <1>1, <1>2, <1>3 DEF CapacityInv
  <2> QED
    BY <1>1, <1>2, <2>1 DEF TimeLeft
<1> QED
  BY <1>1, <1>2, <1>3, <1>4, <1>5 DEF CapacityInv

\* The current second of a timer that does not run.
LEMMA SecondsOf ==
    ASSUME NEW at \in Nat
    PROVE  at \div Second \in Nat
  OBVIOUS

\* start_capacity_timer() of a stream.
LEMMA StartInv ==
    ASSUME CapacityInv, NEW s \in Streams, Start(s), UNCHANGED <<config, now, open, half, capacity>>,
           waits' = waits \union {s}, s \in open \ capacity
    PROVE  CapacityInv'
<1>1. CASE s \in armed \/ config.capacity = 0
  <2>1. UNCHANGED <<armed, timer, tick_due, registered>>
    BY <1>1 DEF Start
  <2>2. armed \subseteq (waits' \intersect (open' \union half')) \ capacity'
    BY DEF CapacityInv
  <2> QED
    BY <2>1, <2>2, TimerQuiet
<1>2. CASE ~(s \in armed \/ config.capacity = 0)
  <2>1. /\ armed' = armed \union {s}
        /\ timer' = Register(timer, s, config.capacity, now \div Second)
        /\ tick_due' = IF timer.running THEN tick_due ELSE now + Second
        /\ registered' = [registered EXCEPT ![s] = now]
    BY <1>2 DEF Start
  <2>2. config.capacity \in Nat /\ now \div Second \in Nat /\ s \notin armed /\ now \in Nat
    BY <1>2, SecondsOf DEF CapacityInv, ConfigType
  <2>3. /\ InStep(timer', armed')
        /\ timer'.running /\ (timer.running => timer'.current = timer.current)
        /\ timer'.streams[s] = timer'.current + config.capacity
        /\ \A t \in armed : timer'.streams[t] = timer.streams[t]
    <3> DEFINE secs == now \div Second
               cap == config.capacity
               more == armed \union {s}
               new == Register(timer, s, cap, secs)
    <3>1. /\ InStep(timer, armed) /\ s \notin armed /\ cap \in Nat /\ secs \in Nat
          /\ more = armed \union {s} /\ armed' = more /\ timer' = new
      BY <2>1, <2>2 DEF CapacityInv
    <3> HIDE DEF secs, cap, more
    <3>2. InStep(new, more)
      BY <3>1, RegisterInStep
    <3> DEFINE current == IF timer.running THEN timer.current ELSE secs
               n == timer.notifications
               hnd == current + cap
    <3>3. DOMAIN timer.streams = armed
      BY <3>1 DEF InStep
    <3>4. new = [running |-> TRUE, current |-> current,
                 streams |-> Put(timer.streams, s, hnd),
                 notifications |-> Put(n, hnd, At(n, hnd) \union {s})]
      BY <3>1, <3>3 DEF Register
    <3> HIDE DEF new, n, current, hnd
    <3>5. new.running = TRUE /\ new.current = current /\ new.streams = Put(timer.streams, s, hnd)
      BY <3>4
    <3>6. new.streams[s] = hnd /\ \A t \in armed : new.streams[t] = timer.streams[t]
      BY <3>1, <3>3, <3>5 DEF Put
    <3> QED
      BY <3>1, <3>2, <3>5, <3>6 DEF cap, hnd, current
  <2>4. /\ tick_due' \in Nat /\ now <= tick_due' + Slack /\ tick_due' <= now + Second
        /\ timer.running => tick_due' = tick_due
    BY <2>1, <2>2 DEF CapacityInv, TickInv
  <2>5. TickInv'
    <3>1. tick_due' # None
      BY <2>4
    <3> QED
      BY <2>3, <2>4, <3>1 DEF TickInv
  <2>6. ASSUME NEW t \in armed PROVE TimeLeft(t)'
    <3>1. timer.running /\ t # s /\ t \in Streams
      BY <2>2, <2>6 DEF CapacityInv, InStep
    <3>2. /\ tick_due' = tick_due /\ timer'.current = timer.current
          /\ timer'.streams[t] = timer.streams[t] /\ registered'[t] = registered[t]
      BY <2>1, <2>3, <2>4, <2>6, <3>1 DEF CapacityInv
    <3>3. TimeLeft(t)
      BY <2>6 DEF CapacityInv
    <3> QED
      BY <3>2, <3>3 DEF TimeLeft
  <2>7. TimeLeft(s)'
    <3>1. registered'[s] = now
      BY <2>1 DEF CapacityInv
    <3>2. timer'.current \in Nat /\ timer'.streams[s] - timer'.current = config.capacity
      BY <2>2, <2>3 DEF InStep
    <3>3. Between(now, tick_due', now, config.capacity, config.capacity)
      BY <2>2, <2>4, BetweenStart
    <3> QED
      BY <3>1, <3>2, <3>3 DEF TimeLeft
  <2>8. /\ armed' \subseteq Streams /\ armed' \subseteq (waits' \intersect (open' \union half')) \ capacity'
        /\ registered' \in [Streams -> Nat]
    BY <2>1, <2>2 DEF CapacityInv
  <2>9. \A t \in armed' : TimeLeft(t)'
    BY <2>1, <2>6, <2>7
  <2> QED
    BY <2>3, <2>5, <2>8, <2>9 DEF CapacityInv
<1> QED
  BY <1>1, <1>2

\* Time passes, but not beyond the delay of the task.
LEMMA AdvanceCapacity ==
    ASSUME CapacityInv, Advance
    PROVE  CapacityInv'
<1>1. /\ now' = now + 1 /\ now \in Nat
      /\ UNCHANGED <<config, timer, tick_due, armed, registered, waits, open, half, capacity>>
  BY DEF Advance, streamVars, CapacityInv
<1>2. tick_due # None => now < tick_due + Slack
  BY DEF Advance
<1>3. TickInv'
  BY <1>1, <1>2 DEF CapacityInv, TickInv
<1>4. \A s \in armed' : TimeLeft(s)'
  <2> TAKE s \in armed'
  <2>1. s \in armed /\ TimeLeft(s)
    BY <1>1 DEF CapacityInv
  <2>2. Between(registered[s], tick_due, now + 1, timer.streams[s] - timer.current, config.capacity)
    BY <1>1, <2>1, ArmedTypes, BetweenAdvance DEF TimeLeft
  <2> QED
    BY <1>1, <2>2 DEF TimeLeft
<1> QED
  BY <1>1, <1>3, <1>4 DEF CapacityInv

\* The task wakes.
LEMMA TimerTaskCapacity ==
    ASSUME CapacityInv, TimerTask
    PROVE  CapacityInv'
<1> DEFINE out == {s \in Expired(timer) : TimesOut(s)}
<1>1. /\ timer' = IF Tick(timer).running THEN Tick(timer) ELSE Stopped(Tick(timer))
      /\ tick_due' = IF Tick(timer).running THEN now + Second ELSE None
      /\ armed' = armed \ Expired(timer)
      /\ open' = open \ out
      /\ registered' = Forget(Expired(timer))
      /\ UNCHANGED <<config, now, half, capacity, waits>>
      /\ tick_due # None /\ now >= tick_due
  BY DEF TimerTask, Over
<1>2. /\ InStep(Tick(timer), armed')
      /\ Tick(timer).current = timer.current + 1
      /\ Expired(timer) = {s \in armed : timer.streams[s] = timer.current}
      /\ \A s \in armed' : Tick(timer).streams[s] = timer.streams[s]
  BY <1>1, TickInStep DEF CapacityInv
<1>3. InStep(timer', armed') /\ (armed' # {} => Tick(timer).running)
  <2>1. armed' # {} => Tick(timer).running
    BY <1>2 DEF InStep
  <2>2. Tick(timer).current \in Nat
    BY <1>2 DEF InStep
  <2>3. CASE Tick(timer).running
    BY <1>1, <1>2, <2>1, <2>3
  <2>4. CASE ~Tick(timer).running
    BY <1>1, <2>1, <2>2, <2>4, StoppedInStep
  <2> QED
    BY <2>1, <2>3, <2>4
<1>4. now \in Nat /\ tick_due \in Nat /\ now <= tick_due + Slack /\ Second \in Nat
  BY <1>1 DEF CapacityInv, TickInv
<1>5. TickInv'
  <2>1. CASE Tick(timer).running
    <3>1. tick_due' = now + Second /\ tick_due' # None /\ timer'.running
      BY <1>1, <1>4, <2>1
    <3> QED
      BY <1>1, <1>4, <3>1 DEF TickInv
  <2>2. CASE ~Tick(timer).running
    <3>1. tick_due' = None /\ timer'.running = FALSE
      BY <1>1, <2>2 DEF Stopped
    <3> QED
      BY <3>1 DEF TickInv
  <2> QED
    BY <2>1, <2>2
<1>6. \A s \in armed' : TimeLeft(s)'
  <2> TAKE s \in armed'
  <2>1. s \in armed /\ s \notin Expired(timer) /\ TimeLeft(s) /\ s \in Streams
    BY <1>1 DEF CapacityInv
  <2>2. /\ registered[s] \in Nat /\ timer.streams[s] \in Nat /\ timer.current \in Nat
        /\ timer.streams[s] - timer.current \in Nat /\ config.capacity \in Nat
    BY <2>1, ArmedTypes
  <2>3. timer.streams[s] # timer.current
    BY <1>2, <2>1
  <2>4. timer' = Tick(timer) /\ tick_due' = now + Second
    BY <1>1, <1>3
  <2> DEFINE k == timer.streams[s] - (timer.current + 1)
  <2>5. k \in Nat /\ timer.streams[s] - timer.current = k + 1
    BY <2>2, <2>3
  <2>6. timer'.streams[s] - timer'.current = k
    BY <1>2, <2>4
  <2>7. registered'[s] = registered[s]
    BY <1>1, <2>1 DEF Forget
  <2> HIDE DEF k
  <2>8. Between(registered[s], now + Second, now, k, config.capacity)
    BY <1>1, <1>4, <2>1, <2>2, <2>5, BetweenTick DEF TimeLeft
  <2> QED
    BY <1>1, <2>4, <2>6, <2>7, <2>8 DEF TimeLeft
<1>7. /\ armed' \subseteq Streams /\ armed' \subseteq (waits' \intersect (open' \union half')) \ capacity'
      /\ registered' \in [Streams -> Nat]
  <2>1. out \subseteq Expired(timer)
    OBVIOUS
  <2> HIDE DEF out
  <2>2. armed' \subseteq Streams /\ armed' \subseteq (waits' \intersect (open' \union half')) \ capacity'
    BY <1>1, <2>1 DEF CapacityInv
  <2>3. registered' \in [Streams -> Nat]
    BY <1>1 DEF CapacityInv, Forget
  <2> QED
    BY <2>2, <2>3
<1> QED
  BY <1>1, <1>3, <1>5, <1>6, <1>7 DEF CapacityInv

\* The task is dropped.
LEMMA DropTimerCapacity ==
    ASSUME CapacityInv, DropTimer
    PROVE  CapacityInv'
<1>1. DOMAIN timer.streams = armed /\ timer.current \in Nat
  BY DEF CapacityInv, InStep
<1>2. /\ timer' = Stopped(timer) /\ tick_due' = None /\ armed' = {}
      /\ registered' = Forget(armed)
      /\ UNCHANGED <<config, now>>
  BY <1>1 DEF DropTimer
<1>3. InStep(timer', armed') /\ timer'.running = FALSE
  BY <1>1, <1>2, StoppedInStep
<1>4. TickInv'
  BY <1>2, <1>3 DEF TickInv
<1>5. registered' \in [Streams -> Nat]
  BY <1>2 DEF CapacityInv, Forget
<1> QED
  BY <1>2, <1>3, <1>4, <1>5 DEF CapacityInv

-----------------------------------------------------------------------------
(* Handshake, settings and keep-alive. *)

\* the io is closed with the connection, tasks run after the handshake only,
\* and the dispatcher is not later than Slack
PhaseInv ==
    /\ config \in Configs /\ now \in Nat
    /\ phase \in {"handshake", "open", "failed", "refused"}
    /\ io_closed = (phase \in {"failed", "refused"})
    /\ phase = "handshake" =>
        /\ ping_due = None /\ settings_due = None /\ notified = None /\ net = {}
        /\ config.handshake # 0 => now <= config.handshake * Second + Slack
    /\ notified \in Nat \union {None}
    /\ notified # None => phase = "open" /\ notified <= now /\ now <= notified + Slack

\* the SETTINGS are acknowledged, the task sleeps, or it has told the dispatcher
SettingsInv ==
    /\ settings_due \in Nat \union {None} /\ since \in Nat
    /\ settings_due # None =>
        settings_due = since + config.settings * Second /\ now <= settings_due + Slack
    /\ phase = "open" /\ config.settings # 0 /\ ~acked /\ settings_due = None =>
        notified # None /\ notified <= since + config.settings * Second + Slack

\* the task sleeps, or it has told the dispatcher
PingInv ==
    /\ ping_due \in Nat \union {None} /\ pong \in BOOLEAN /\ heard \in Nat /\ heard <= now
    /\ ping_due # None => config.ping # 0 /\ now <= ping_due + Slack /\ ping_due <= now + Keepalive
    /\ phase = "open" /\ config.ping # 0 /\ ping_due = None =>
        notified # None /\ notified <= heard + Keepalive + Keepalive + Slack + Slack
    /\ phase = "open" /\ ping_due # None =>
        ping_due <= IF pong THEN heard + Keepalive ELSE heard + Keepalive + Keepalive + Slack

\* the last PING is answered or on its way, and only the settings timer has
\* told the dispatcher
LiveInv ==
    /\ pings \in Nat /\ net \subseteq [payload : Nat, at : Nat]
    /\ config.live => reason # "KeepaliveTimeout"
    /\ config.live /\ phase = "open" =>
        /\ notified # None => settings_out
        /\ \A p \in net : now <= p.at + Delay
        /\ ping_due # None /\ ~pong => \E p \in net : p.payload = pings /\ p.at + Keepalive = ping_due

TaskInv == PhaseInv /\ SettingsInv /\ PingInv /\ LiveInv

\* The times of a configuration are numbers.
LEMMA ConfigTimes ==
    ASSUME config \in Configs
    PROVE  /\ config.handshake * Second \in Nat
           /\ config.settings * Second \in Nat
           /\ Keepalive \in Nat
           /\ config.live /\ config.ping # 0 => Delay < Keepalive
<1>1. config.handshake \in Nat /\ config.settings \in Nat /\ config.ping \in Nat /\ Second \in Nat /\ Extra \in Nat
  BY DEF ConfigType
<1>2. /\ config.handshake * Second \in Nat /\ config.settings * Second \in Nat
      /\ config.ping * Second \in Nat
  BY <1>1, Product
<1>3. config.live /\ config.ping # 0 => Delay < Keepalive
  BY LivePeerAssumption DEF Keepalive
<1> QED
  BY <1>1, <1>2, <1>3 DEF Keepalive

\* Steps of the streams.
LEMMA TaskQuiet ==
    ASSUME TaskInv, UNCHANGED <<config, now, handshakeVars, pingVars, settingsVars, notified>>
    PROVE  TaskInv'
<1> USE DEF handshakeVars, pingVars, settingsVars
<1>1. PhaseInv'
  BY DEF TaskInv, PhaseInv
<1>2. SettingsInv'
  BY DEF TaskInv, SettingsInv
<1>3. Keepalive' = Keepalive
  BY DEF Keepalive
<1>4. PingInv'
  BY <1>3 DEF TaskInv, PingInv
<1>5. LiveInv'
  BY <1>3 DEF TaskInv, LiveInv
<1> QED
  BY <1>1, <1>2, <1>4, <1>5 DEF TaskInv

\* Time passes: no sleep is missed by more than Slack.
LEMMA AdvanceTask ==
    ASSUME TaskInv, Advance
    PROVE  TaskInv'
<1>1. /\ now' = now + 1 /\ now \in Nat /\ config \in Configs
      /\ UNCHANGED <<config, handshakeVars, pingVars, settingsVars, notified>>
  BY DEF Advance, TaskInv, PhaseInv
<1>2. /\ ping_due # None => now < ping_due + Slack
      /\ settings_due # None => now < settings_due + Slack
      /\ notified # None => now < notified + Slack
      /\ HandshakeDue # None => now < HandshakeDue + Slack
      /\ config.live /\ phase = "open" => \A p \in net : now < p.at + Delay
  BY DEF Advance
<1>3. Keepalive' = Keepalive /\ Keepalive \in Nat /\ config.handshake * Second \in Nat /\ Slack \in Nat /\ Delay \in Nat
  BY <1>1, ConfigTimes DEF Keepalive
<1> USE DEF handshakeVars, pingVars, settingsVars
<1>4. phase = "handshake" /\ config.handshake # 0 => now < config.handshake * Second + Slack
  BY <1>2, <1>3 DEF HandshakeDue
<1>5. PhaseInv'
  BY <1>1, <1>2, <1>3, <1>4 DEF TaskInv, PhaseInv
<1>6. SettingsInv'
  BY <1>1, <1>2, <1>3 DEF TaskInv, SettingsInv
<1>7. PingInv'
  BY <1>1, <1>2, <1>3 DEF TaskInv, PingInv
<1>8. LiveInv'
  <2>1. config.live' /\ phase' = "open" => \A p \in net' : now' <= p.at + Delay
    BY <1>1, <1>2, <1>3 DEF TaskInv, LiveInv
  <2> QED
    BY <1>1, <1>3, <2>1 DEF TaskInv, LiveInv
<1> QED
  BY <1>5, <1>6, <1>7, <1>8 DEF TaskInv

\* The handshake is over, the tasks start.
LEMMA ConnectTask ==
    ASSUME TaskInv, Connect
    PROVE  TaskInv'
<1>1. /\ now \in Nat /\ config \in Configs /\ config.settings * Second \in Nat /\ Slack \in Nat
      /\ Keepalive' = Keepalive /\ Keepalive \in Nat
  BY ConfigTimes DEF TaskInv, PhaseInv, Connect, Keepalive
<1>2. /\ phase = "handshake" /\ net = {} /\ notified = None
      /\ phase' = "open" /\ net' = {} /\ notified' = None
      /\ config' = config /\ now' = now /\ io_closed' = io_closed /\ reason' = reason /\ pings' = pings
  BY DEF Connect, TaskInv, PhaseInv
<1>3. PhaseInv'
  BY <1>2 DEF TaskInv, PhaseInv
<1>4. SettingsInv'
  BY <1>1, <1>2 DEF SettingsInv, Connect
<1>5. PingInv'
  <2>1. now + Keepalive \in Nat /\ now + Keepalive # None
    BY <1>1
  <2>2. /\ ping_due' = IF config.ping # 0 THEN now + Keepalive ELSE None
        /\ pong' = (config.ping # 0)
        /\ heard' = now
    BY DEF Connect
  <2>3. CASE config.ping # 0
    <3>1. ping_due' = now + Keepalive /\ pong' = TRUE
      BY <2>2, <2>3
    <3> QED
      BY <1>1, <1>2, <2>1, <2>2, <2>3, <3>1 DEF PingInv
  <2>4. CASE config.ping = 0
    <3>1. ping_due' = None /\ pong' = FALSE
      BY <2>2, <2>4
    <3> QED
      BY <1>1, <1>2, <2>2, <2>4, <3>1 DEF PingInv
  <2> QED
    BY <2>3, <2>4
<1>6. LiveInv'
  <2>1. ping_due' # None => pong'
    BY <1>1 DEF Connect
  <2> QED
    BY <1>2, <2>1 DEF TaskInv, LiveInv
<1> QED
  BY <1>3, <1>4, <1>5, <1>6 DEF TaskInv

\* The connection ends, for whatever reason but a silent peer.
LEMMA EndTask ==
    ASSUME TaskInv, phase' \in {"failed", "refused"}, io_closed' = TRUE, notified' = None,
           config.live => reason' # "KeepaliveTimeout",
           UNCHANGED <<config, now, since, pingVars, settingsVars>>
    PROVE  TaskInv'
<1> USE DEF pingVars, settingsVars
<1>1. PhaseInv'
  BY DEF TaskInv, PhaseInv
<1>2. SettingsInv'
  BY DEF TaskInv, SettingsInv
<1>3. Keepalive' = Keepalive
  BY DEF Keepalive
<1>4. PingInv'
  BY <1>3 DEF TaskInv, PingInv
<1>5. LiveInv'
  BY DEF TaskInv, LiveInv
<1> QED
  BY <1>1, <1>2, <1>4, <1>5 DEF TaskInv

\* The keep-alive task wakes: on time, a live peer has answered.
LEMMA PingTaskTask ==
    ASSUME TaskInv, PingTask
    PROVE  TaskInv'
<1>1. /\ now \in Nat /\ config \in Configs /\ Slack \in Nat /\ Delay \in Nat
      /\ Keepalive' = Keepalive /\ Keepalive \in Nat
      /\ config.live /\ config.ping # 0 => Delay < Keepalive
  BY ConfigTimes DEF TaskInv, PhaseInv, PingTask, Keepalive
<1>2. /\ ping_due \in Nat /\ ping_due # None /\ now >= ping_due /\ phase # "handshake"
      /\ now <= ping_due + Slack /\ config.ping # 0
      /\ notified \in Nat \union {None} /\ heard \in Nat /\ heard <= now
  BY DEF PingTask, Over, TaskInv, PhaseInv, PingInv
<1>3. UNCHANGED <<config, now, phase, reason, io_closed, since, settings_due, acked, settings_out, heard>>
  BY DEF PingTask, handshakeVars, settingsVars
<1>4. CASE io_closed
  <2>1. ping_due' = None /\ UNCHANGED <<pings, pong, net, notified>>
    BY <1>4 DEF PingTask
  <2>2. phase # "open"
    BY <1>4 DEF TaskInv, PhaseInv
  <2>3. PhaseInv' /\ SettingsInv'
    BY <1>3, <2>1 DEF TaskInv, PhaseInv, SettingsInv
  <2>4. PingInv' /\ LiveInv'
    BY <1>3, <2>1, <2>2 DEF TaskInv, PingInv, LiveInv
  <2> QED
    BY <2>3, <2>4 DEF TaskInv
<1>5. CASE ~io_closed /\ ~pong
  <2>1. /\ ping_due' = None /\ UNCHANGED <<pings, pong, net>>
        /\ notified' = IF notified = None THEN now ELSE notified
    BY <1>5 DEF PingTask, NotifyTimeout
  <2>2. phase = "open"
    BY <1>2, <1>5 DEF TaskInv, PhaseInv
  <2>3. notified' \in Nat /\ notified' # None /\ notified' <= now /\ now <= notified' + Slack
    BY <1>1, <1>2, <2>1 DEF TaskInv, PhaseInv
  <2>4. PhaseInv'
    BY <1>2, <1>3, <2>1, <2>2, <2>3 DEF TaskInv, PhaseInv
  <2>5. SettingsInv'
    BY <1>3, <2>1, <2>3 DEF TaskInv, SettingsInv
  <2>6. now <= heard + Keepalive + Keepalive + Slack + Slack
    BY <1>1, <1>2, <1>5, <2>2 DEF TaskInv, PingInv
  <2>7. PingInv'
    BY <1>1, <1>2, <1>3, <2>1, <2>3, <2>6 DEF TaskInv, PingInv
  <2>8. ~config.live
    <3> SUFFICES ASSUME config.live PROVE FALSE
      OBVIOUS
    <3>1. PICK p \in net : p.at + Keepalive = ping_due
      BY <1>2, <1>5, <2>2 DEF TaskInv, LiveInv
    <3>2. p.at \in Nat /\ now <= p.at + Delay
      BY <2>2 DEF TaskInv, LiveInv
    <3> QED
      BY SMTT(30), <1>1, <1>2, <3>1, <3>2
  <2>9. LiveInv'
    BY <1>3, <2>1, <2>8 DEF TaskInv, LiveInv
  <2> QED
    BY <2>4, <2>5, <2>7, <2>9 DEF TaskInv
<1>6. CASE ~io_closed /\ pong
  <2> DEFINE ping == [payload |-> pings + 1, at |-> now]
  <2>1. /\ ping_due' = now + Keepalive
        /\ pings' = pings + 1 /\ pong' = FALSE
        /\ net' = net \union {ping}
        /\ notified' = notified
    BY <1>6 DEF PingTask
  <2>2. phase = "open"
    BY <1>2, <1>6 DEF TaskInv, PhaseInv
  <2>3. PhaseInv' /\ SettingsInv'
    BY <1>3, <2>1, <2>2 DEF TaskInv, PhaseInv, SettingsInv
  <2>4. ping_due' \in Nat /\ ping_due' # None
    BY <1>1, <2>1
  <2>5. now <= heard + Keepalive + Slack
    BY <1>1, <1>2, <1>6, <2>2 DEF TaskInv, PingInv
  <2>6. PingInv'
    <3>1. /\ ping_due' <= heard + Keepalive + Keepalive + Slack
          /\ now <= ping_due' + Slack /\ ping_due' <= now + Keepalive
      BY <1>1, <1>2, <2>1, <2>5
    <3>2. heard' = heard /\ now' = now /\ Keepalive' = Keepalive /\ config' = config
      BY <1>1, <1>3
    <3> QED
      BY <1>2, <2>1, <2>4, <3>1, <3>2 DEF PingInv
  <2>7. pings \in Nat /\ ping \in [payload : Nat, at : Nat] /\ ping.payload = pings + 1 /\ ping.at = now
    BY <1>1 DEF TaskInv, LiveInv
  <2> HIDE DEF ping
  <2>8. LiveInv'
    <3>1. pings' \in Nat /\ net' \subseteq [payload : Nat, at : Nat]
      BY <2>1, <2>7 DEF TaskInv, LiveInv
    <3>2. config'.live /\ phase' = "open" => \A p \in net' : now' <= p.at + Delay
      BY <1>1, <1>3, <2>1, <2>2, <2>7 DEF TaskInv, LiveInv
    <3>3. \E p \in net' : p.payload = pings' /\ p.at + Keepalive' = ping_due'
      BY <1>1, <2>1, <2>7
    <3> QED
      BY <1>3, <2>1, <2>2, <3>1, <3>2, <3>3 DEF TaskInv, LiveInv
  <2> QED
    BY <2>3, <2>6, <2>8 DEF TaskInv
<1>7. io_closed \in BOOLEAN /\ pong \in BOOLEAN
  BY DEF TaskInv, PhaseInv, PingInv
<1> QED
  BY <1>4, <1>5, <1>6, <1>7

\* The settings task wakes.
LEMMA SettingsTaskTask ==
    ASSUME TaskInv, SettingsTask
    PROVE  TaskInv'
<1>1. /\ now \in Nat /\ config \in Configs /\ Slack \in Nat
      /\ Keepalive' = Keepalive /\ Keepalive \in Nat /\ config.settings * Second \in Nat
  BY ConfigTimes DEF TaskInv, PhaseInv, SettingsTask, Keepalive
<1>2. /\ settings_due \in Nat /\ settings_due # None /\ phase # "handshake"
      /\ settings_due = since + config.settings * Second /\ now <= settings_due + Slack
      /\ notified \in Nat \union {None}
  BY DEF SettingsTask, Over, TaskInv, PhaseInv, SettingsInv
<1>3. /\ settings_due' = None
      /\ UNCHANGED <<config, now, phase, reason, io_closed, since, ping_due, pings, pong, net, heard, acked>>
  BY DEF SettingsTask, handshakeVars, pingVars
<1>4. CASE ~io_closed /\ ~acked
  <2>1. settings_out' = TRUE /\ notified' = IF notified = None THEN now ELSE notified
    BY <1>4 DEF SettingsTask, NotifyTimeout
  <2>2. phase = "open"
    BY <1>2, <1>4 DEF TaskInv, PhaseInv
  <2>3. notified' \in Nat /\ notified' # None /\ notified' <= now /\ now <= notified' + Slack
    BY <1>1, <1>2, <2>1 DEF TaskInv, PhaseInv
  <2>4. PhaseInv'
    BY <1>2, <1>3, <2>2, <2>3 DEF TaskInv, PhaseInv
  <2>5. SettingsInv'
    BY <1>1, <1>2, <1>3, <2>3 DEF TaskInv, SettingsInv
  <2>6. PingInv'
    BY <1>1, <1>3, <2>1, <2>3 DEF TaskInv, PingInv
  <2>7. LiveInv'
    BY <1>1, <1>3, <2>1 DEF TaskInv, LiveInv
  <2> QED
    BY <2>4, <2>5, <2>6, <2>7 DEF TaskInv
<1>5. CASE io_closed \/ acked
  <2>1. settings_out' = settings_out /\ notified' = notified
    BY <1>5 DEF SettingsTask
  <2>2. phase = "open" => acked
    BY <1>5 DEF TaskInv, PhaseInv
  <2>3. PhaseInv' /\ SettingsInv'
    BY <1>2, <1>3, <2>1, <2>2 DEF TaskInv, PhaseInv, SettingsInv
  <2>4. PingInv' /\ LiveInv'
    BY <1>1, <1>3, <2>1 DEF TaskInv, PingInv, LiveInv
  <2> QED
    BY <2>3, <2>4 DEF TaskInv
<1> QED
  BY <1>4, <1>5

\* A PING is acknowledged.
LEMMA RecvPongTask ==
    ASSUME TaskInv, NEW payload, RecvPong(payload)
    PROVE  TaskInv'
<1>1. /\ now \in Nat /\ config \in Configs /\ Slack \in Nat
      /\ Keepalive' = Keepalive /\ Keepalive \in Nat
  BY ConfigTimes DEF TaskInv, PhaseInv, RecvPong, Keepalive
<1>2. /\ phase = "open"
      /\ net' = {p \in net : p.payload # payload}
      /\ UNCHANGED <<config, now, phase, reason, io_closed, since, ping_due, pings, settings_due,
                     acked, settings_out, notified>>
  BY DEF RecvPong, handshakeVars, settingsVars
<1>3. PhaseInv' /\ SettingsInv'
  BY <1>2 DEF TaskInv, PhaseInv, SettingsInv
<1>4. CASE payload = pings
  <2>1. pong' = TRUE /\ heard' = now
    BY <1>4 DEF RecvPong, Answers
  <2>2. PingInv'
    <3>1. ping_due = None => (notified # None /\ notified <= now) \/ config.ping = 0
      BY <1>2 DEF TaskInv, PhaseInv, PingInv
    <3>2. ping_due = None /\ config.ping # 0 =>
            notified # None /\ notified <= now + Keepalive + Keepalive + Slack + Slack
      BY <1>1, <3>1 DEF TaskInv, PhaseInv
    <3>3. /\ ping_due \in Nat \union {None}
          /\ ping_due # None => config.ping # 0 /\ now <= ping_due + Slack /\ ping_due <= now + Keepalive
      BY DEF TaskInv, PingInv
    <3>4. now' = now /\ Keepalive' = Keepalive /\ config' = config /\ ping_due' = ping_due /\ notified' = notified
      BY <1>1, <1>2
    <3> QED
      BY <1>1, <2>1, <3>2, <3>3, <3>4 DEF PingInv
  <2>3. LiveInv'
    BY <1>1, <1>2, <2>1 DEF TaskInv, LiveInv
  <2> QED
    BY <1>3, <2>2, <2>3 DEF TaskInv
<1>5. CASE payload # pings
  <2>1. pong' = pong /\ heard' = heard
    BY <1>5 DEF RecvPong, Answers, TaskInv, PingInv
  <2>2. PingInv'
    BY <1>1, <1>2, <2>1 DEF TaskInv, PingInv
  <2>3. LiveInv'
    BY <1>1, <1>2, <1>5, <2>1 DEF TaskInv, LiveInv
  <2> QED
    BY <1>3, <2>2, <2>3 DEF TaskInv
<1> QED
  BY <1>4, <1>5

\* The SETTINGS are acknowledged.
LEMMA RecvAckTask ==
    ASSUME TaskInv, RecvAck
    PROVE  TaskInv'
<1>1. /\ acked' = TRUE
      /\ UNCHANGED <<config, now, handshakeVars, pingVars, settings_due, settings_out, notified>>
  BY DEF RecvAck
<1> USE DEF handshakeVars, pingVars
<1>2. Keepalive' = Keepalive
  BY <1>1 DEF Keepalive
<1>3. PhaseInv' /\ SettingsInv'
  BY <1>1 DEF TaskInv, PhaseInv, SettingsInv
<1>4. PingInv' /\ LiveInv'
  BY <1>1, <1>2 DEF TaskInv, PingInv, LiveInv
<1> QED
  BY <1>3, <1>4 DEF TaskInv

\* A timeout: if the peer is live, it is the settings timer's.
LEMMA DispatchTimeoutTask ==
    ASSUME TaskInv, DispatchTimeout
    PROVE  TaskInv'
<1>1. config.live => reason' # "KeepaliveTimeout"
  BY DEF DispatchTimeout, TaskInv, LiveInv
<1> QED
  BY <1>1, EndTask DEF DispatchTimeout

-----------------------------------------------------------------------------
(* Theorems. *)

\* Where the timers start.
LEMMA InitInv ==
    ASSUME Init
    PROVE  CapacityInv /\ TaskInv
<1>1. timer.running = FALSE /\ timer = Stopped(NewTimer) /\ NewTimer.current \in Nat
  BY DEF Init, NewTimer, Stopped
<1>2. InStep(Stopped(NewTimer), {})
  BY <1>1, StoppedInStep
<1>3. InStep(timer, {})
  BY <1>1, <1>2
<1>4. TickInv
  BY <1>1 DEF Init, TickInv
<1>5. CapacityInv
  BY <1>3, <1>4 DEF Init, CapacityInv
<1>6. PhaseInv
  <2>1. config \in Configs /\ config.handshake * Second \in Nat /\ Slack \in Nat
    BY ConfigTimes DEF Init
  <2>2. 0 <= config.handshake * Second + Slack
    BY <2>1
  <2>3. /\ now = 0 /\ phase = "handshake" /\ io_closed = FALSE /\ notified = None /\ net = {}
        /\ ping_due = None /\ settings_due = None
    BY DEF Init
  <2>4. io_closed = (phase \in {"failed", "refused"})
    <3>1. (phase \in {"failed", "refused"}) = FALSE
      BY <2>3
    <3> QED
      BY <2>3, <3>1
  <2> QED
    BY <2>1, <2>2, <2>3, <2>4 DEF PhaseInv
<1>7. SettingsInv
  BY DEF Init, SettingsInv
<1>8. PingInv
  <2>1. ping_due = None /\ pong = FALSE /\ heard = 0 /\ now = 0 /\ phase = "handshake"
    BY DEF Init
  <2>2. heard \in Nat /\ heard <= now /\ ping_due \in Nat \union {None}
    BY <2>1
  <2>3. pong \in BOOLEAN
    BY <2>1
  <2>4. ping_due # None => FALSE
    BY <2>1
  <2>5. phase = "open" => FALSE
    BY <2>1
  <2> QED
    BY <2>2, <2>3, <2>4, <2>5 DEF PingInv
<1>9. LiveInv
  BY DEF Init, LiveInv
<1> QED
  BY <1>5, <1>6, <1>7, <1>8, <1>9 DEF TaskInv

\* The capacity timer stays in step.
LEMMA NextCapacity ==
    ASSUME CapacityInv, [Next]_vars
    PROVE  CapacityInv'
<1> USE DEF handshakeVars, pingVars, settingsVars, streamVars
<1>1. CASE Advance
  BY <1>1, AdvanceCapacity
<1>2. CASE \/ Connect \/ Refuse \/ HandshakeTimeout \/ PingTask \/ SettingsTask \/ RecvAck
           \/ (\E payload \in 0 .. pings + 1 : RecvPong(payload)) \/ UNCHANGED vars
  <2>1. UNCHANGED <<config, now, timer, tick_due, armed, registered, waits, open, half, capacity>>
    BY <1>2 DEF Connect, Refuse, HandshakeTimeout, PingTask, SettingsTask, RecvAck, RecvPong, vars
  <2>2. armed \subseteq (waits' \intersect (open' \union half')) \ capacity'
    BY <2>1 DEF CapacityInv
  <2> QED
    BY <2>1, <2>2, TimerQuiet
<1>3. ASSUME NEW s \in config.streams, Open(s)
      PROVE  CapacityInv'
  <2>1. armed \subseteq (waits' \intersect (open' \union half')) \ capacity'
    BY <1>3 DEF CapacityInv, Open
  <2> QED
    BY <1>3, <2>1, TimerQuiet DEF Open
<1>4. ASSUME NEW s \in config.streams, Poll(s)
      PROVE  CapacityInv'
  <2>1. s \in Streams
    BY <1>4 DEF CapacityInv, ConfigType
  <2>2. CASE phase = "failed" \/ s \notin open \/ s \in capacity
    <3>1. armed \ {s} \subseteq (waits' \intersect (open' \union half')) \ capacity'
      BY <1>4, <2>2 DEF CapacityInv, Poll
    <3> QED
      BY <1>4, <2>2, <3>1, StopInv DEF Poll
  <2>3. CASE ~(phase = "failed" \/ s \notin open \/ s \in capacity)
    BY <1>4, <2>1, <2>3, StartInv DEF Poll
  <2> QED
    BY <2>2, <2>3
<1>5. ASSUME NEW s \in config.streams, DropWait(s) \/ StreamEnds(s)
      PROVE  CapacityInv'
  <2>1. armed \ {s} \subseteq (waits' \intersect (open' \union half')) \ capacity'
    BY <1>5 DEF CapacityInv, DropWait, StreamEnds
  <2> QED
    BY <1>5, <2>1, StopInv DEF DropWait, StreamEnds
<1>6. ASSUME NEW S \in SUBSET config.streams \ {{}}, Gain(S)
      PROVE  CapacityInv'
  <2> DEFINE T == S \intersect waits
  <2>1. Stop(T) /\ UNCHANGED <<config, now, waits, open, half>> /\ capacity' = capacity \union S
    BY <1>6 DEF Gain
  <2>2. armed \ T \subseteq (waits' \intersect (open' \union half')) \ capacity'
    BY <2>1 DEF CapacityInv
  <2> HIDE DEF T
  <2> QED
    BY <2>1, <2>2, StopInv
<1>7. ASSUME NEW S \in SUBSET config.streams \ {{}}, Lose(S)
      PROVE  CapacityInv'
  <2>1. armed \subseteq (waits' \intersect (open' \union half')) \ capacity'
    BY <1>7 DEF CapacityInv, Lose
  <2> QED
    BY <1>7, <2>1, TimerQuiet DEF Lose
<1>8. ASSUME NEW s \in config.streams, SendCloses(s)
      PROVE  CapacityInv'
  <2>1. armed \subseteq (waits' \intersect (open' \union half')) \ capacity'
    BY <1>8 DEF CapacityInv, SendCloses
  <2> QED
    BY <1>8, <2>1, TimerQuiet DEF SendCloses
<1>9. CASE TimerTask
  BY <1>9, TimerTaskCapacity
<1>10. CASE DropTimer
  BY <1>10, DropTimerCapacity
<1>11. CASE DispatchTimeout \/ Fail
  <2> DEFINE map == open \union half
  <2>1. Stop(map) /\ UNCHANGED <<config, now>>
    BY <1>11 DEF DispatchTimeout, Fail, FailStreams
  <2>2. armed \ map = {}
    BY DEF CapacityInv
  <2> HIDE DEF map
  <2>3. armed \ map \subseteq (waits' \intersect (open' \union half')) \ capacity'
    BY <2>2
  <2> QED
    BY <2>1, <2>3, StopInv
<1> QED
  BY <1>1, <1>2, <1>3, <1>4, <1>5, <1>6, <1>7, <1>8, <1>9, <1>10, <1>11 DEF Next

\* The tasks stay on time.
LEMMA NextTask ==
    ASSUME TaskInv, [Next]_vars
    PROVE  TaskInv'
<1>1. CASE \/ \E s \in config.streams : Open(s) \/ Poll(s) \/ DropWait(s) \/ SendCloses(s) \/ StreamEnds(s)
           \/ \E S \in SUBSET config.streams \ {{}} : Gain(S) \/ Lose(S)
           \/ TimerTask \/ DropTimer \/ UNCHANGED vars
  <2>1. UNCHANGED <<config, now, handshakeVars, pingVars, settingsVars, notified>>
    BY <1>1 DEF Open, Poll, DropWait, SendCloses, StreamEnds, Gain, Lose, TimerTask, DropTimer, vars
  <2> QED
    BY <2>1, TaskQuiet
<1>2. CASE Refuse \/ HandshakeTimeout
  <2>1. notified' = None
    BY <1>2 DEF Refuse, HandshakeTimeout, TaskInv, PhaseInv
  <2> QED
    BY <1>2, <2>1, EndTask DEF Refuse, HandshakeTimeout
<1>3. CASE Fail
  BY <1>3, EndTask DEF Fail
<1> QED
  BY <1>1, <1>2, <1>3, AdvanceTask, ConnectTask, PingTaskTask, SettingsTaskTask,
     RecvPongTask, RecvAckTask, DispatchTimeoutTask
  DEF Next

\* timer.rs, connection.rs: in every state the timer, the flags of the streams
\* and the sleeps of the tasks agree, and nothing is later than its task.
THEOREM TimersInvariant == Spec => [](CapacityInv /\ TaskInv)
<1>1. Init => CapacityInv /\ TaskInv
  BY InitInv
<1>2. (CapacityInv /\ TaskInv) /\ [Next]_vars => (CapacityInv /\ TaskInv)'
  BY NextCapacity, NextTask
<1> QED
  BY <1>1, <1>2, PTL DEF Spec

\* timer.rs, stream.rs CAPACITY_TIMER: the flag of a stream and its entry in
\* the timer come and go together, and only while the stream is in the map and
\* its wait is not over.
THEOREM TimerStaysInStep == Spec => []TimerInStep
<1>1. CapacityInv => TimerInStep
  <2> SUFFICES ASSUME CapacityInv PROVE TimerInStep
    OBVIOUS
  <2>1. InStep(timer, armed) /\ TickInv /\ armed \subseteq (waits \intersect (open \union half)) \ capacity
    BY DEF CapacityInv
  <2>2. armed = DOMAIN timer.streams
    BY <2>1 DEF InStep
  <2>3. ASSUME NEW s \in armed
        PROVE  {key \in DOMAIN timer.notifications : s \in timer.notifications[key]} = {timer.streams[s]}
    <3>1. timer.streams[s] \in DOMAIN timer.notifications /\ s \in timer.notifications[timer.streams[s]]
      BY <2>1, <2>3 DEF InStep
    <3>2. \A key \in DOMAIN timer.notifications : s \in timer.notifications[key] => timer.streams[s] = key
      BY <2>1 DEF InStep
    <3> QED
      BY <3>1, <3>2
  <2>4. armed # {} => timer.running /\ tick_due # None
    BY <2>1 DEF InStep, TickInv
  <2> QED
    BY <2>1, <2>2, <2>3, <2>4 DEF TimerInStep
<1> QED
  BY <1>1, TimersInvariant, PTL

\* stream.rs send_capacity: a capacity timeout comes when its time has passed,
\* and at most a second and the delays of the task later; a stream whose send
\* half is closed is not reset by it.
THEOREM CapacityTimeoutsOnTime == Spec => CapacityTimeoutOnTime
<1>1. ASSUME CapacityInv, [Next]_vars, NEW s \in Streams
      PROVE  /\ s \in late' \ late => s \in open /\ now - registered[s] >= config.capacity * Second
             /\ s \in armed => now - registered[s] <= (config.capacity + 1) * (Second + Slack)
  <2>1. ASSUME NEW t \in armed
        PROVE  /\ now - registered[t] <= (config.capacity + 1) * (Second + Slack)
               /\ timer.streams[t] = timer.current /\ now >= tick_due =>
                    now - registered[t] >= config.capacity * Second
    <3>1. /\ registered[t] \in Nat /\ tick_due \in Nat /\ config.capacity \in Nat
          /\ timer.streams[t] - timer.current \in Nat
          /\ timer.streams[t] \in Nat /\ timer.current \in Nat
      BY <1>1, <2>1, ArmedTypes
    <3>2. now \in Nat /\ now <= tick_due + Slack /\ TimeLeft(t)
      BY <1>1, <2>1, <3>1 DEF CapacityInv, TickInv
    <3> DEFINE k == timer.streams[t] - timer.current
    <3>3. k \in Nat /\ (timer.streams[t] = timer.current => k = 0)
      BY <3>1
    <3>4. Between(registered[t], tick_due, now, k, config.capacity)
      BY <3>2 DEF TimeLeft
    <3> HIDE DEF k
    <3>5. /\ now - registered[t] <= (config.capacity + 1) * (Second + Slack)
          /\ k = 0 /\ tick_due <= now => now - registered[t] >= config.capacity * Second
      BY <3>1, <3>2, <3>3, <3>4, BetweenEnds
    <3> QED
      BY <3>1, <3>2, <3>3, <3>5
  <2>2. s \in late' \ late => /\ s \in armed /\ timer.streams[s] = timer.current
                              /\ now >= tick_due /\ s \in open
    <3> SUFFICES ASSUME s \in late' \ late
                 PROVE  s \in armed /\ timer.streams[s] = timer.current /\ now >= tick_due /\ s \in open
      OBVIOUS
    <3> USE DEF handshakeVars, pingVars, settingsVars, streamVars
    <3>1. TimerTask
      <4>1. late' # late
        OBVIOUS
      <4> QED
        BY <1>1, <4>1 DEF Next, Advance, Connect, Refuse, HandshakeTimeout, Open, Poll, DropWait,
           SendCloses, StreamEnds, Gain, Lose, DropTimer, PingTask, SettingsTask, RecvPong, RecvAck,
           DispatchTimeout, Fail, FailStreams, vars
    <3>2. s \in Expired(timer) /\ now >= tick_due /\ s \in open
      BY <3>1 DEF TimerTask, TimesOut, Over
    <3>3. Expired(timer) = {t \in armed : timer.streams[t] = timer.current}
      BY <1>1, TickInStep DEF CapacityInv
    <3> QED
      BY <3>2, <3>3
  <2> QED
    BY <2>1, <2>2
<1>2. CapacityInv /\ [Next]_vars =>
        [\A s \in Streams :
            /\ s \in late' \ late => s \in open /\ now - registered[s] >= config.capacity * Second
            /\ s \in armed => now - registered[s] <= (config.capacity + 1) * (Second + Slack)]_vars
  BY <1>1
<1> QED
  BY <1>2, TimersInvariant, PTL DEF Spec, CapacityTimeoutOnTime

\* connection.rs ping: a peer that answers every PING within the keep-alive
\* time is never timed out.
THEOREM LivePeersKept == Spec => []LivePeerKept
<1>1. TaskInv => LivePeerKept
  BY DEF TaskInv, LiveInv, LivePeerKept
<1> QED
  BY <1>1, TimersInvariant, PTL

\* connection.rs ping and settings_timer, server/service.rs run: a peer that is
\* silent during the handshake, does not acknowledge SETTINGS or answers no
\* PING keeps no connection beyond the configured times.
THEOREM SilentPeersClosed == Spec => []SilentPeerClosed
<1>1. TaskInv => SilentPeerClosed
  <2> SUFFICES ASSUME TaskInv PROVE SilentPeerClosed
    OBVIOUS
  <2>1. /\ now \in Nat /\ Keepalive \in Nat /\ config.settings * Second \in Nat /\ Slack \in Nat
        /\ config.handshake * Second \in Nat
    BY ConfigTimes DEF TaskInv, PhaseInv
  <2>2. phase = "handshake" /\ config.handshake # 0 => now <= config.handshake * Second + Slack
    BY DEF TaskInv, PhaseInv
  <2>3. phase = "open" /\ config.settings # 0 /\ ~acked => now <= since + config.settings * Second + 2 * Slack
    BY <2>1 DEF TaskInv, PhaseInv, SettingsInv
  <2>4. phase = "open" /\ config.ping # 0 => now <= heard + 2 * (Keepalive + Slack) + Slack
    <3> SUFFICES ASSUME phase = "open", config.ping # 0
                 PROVE  now <= heard + 2 * (Keepalive + Slack) + Slack
      OBVIOUS
    <3>1. CASE ping_due # None
      <4>1. /\ ping_due \in Nat /\ heard \in Nat /\ now <= ping_due + Slack
            /\ \/ ping_due <= heard + Keepalive
               \/ ping_due <= heard + Keepalive + Keepalive + Slack
        BY <3>1 DEF TaskInv, PingInv
      <4> QED
        BY <2>1, <4>1
    <3>2. CASE ping_due = None
      <4>1. /\ notified \in Nat /\ heard \in Nat /\ now <= notified + Slack
            /\ notified <= heard + Keepalive + Keepalive + Slack + Slack
        BY <3>2 DEF TaskInv, PhaseInv, PingInv
      <4> QED
        BY <2>1, <4>1
    <3> QED
      BY <3>1, <3>2
  <2> QED
    BY <2>2, <2>3, <2>4 DEF SilentPeerClosed
<1> QED
  BY <1>1, TimersInvariant, PTL

=============================================================================
