------------------------- MODULE ClientStreamProofs -------------------------
(***************************************************************************)
(* Proofs about ClientStream for every content length and every sequence   *)
(* of frames: what recv() returns is a well-formed response, and a stream  *)
(* without handles is closed.                                              *)
(*                                                                         *)
(* ResponseWellFormed speaks of the messages recv() has returned, the      *)
(* frames were checked when they came.  Between them lies the queue, so    *)
(* the invariant follows the response through the messages that wait in    *)
(* it: some sequence of responses starts at what the user has seen, makes  *)
(* one step for each message and ends where the stream state is.           *)
(***************************************************************************)
EXTENDS ClientStream, TLAPS

USE ClientStreamAssumption

Phases == {"start", "body", "end", "failed"}
Response == [phase : Phases, declared : Nat \union {None}, got : Nat]

\* ResponseWellFormed of a response
WellFormed(r, h) ==
    /\ r.declared # None =>
        /\ r.got <= r.declared
        /\ r.phase = "end" => r.got = r.declared
    /\ h => r.got = 0

\* rs are the responses the user will have seen from r on, message by message
Follows(rs, r, q, h) ==
    /\ rs \in Seq(Response)
    /\ Len(rs) = Len(q) + 1
    /\ rs[1] = r
    /\ \A i \in 1 .. Len(q) : rs[i + 1] = After(rs[i], q[i])
    /\ \A i \in 1 .. Len(rs) : WellFormed(rs[i], h)

\* the response f of the frames that were received and the stream state agree
Agrees(f) ==
    /\ recv = "idle" => f.phase = "start" /\ f.declared = None /\ f.got = 0
    /\ recv = "payload" =>
        /\ f.phase = "body"
        /\ remaining \in {None, NoContent} => f.declared = None
        /\ remaining \in Nat => f.declared = f.got + remaining
    /\ f.phase = "failed" => ~InMap /\ ~spawned

\* the announced length is counted down, a response to HEAD has no body
RemainingInv ==
    /\ remaining \in {None, NoContent} \union Lengths
    /\ head \in BOOLEAN
    /\ head <=> remaining = NoContent
    /\ recv = "idle" => remaining \notin Nat

\* a message will be published for a stream that is closed
SpawnedInv == spawned => ~InMap

HalvesInv == recv \in Halves /\ send \in Halves /\ queue \in Seq(Message)

\* a half whose handle was dropped is closed
DroppedInv ==
    /\ "recv" \notin handles => recv = "closed"
    /\ "send" \notin handles => send = "closed"
    /\ handles \subseteq {"send", "recv"}

QueueInv ==
    \E rs \in Seq(Response) :
        /\ Follows(rs, response, queue, head)
        /\ "recv" \in handles => Agrees(rs[Len(rs)])

\* the inductive invariant
StreamInv == HalvesInv /\ DroppedInv /\ RemainingInv /\ SpawnedInv /\ QueueInv

-----------------------------------------------------------------------------
(* The queue. *)

\* One more message.
LEMMA FollowsPush ==
    ASSUME NEW rs, NEW r, NEW q \in Seq(Message), NEW h, NEW m \in Message,
           Follows(rs, r, q, h),
           After(rs[Len(rs)], m) \in Response,
           WellFormed(After(rs[Len(rs)], m), h)
    PROVE  LET f == After(rs[Len(rs)], m)
               more == Append(rs, f)
           IN  /\ more \in Seq(Response)
               /\ Follows(more, r, q \o <<m>>, h)
               /\ more[Len(more)] = f
<1> DEFINE f == After(rs[Len(rs)], m)
           more == Append(rs, f)
           longer == q \o <<m>>
<1>1. /\ rs \in Seq(Response) /\ Len(rs) = Len(q) + 1 /\ rs[1] = r
      /\ \A i \in 1 .. Len(q) : rs[i + 1] = After(rs[i], q[i])
      /\ \A i \in 1 .. Len(rs) : WellFormed(rs[i], h)
  BY DEF Follows
<1>2. f \in Response /\ WellFormed(f, h)
  OBVIOUS
<1> HIDE DEF f
<1>3. /\ more \in Seq(Response) /\ Len(more) = Len(rs) + 1 /\ more[Len(more)] = f
      /\ \A i \in 1 .. Len(rs) : more[i] = rs[i]
  BY <1>1, <1>2
<1>4. /\ longer \in Seq(Message) /\ Len(longer) = Len(q) + 1 /\ longer[Len(longer)] = m
      /\ \A i \in 1 .. Len(q) : longer[i] = q[i]
  OBVIOUS
<1>5. f = After(rs[Len(rs)], m)
  BY DEF f
<1> HIDE DEF more, longer
<1>6. \A i \in 1 .. Len(longer) : more[i + 1] = After(more[i], longer[i])
  <2> TAKE i \in 1 .. Len(longer)
  <2>1. CASE i \in 1 .. Len(q)
    BY <1>1, <1>3, <1>4, <2>1
  <2>2. CASE i = Len(q) + 1
    BY <1>1, <1>3, <1>4, <1>5, <2>2
  <2> QED
    BY <1>4, <2>1, <2>2
<1>7. \A i \in 1 .. Len(more) : WellFormed(more[i], h)
  <2> TAKE i \in 1 .. Len(more)
  <2>1. CASE i \in 1 .. Len(rs)
    BY <1>1, <1>3, <2>1
  <2>2. CASE i = Len(more)
    BY <1>2, <1>3, <2>2
  <2> QED
    BY <1>1, <1>3, <2>1, <2>2
<1>8. more[1] = r /\ Len(more) = Len(longer) + 1
  BY <1>1, <1>3, <1>4
<1>9. Follows(more, r, longer, h)
  BY <1>3, <1>6, <1>7, <1>8 DEF Follows
<1> QED
  BY <1>3, <1>9 DEF more, longer, f

\* The user takes the first message.
LEMMA FollowsPoll ==
    ASSUME NEW rs, NEW r, NEW q \in Seq(Message), NEW h,
           Follows(rs, r, q, h), q # <<>>
    PROVE  /\ Tail(rs) \in Seq(Response)
           /\ Follows(Tail(rs), After(r, Head(q)), Tail(q), h)
           /\ Tail(rs)[Len(Tail(rs))] = rs[Len(rs)]
<1>1. /\ rs \in Seq(Response) /\ Len(rs) = Len(q) + 1 /\ rs[1] = r
      /\ \A i \in 1 .. Len(q) : rs[i + 1] = After(rs[i], q[i])
      /\ \A i \in 1 .. Len(rs) : WellFormed(rs[i], h)
  BY DEF Follows
<1>2. Len(q) \in Nat /\ Len(q) # 0 /\ Head(q) = q[1]
  OBVIOUS
<1> DEFINE ts == Tail(rs)
           tq == Tail(q)
<1>3. /\ ts \in Seq(Response) /\ Len(ts) = Len(rs) - 1
      /\ \A i \in 1 .. Len(ts) : ts[i] = rs[i + 1]
  BY <1>1, <1>2
<1>4. /\ Len(tq) = Len(q) - 1
      /\ \A i \in 1 .. Len(tq) : tq[i] = q[i + 1]
  BY <1>2
<1> HIDE DEF ts, tq
<1>5. ts[1] = After(r, Head(q))
  BY <1>1, <1>2, <1>3
<1>6. \A i \in 1 .. Len(tq) : ts[i + 1] = After(ts[i], tq[i])
  <2> TAKE i \in 1 .. Len(tq)
  <2>1. rs[i + 2] = After(rs[i + 1], q[i + 1])
    BY <1>1, <1>2, <1>4
  <2> QED
    BY <1>1, <1>2, <1>3, <1>4, <2>1
<1>7. \A i \in 1 .. Len(ts) : WellFormed(ts[i], h)
  BY <1>1, <1>2, <1>3
<1>8. Follows(ts, After(r, Head(q)), tq, h)
  BY <1>1, <1>2, <1>3, <1>4, <1>5, <1>6, <1>7 DEF Follows
<1>9. ts[Len(ts)] = rs[Len(rs)]
  BY <1>1, <1>2, <1>3
<1> QED
  BY <1>3, <1>8, <1>9 DEF ts, tq

-----------------------------------------------------------------------------
(* Steps that publish at most one message. *)

\* the queue gets the message m, and the response with it agrees again
Publishes(f, m) ==
    /\ queue' = queue \o <<m>>
    /\ After(f, m) \in Response /\ WellFormed(After(f, m), head)
    /\ Agrees(After(f, m))'

\* a step that leaves what recv() returned alone
QueueStep(f) ==
    /\ head' = head /\ response' = response
    /\ \/ queue' = queue /\ ("recv" \in handles' => Agrees(f)')
       \/ "recv" \in handles /\ \E m \in Message : Publishes(f, m)

\* The invariant of the queue from the step of its last response.
LEMMA QueueStepInv ==
    ASSUME HalvesInv, QueueInv, handles' \subseteq handles,
           \A f \in Response :
               ("recv" \in handles => Agrees(f)) /\ WellFormed(f, head) => QueueStep(f)
    PROVE  QueueInv'
<1>1. PICK rs \in Seq(Response) :
        /\ Follows(rs, response, queue, head)
        /\ "recv" \in handles => Agrees(rs[Len(rs)])
  BY DEF QueueInv
<1> DEFINE f == rs[Len(rs)]
<1>2. queue \in Seq(Message)
  BY DEF HalvesInv
<1>3. Len(rs) \in 1 .. Len(rs) /\ f \in Response /\ WellFormed(f, head)
  <2>1. Len(rs) = Len(queue) + 1 /\ Len(queue) \in Nat
    BY <1>1, <1>2 DEF Follows
  <2>2. Len(rs) \in 1 .. Len(rs)
    BY <2>1
  <2> QED
    BY <1>1, <2>2 DEF Follows
<1>4. QueueStep(f)
  BY <1>1, <1>3
<1>5. CASE queue' = queue /\ ("recv" \in handles' => Agrees(f)')
  <2>1. Follows(rs, response', queue', head')
    BY <1>1, <1>4, <1>5 DEF QueueStep
  <2> QED
    BY <1>5, <2>1 DEF QueueInv
<1>6. ASSUME "recv" \in handles, NEW m \in Message, Publishes(f, m)
      PROVE  QueueInv'
  <2> DEFINE more == Append(rs, After(f, m))
  <2>1. /\ more \in Seq(Response)
        /\ Follows(more, response, queue \o <<m>>, head)
        /\ more[Len(more)] = After(f, m)
    BY <1>1, <1>2, <1>6, FollowsPush DEF Publishes
  <2>2. Follows(more, response', queue', head')
    BY <1>4, <1>6, <2>1 DEF QueueStep, Publishes
  <2>3. Agrees(After(f, m))'
    BY <1>6 DEF Publishes
  <2>4. Agrees(more[Len(more)])'
    BY <2>1, <2>3
  <2> QED
    BY <2>1, <2>2, <2>4 DEF QueueInv
<1> QED
  BY <1>4, <1>5, <1>6 DEF QueueStep

-----------------------------------------------------------------------------
(* Frames of the peer. *)

\* What Change does to the queue: the message is lost without a RecvStream.
LEMMA ChangePushes ==
    ASSUME HalvesInv, NEW r \in Halves, NEW s \in Halves, NEW d, NEW m \in Message,
           Change(r, s, d, <<m>>)
    PROVE  /\ recv' = r /\ send' = s
           /\ queue' = IF "recv" \in handles THEN queue \o <<m>> ELSE queue
           /\ HalvesInv'
<1>1. <<m>> # <<>>
  OBVIOUS
<1>2. queue' = IF "recv" \in handles THEN queue \o <<m>> ELSE queue
  BY <1>1 DEF Change, Push, Pushed, queueVars
<1>3. recv' = r /\ send' = s
  BY DEF Change
<1> QED
  BY <1>2, <1>3 DEF HalvesInv

\* Change without a message leaves the queue alone.
LEMMA ChangeQuiet ==
    ASSUME HalvesInv, NEW r \in Halves, NEW s \in Halves, NEW d, Change(r, s, d, <<>>)
    PROVE  /\ recv' = r /\ send' = s
           /\ queue' = queue
           /\ HalvesInv'
<1>1. queue' = queue
  BY DEF Change, Push, Pushed, queueVars
<1>2. recv' = r /\ send' = s
  BY DEF Change
<1> QED
  BY <1>1, <1>2 DEF HalvesInv

\* A published message is one.
LEMMA PublishedIs ==
    ASSUME NEW kind \in Kinds, NEW len \in Lengths \union {None}
    PROVE  /\ [kind |-> kind, len |-> len] \in Message
           /\ Published(kind, len) = <<[kind |-> kind, len |-> len]>>
  BY DEF Message, Published

\* After a stream error the response has failed, and it had not before.
LEMMA AfterError ==
    ASSUME NEW f \in Response, NEW h, WellFormed(f, h), f.phase # "failed",
           NEW m \in Message, m.kind \in {"error", "disconnect"}
    PROVE  /\ After(f, m) \in Response
           /\ After(f, m).phase = "failed"
           /\ WellFormed(After(f, m), h)
<1>1. After(f, m) = [f EXCEPT !.phase = "failed"]
  BY DEF After, Response, Phases
<1> QED
  BY <1>1 DEF WellFormed, Response, Phases

\* the frame of an action on a stream in the map
PeerFrame == head' = head /\ handles' = handles /\ spawned' = spawned /\ response' = response

\* A stream error keeps the invariant.
LEMMA StreamErrorInv ==
    ASSUME StreamInv, InMap, StreamError, PeerFrame,
           remaining' \in {None, NoContent} \union Lengths,
           remaining' = NoContent <=> remaining = NoContent
    PROVE  StreamInv'
<1> DEFINE m == [kind |-> "error", len |-> None]
<1>1. m \in Message /\ Published("error", None) = <<m>> /\ m.kind = "error"
  BY PublishedIs DEF Kinds
<1> HIDE DEF m
<1>2. /\ recv' = "closed" /\ send' = "closed"
      /\ queue' = IF "recv" \in handles THEN queue \o <<m>> ELSE queue
      /\ HalvesInv'
  BY <1>1, ChangePushes DEF StreamError, StreamInv, Halves
<1>3. DroppedInv' /\ RemainingInv' /\ SpawnedInv'
  BY <1>2 DEF StreamInv, DroppedInv, RemainingInv, SpawnedInv, InMap, PeerFrame
<1>4. ASSUME NEW f \in Response, "recv" \in handles => Agrees(f), WellFormed(f, head)
      PROVE  QueueStep(f)
  <2>1. CASE "recv" \notin handles
    BY <1>2, <2>1 DEF QueueStep, PeerFrame
  <2>2. CASE "recv" \in handles
    <3>1. f.phase # "failed"
      BY <1>4, <2>2 DEF Agrees
    <3>2. After(f, m) \in Response /\ WellFormed(After(f, m), head) /\ After(f, m).phase = "failed"
      BY <1>1, <1>4, <3>1, AfterError
    <3>3. ~spawned'
      BY DEF StreamInv, SpawnedInv, PeerFrame
    <3>4. Agrees(After(f, m))'
      BY <1>2, <3>2, <3>3 DEF Agrees, InMap
    <3> QED
      BY <1>1, <1>2, <2>2, <3>2, <3>4 DEF QueueStep, Publishes, PeerFrame
  <2> QED
    BY <2>1, <2>2
<1>5. QueueInv'
  BY <1>4, QueueStepInv DEF StreamInv, PeerFrame
<1> QED
  BY <1>2, <1>3, <1>5 DEF StreamInv

\* An accepted frame keeps the invariant if its message leads from a response
\* that agrees to one that agrees.
LEMMA AcceptInv ==
    ASSUME StreamInv, recv # "closed", PeerFrame, RemainingInv',
           NEW r \in Halves, NEW m \in Message,
           Change(r, send, disconnecting, <<m>>),
           \A f \in Response : Agrees(f) /\ WellFormed(f, head) => Publishes(f, m) \/ queue' # queue \o <<m>>
    PROVE  StreamInv'
<1>1. "recv" \in handles
  BY DEF StreamInv, DroppedInv
<1>2. send \in Halves
  BY DEF StreamInv, HalvesInv
<1>3. /\ recv' = r /\ send' = send
      /\ queue' = queue \o <<m>>
      /\ HalvesInv'
  BY <1>1, <1>2, ChangePushes DEF StreamInv
<1>4. ~spawned'
  BY DEF StreamInv, SpawnedInv, PeerFrame, InMap
<1>5. DroppedInv' /\ SpawnedInv'
  BY <1>1, <1>3, <1>4 DEF StreamInv, DroppedInv, SpawnedInv, PeerFrame
<1>6. ASSUME NEW f \in Response, "recv" \in handles => Agrees(f), WellFormed(f, head)
      PROVE  QueueStep(f)
  BY <1>1, <1>3, <1>6 DEF QueueStep, PeerFrame
<1>7. QueueInv'
  BY <1>6, QueueStepInv DEF StreamInv, PeerFrame
<1> QED
  BY <1>3, <1>5, <1>7 DEF StreamInv

\* The response, interim responses and everything that is wrong with them.
LEMMA RecvResponseInv ==
    ASSUME StreamInv, InMap, PeerFrame,
           NEW block \in Blocks, NEW len \in Lengths \union {None, Unparsed}, NEW eof \in BOOLEAN,
           RecvResponse(block, len, eof)
    PROVE  StreamInv'
<1>1. recv = "idle" /\ RemainingInv /\ ~spawned
  BY DEF RecvResponse, StreamInv, SpawnedInv
<1>2. CASE StreamError /\ UNCHANGED remaining
  BY <1>1, <1>2, StreamErrorInv DEF RemainingInv
<1>3. CASE /\ Change(recv, send, disconnecting, Published("interim", None))
           /\ UNCHANGED remaining
  <2> DEFINE m == [kind |-> "interim", len |-> None]
  <2>1. m \in Message /\ Published("interim", None) = <<m>> /\ m.kind = "interim"
    BY PublishedIs DEF Kinds
  <2> HIDE DEF m
  <2>2. recv' = recv /\ send' = send
    BY <1>3 DEF Change
  <2>3. RemainingInv'
    BY <1>1, <1>3, <2>2 DEF RemainingInv, PeerFrame
  <2>4. ASSUME NEW f \in Response, Agrees(f), WellFormed(f, head), queue' = queue \o <<m>>
        PROVE  Publishes(f, m)
    <3>1. After(f, m) = f
      BY <1>1, <2>1, <2>4 DEF After, Agrees
    <3>2. Agrees(f)'
      BY <1>1, <1>3, <2>2, <2>4 DEF Agrees, InMap, PeerFrame
    <3> QED
      BY <2>4, <3>1, <3>2 DEF Publishes
  <2>5. recv \in Halves /\ recv # "closed"
    BY <1>1 DEF Halves
  <2> QED
    BY <1>3, <2>1, <2>3, <2>4, <2>5, AcceptInv
<1>4. ASSUME ~BadLength(block, len, eof), block \in {"final", "not_modified"},
             remaining' = IF remaining = NoContent \/ len = None THEN remaining ELSE len,
             NEW declared,
             declared = IF remaining = NoContent \/ (eof /\ block = "not_modified") THEN None ELSE len,
             IF eof THEN Change("closed", send, disconnecting, Published("headers_eof", declared))
                    ELSE Change("payload", send, disconnecting, Published("headers", declared))
      PROVE  StreamInv'
  <2>1. /\ declared \in Lengths \union {None}
        /\ eof /\ declared # None => declared = 0
        /\ remaining' \in {None, NoContent} \union Lengths
        /\ remaining' = NoContent <=> remaining = NoContent
        /\ ~eof /\ remaining' \in {None, NoContent} => declared = None
        /\ ~eof /\ remaining' \in Nat => declared = remaining'
    BY <1>1, <1>4 DEF BadLength, RemainingInv, Lengths
  <2> DEFINE r == IF eof THEN "closed" ELSE "payload"
             m == [kind |-> IF eof THEN "headers_eof" ELSE "headers", len |-> declared]
  <2>2. /\ m \in Message /\ m.kind = (IF eof THEN "headers_eof" ELSE "headers") /\ m.len = declared
        /\ Change(r, send, disconnecting, <<m>>)
    BY <1>4, <2>1, PublishedIs DEF Kinds
  <2> HIDE DEF m
  <2>3. recv' = r /\ send' = send
    BY <2>2 DEF Change
  <2>4. RemainingInv'
    BY <1>1, <2>1, <2>3 DEF RemainingInv, PeerFrame
  <2>5. ASSUME NEW f \in Response, Agrees(f), WellFormed(f, head), queue' = queue \o <<m>>
        PROVE  Publishes(f, m)
    <3>1. f.phase = "start" /\ f.got = 0
      BY <1>1, <2>5 DEF Agrees
    <3>2. After(f, m) = [f EXCEPT !.phase = IF eof THEN "end" ELSE "body", !.declared = declared]
      BY <2>2, <3>1 DEF After, Response
    <3>3. /\ After(f, m) \in Response
          /\ After(f, m).phase = (IF eof THEN "end" ELSE "body")
          /\ After(f, m).declared = declared /\ After(f, m).got = 0
      <4>1. declared \in Nat \union {None}
        BY <2>1 DEF Lengths
      <4>2. CASE eof
        BY <3>1, <3>2, <4>1, <4>2 DEF Response, Phases
      <4>3. CASE ~eof
        BY <3>1, <3>2, <4>1, <4>3 DEF Response, Phases
      <4> QED
        BY <4>2, <4>3
    <3>4. WellFormed(After(f, m), head)
      BY <2>1, <3>3 DEF WellFormed, Lengths
    <3>5. Agrees(After(f, m))'
      BY <1>1, <2>1, <2>3, <3>3 DEF Agrees, InMap, PeerFrame
    <3> QED
      BY <2>5, <3>3, <3>4, <3>5 DEF Publishes
  <2>6. r \in Halves /\ recv # "closed"
    BY <1>1 DEF Halves
  <2> QED
    BY <2>2, <2>4, <2>5, <2>6, AcceptInv
<1> QED
  BY <1>2, <1>3, <1>4 DEF RecvResponse

\* Trailers, and HEADERS where none may come.
LEMMA RecvTrailersInv ==
    ASSUME StreamInv, InMap, PeerFrame, NEW block, NEW eof, RecvTrailers(block, eof)
    PROVE  StreamInv'
<1>1. CASE StreamError
  BY <1>1, StreamErrorInv DEF RecvTrailers, StreamInv, RemainingInv
<1>2. CASE /\ recv = "payload" /\ remaining \in {None, NoContent, 0}
           /\ Change("closed", send, disconnecting, Published("trailers", None))
  <2> DEFINE m == [kind |-> "trailers", len |-> None]
  <2>1. m \in Message /\ Published("trailers", None) = <<m>> /\ m.kind = "trailers"
    BY PublishedIs DEF Kinds
  <2> HIDE DEF m
  <2>2. recv' = "closed" /\ send' = send /\ remaining' = remaining
    BY <1>2 DEF Change, RecvTrailers
  <2>3. RemainingInv'
    BY <2>2 DEF StreamInv, RemainingInv, PeerFrame
  <2>4. ASSUME NEW f \in Response, Agrees(f), WellFormed(f, head), queue' = queue \o <<m>>
        PROVE  Publishes(f, m)
    <3>1. f.phase = "body" /\ (f.declared # None => f.got = f.declared)
      BY <1>2, <2>4 DEF Agrees, Response
    <3>2. After(f, m) = [f EXCEPT !.phase = "end"]
      BY <2>1, <3>1 DEF After
    <3>3. After(f, m) \in Response /\ WellFormed(After(f, m), head) /\ After(f, m).phase = "end"
      BY <2>4, <3>1, <3>2 DEF Response, Phases, WellFormed
    <3>4. Agrees(After(f, m))'
      BY <2>2, <3>3 DEF Agrees
    <3> QED
      BY <2>4, <3>3, <3>4 DEF Publishes
  <2>5. "closed" \in Halves /\ recv # "closed"
    BY <1>2 DEF Halves
  <2> QED
    BY <1>2, <2>1, <2>3, <2>4, <2>5, AcceptInv
<1> QED
  BY <1>1, <1>2 DEF RecvTrailers

\* HEADERS frames.
LEMMA RecvHeadersInv ==
    ASSUME StreamInv, RecvHeaders
    PROVE  StreamInv'
<1>1. InMap /\ PeerFrame
  BY DEF RecvHeaders, CanRecv, FrameUnchanged, PeerFrame, handleVars
<1>2. PICK block \in Blocks, len \in Lengths \union {None, Unparsed}, eof \in BOOLEAN :
        RecvResponse(block, len, eof) \/ RecvTrailers(block, eof)
  BY DEF RecvHeaders
<1> QED
  BY <1>1, <1>2, RecvResponseInv, RecvTrailersInv

\* DATA frames: the announced length is what was received and what remains.
LEMMA RecvDataInv ==
    ASSUME StreamInv, RecvData
    PROVE  StreamInv'
<1>1. InMap /\ PeerFrame
  BY DEF RecvData, CanRecv, FrameUnchanged, PeerFrame, handleVars
<1>2. PICK len \in Lengths, eof \in BOOLEAN :
        /\ remaining' = IF recv = "payload" THEN Left(len) ELSE remaining
        /\ IF recv # "payload" \/ WrongLength(len, eof) THEN StreamError
           ELSE IF eof THEN Change("closed", send, disconnecting, Published("eof_data", len))
           ELSE Change(recv, send, disconnecting, Published("data", len))
  BY DEF RecvData
<1>3. /\ len \in Nat /\ RemainingInv
      /\ remaining' \in {None, NoContent} \union Lengths
      /\ remaining' = NoContent <=> remaining = NoContent
  BY <1>2 DEF StreamInv, RemainingInv, Left, Lengths
<1>4. CASE recv # "payload" \/ WrongLength(len, eof)
  BY <1>1, <1>2, <1>3, <1>4, StreamErrorInv
<1>5. CASE recv = "payload" /\ ~WrongLength(len, eof)
  <2> DEFINE r == IF eof THEN "closed" ELSE "payload"
             m == [kind |-> IF eof THEN "eof_data" ELSE "data", len |-> len]
  <2>1. /\ m \in Message /\ m.kind = (IF eof THEN "eof_data" ELSE "data") /\ m.len = len
        /\ Change(r, send, disconnecting, <<m>>)
    BY <1>2, <1>5, PublishedIs DEF Kinds
  <2> HIDE DEF m
  <2>2. recv' = r /\ send' = send
    BY <2>1 DEF Change
  <2>3. RemainingInv'
    BY <1>1, <1>3, <2>2 DEF RemainingInv, PeerFrame
  <2>4. /\ remaining \in {None, NoContent} => remaining' = remaining
        /\ remaining = NoContent => len = 0
        /\ remaining \in Nat => remaining' \in Nat /\ remaining = remaining' + len /\ (eof => remaining' = 0)
    BY <1>2, <1>3, <1>5 DEF WrongLength, Left, RemainingInv, Lengths
  <2>5. ASSUME NEW f \in Response, Agrees(f), WellFormed(f, head), queue' = queue \o <<m>>
        PROVE  Publishes(f, m)
    <3>1. /\ f.phase = "body" /\ f.got \in Nat /\ f.declared \in Nat \union {None}
          /\ remaining \in {None, NoContent} => f.declared = None
          /\ remaining \in Nat => f.declared = f.got + remaining
      BY <1>5, <2>5 DEF Agrees, Response
    <3>2. /\ After(f, m).phase = (IF eof THEN "end" ELSE "body")
          /\ After(f, m).declared = f.declared /\ After(f, m).got = f.got + len
          /\ After(f, m) \in Response
      <4>1. CASE eof
        <5>1. After(f, m) = [f EXCEPT !.phase = "end", !.got = f.got + len]
          BY <2>1, <3>1, <4>1 DEF After, Response
        <5>2. f.got + len \in Nat
          BY <1>3, <3>1
        <5>3. After(f, m) = [phase |-> "end", declared |-> f.declared, got |-> f.got + len]
          BY <5>1 DEF Response
        <5> QED
          BY <3>1, <4>1, <5>2, <5>3 DEF Response, Phases
      <4>2. CASE ~eof
        <5>1. After(f, m) = [f EXCEPT !.got = f.got + len]
          BY <2>1, <3>1, <4>2 DEF After, Response
        <5> QED
          BY <1>3, <3>1, <4>2, <5>1 DEF Response, Phases
      <4> QED
        BY <4>1, <4>2
    <3>3. WellFormed(After(f, m), head)
      <4>1. remaining \in {None, NoContent} \union Nat
        BY <1>3 DEF RemainingInv, Lengths
      <4>2. head => f.got + len = 0
        BY <1>3, <2>4, <2>5, <3>1 DEF RemainingInv, WellFormed
      <4>3. f.declared # None => f.got + len <= f.declared /\ (eof => f.got + len = f.declared)
        BY <1>3, <2>4, <3>1, <4>1
      <4> QED
        BY <3>2, <4>2, <4>3 DEF WellFormed
    <3>4. Agrees(After(f, m))'
      <4>1. recv' = "payload" => ~eof
        BY <2>2
      <4>2. /\ remaining' \in {None, NoContent} => f.declared = None
            /\ remaining' \in Nat => f.declared = f.got + len + remaining'
        BY <1>3, <2>4, <3>1 DEF RemainingInv, Lengths
      <4> QED
        BY <1>3, <2>2, <3>1, <3>2, <4>1, <4>2 DEF Agrees
    <3> QED
      BY <2>5, <3>2, <3>3, <3>4 DEF Publishes
  <2>6. r \in Halves /\ recv # "closed"
    BY <1>5 DEF Halves
  <2> QED
    BY <1>1, <2>1, <2>3, <2>5, <2>6, AcceptInv
<1> QED
  BY <1>4, <1>5

\* Any other invalid frame.
LEMMA RecvInvalidInv ==
    ASSUME StreamInv, RecvInvalid
    PROVE  StreamInv'
<1>1. InMap /\ PeerFrame /\ StreamError /\ remaining' = remaining
  BY DEF RecvInvalid, CanRecv, FrameUnchanged, PeerFrame, handleVars
<1> QED
  BY <1>1, StreamErrorInv DEF StreamInv, RemainingInv

\* A step that publishes nothing, closes halves or leaves them as they are and
\* drops handles of closed halves only.
LEMMA QuietInv ==
    ASSUME StreamInv, HalvesInv', head' = head, response' = response, queue' = queue,
           remaining' = remaining, handles' \subseteq handles,
           recv' \in {recv, "closed"}, send' \in {send, "closed"},
           "recv" \notin handles' => recv' = "closed",
           "send" \notin handles' => send' = "closed",
           spawned' => ~InMap' /\ (spawned \/ InMap)
    PROVE  StreamInv'
<1>1. DroppedInv' /\ RemainingInv' /\ SpawnedInv'
  BY DEF StreamInv, DroppedInv, RemainingInv, SpawnedInv
<1>2. ASSUME NEW f \in Response, "recv" \in handles => Agrees(f), WellFormed(f, head)
      PROVE  QueueStep(f)
  <2>1. ~InMap => ~InMap'
    BY DEF InMap
  <2>2. "recv" \in handles' => Agrees(f)'
    BY <1>2, <2>1 DEF Agrees
  <2> QED
    BY <2>2 DEF QueueStep
<1> QED
  BY <1>1, <1>2, QueueStepInv DEF StreamInv

\* RST_STREAM: a complete response stays complete if the code is NO_ERROR.
LEMMA RecvRstInv ==
    ASSUME StreamInv, RecvRst
    PROVE  StreamInv'
<1>1. InMap /\ PeerFrame /\ remaining' = remaining
  BY DEF RecvRst, CanRecv, FrameUnchanged, PeerFrame, handleVars
<1>2. PICK no_error \in BOOLEAN :
         Change("closed", "closed", disconnecting,
                IF recv = "closed" /\ no_error THEN <<>> ELSE Published("error", None))
  BY DEF RecvRst
<1>3. CASE recv = "closed" /\ no_error
  <2>1. recv' = "closed" /\ send' = "closed" /\ queue' = queue /\ HalvesInv'
    BY <1>2, <1>3, ChangeQuiet DEF StreamInv, Halves
  <2>2. handles' \subseteq handles /\ head' = head /\ response' = response /\ ~spawned'
    BY <1>1 DEF PeerFrame, StreamInv, SpawnedInv
  <2> QED
    BY <1>1, <2>1, <2>2, QuietInv
<1>4. CASE ~(recv = "closed" /\ no_error)
  BY <1>1, <1>2, <1>4, StreamErrorInv DEF StreamError, StreamInv, RemainingInv
<1> QED
  BY <1>3, <1>4

-----------------------------------------------------------------------------
(* The connection. *)

\* GOAWAY, a stream the peer does not process is failed.
LEMMA RecvGoAwayInv ==
    ASSUME StreamInv, RecvGoAway
    PROVE  StreamInv'
<1>1. PICK processed \in BOOLEAN :
        IF processed \/ ~InMap
        THEN Change(recv, send, TRUE, <<>>) /\ UNCHANGED spawned
        ELSE Change("closed", "closed", TRUE, <<>>) /\ spawned' = TRUE
  BY DEF RecvGoAway
<1>2. /\ head' = head /\ response' = response /\ remaining' = remaining /\ handles' = handles
      /\ HalvesInv /\ recv \in Halves /\ send \in Halves /\ "closed" \in Halves
  BY DEF RecvGoAway, handleVars, StreamInv, HalvesInv, Halves
<1>3. CASE processed \/ ~InMap
  <2>1. recv' = recv /\ send' = send /\ queue' = queue /\ HalvesInv' /\ spawned' = spawned
    BY <1>1, <1>2, <1>3, ChangeQuiet
  <2> QED
    BY <1>2, <2>1, QuietInv DEF StreamInv, SpawnedInv, DroppedInv, InMap
<1>4. CASE ~(processed \/ ~InMap)
  <2>1. recv' = "closed" /\ send' = "closed" /\ queue' = queue /\ HalvesInv' /\ InMap
    BY <1>1, <1>2, <1>4, ChangeQuiet
  <2> QED
    BY <1>2, <2>1, QuietInv DEF InMap
<1> QED
  BY <1>3, <1>4

\* The dispatcher stops.
LEMMA StopInv ==
    ASSUME StreamInv, Stop
    PROVE  StreamInv'
<1>1. HalvesInv'
  BY DEF Stop, StreamInv, HalvesInv, Halves, queueVars
<1> QED
  BY <1>1, QuietInv DEF Stop, InMap, handleVars, queueVars

\* The Disconnect message: the response has not failed before.
LEMMA PublishDisconnectInv ==
    ASSUME StreamInv, PublishDisconnect
    PROVE  StreamInv'
<1> DEFINE m == [kind |-> "disconnect", len |-> None]
<1>1. m \in Message /\ Published("disconnect", None) = <<m>> /\ m.kind = "disconnect" /\ <<m>> # <<>>
  BY PublishedIs DEF Kinds
<1> HIDE DEF m
<1>2. /\ UNCHANGED <<head, recv, send, remaining, handles, response>>
      /\ queue' = IF "recv" \in handles THEN queue \o <<m>> ELSE queue
      /\ spawned /\ ~spawned'
  BY <1>1 DEF PublishDisconnect, streamVars, handleVars, queueVars, Push, Pushed
<1>3. /\ HalvesInv' /\ DroppedInv' /\ RemainingInv' /\ SpawnedInv'
  BY <1>1, <1>2 DEF StreamInv, HalvesInv, DroppedInv, RemainingInv, SpawnedInv
<1>4. ASSUME NEW f \in Response, "recv" \in handles => Agrees(f), WellFormed(f, head)
      PROVE  QueueStep(f)
  <2>1. CASE "recv" \notin handles
    BY <1>2, <2>1 DEF QueueStep
  <2>2. CASE "recv" \in handles
    <3>1. f.phase # "failed"
      BY <1>2, <1>4, <2>2 DEF Agrees
    <3>2. After(f, m) \in Response /\ WellFormed(After(f, m), head) /\ After(f, m).phase = "failed"
      BY <1>1, <1>4, <3>1, AfterError
    <3>3. Agrees(After(f, m))'
      BY <1>2, <3>2 DEF Agrees, InMap, StreamInv, SpawnedInv
    <3> QED
      BY <1>1, <1>2, <2>2, <3>2, <3>3 DEF QueueStep, Publishes
  <2> QED
    BY <2>1, <2>2
<1>5. QueueInv'
  BY <1>2, <1>4, QueueStepInv DEF StreamInv
<1> QED
  BY <1>3, <1>5 DEF StreamInv

\* The io closes.
LEMMA IoClosesInv ==
    ASSUME StreamInv, IoCloses
    PROVE  StreamInv'
<1>1. UNCHANGED <<head, recv, send, remaining, spawned, handles, queue, response>>
  BY DEF IoCloses, streamVars, handleVars, queueVars
<1>2. HalvesInv'
  BY <1>1 DEF StreamInv, HalvesInv
<1> QED
  BY <1>1, <1>2, QuietInv DEF StreamInv, DroppedInv, SpawnedInv, InMap

\* SimpleClient::close().
LEMMA DisconnectInv ==
    ASSUME StreamInv, Disconnect
    PROVE  StreamInv'
<1>1. HalvesInv /\ recv \in Halves /\ send \in Halves
  BY DEF StreamInv, HalvesInv
<1>2. recv' = recv /\ send' = send /\ queue' = queue /\ HalvesInv'
  BY <1>1, ChangeQuiet DEF Disconnect
<1>3. UNCHANGED <<head, remaining, spawned, handles, response>>
  BY DEF Disconnect, handleVars
<1> QED
  BY <1>2, <1>3, QuietInv DEF StreamInv, DroppedInv, SpawnedInv, InMap

-----------------------------------------------------------------------------
(* The user. *)

\* A reset by the user closes both halves and publishes nothing.
LEMMA LocalResetCloses ==
    ASSUME HalvesInv, NEW disc, LocalReset(disc)
    PROVE  recv' = "closed" /\ send' = "closed" /\ queue' = queue /\ HalvesInv'
<1>1. recv \in Halves /\ send \in Halves /\ "closed" \in Halves
  BY DEF HalvesInv, Halves
<1>2. CASE InMap
  BY <1>1, <1>2, ChangeQuiet DEF LocalReset
<1>3. CASE ~InMap
  BY <1>1, <1>3, ChangeQuiet DEF LocalReset, InMap
<1> QED
  BY <1>2, <1>3

\* The end of the request.
LEMMA SendEofInv ==
    ASSUME StreamInv, SendEof
    PROVE  StreamInv'
<1>1. HalvesInv /\ recv \in Halves /\ "closed" \in Halves
  BY DEF StreamInv, HalvesInv, Halves
<1>2. recv' = recv /\ send' = "closed" /\ queue' = queue /\ HalvesInv'
  BY <1>1, ChangeQuiet DEF SendEof
<1>3. UNCHANGED <<head, remaining, spawned, handles, response>>
  BY DEF SendEof, LocalUnchanged, handleVars
<1> QED
  BY <1>2, <1>3, QuietInv DEF StreamInv, DroppedInv, SpawnedInv, InMap

\* SendStream::reset().
LEMMA ResetInv ==
    ASSUME StreamInv, Reset
    PROVE  StreamInv'
<1>1. recv' = "closed" /\ send' = "closed" /\ queue' = queue /\ HalvesInv'
  BY LocalResetCloses DEF Reset, StreamInv
<1>2. UNCHANGED <<head, remaining, spawned, handles, response>>
  BY DEF Reset, LocalUnchanged, handleVars
<1> QED
  BY <1>1, <1>2, QuietInv DEF StreamInv, SpawnedInv, InMap

\* disconnect_on_drop().
LEMMA DisconnectOnDropInv ==
    ASSUME StreamInv, DisconnectOnDrop
    PROVE  StreamInv'
<1>1. UNCHANGED <<head, recv, send, remaining, spawned, handles, queue, response>>
  BY DEF DisconnectOnDrop, LocalUnchanged, streamVars, queueVars
<1>2. HalvesInv'
  BY <1>1 DEF StreamInv, HalvesInv
<1> QED
  BY <1>1, <1>2, QuietInv DEF StreamInv, DroppedInv, SpawnedInv, InMap

\* The SendStream is dropped.
LEMMA DropSendInv ==
    ASSUME StreamInv, DropSend
    PROVE  StreamInv'
<1>1. /\ UNCHANGED <<head, remaining, spawned, response>>
      /\ handles' = handles \ {"send"}
  BY DEF DropSend, LocalUnchanged
<1>2. CASE send # "closed"
  <2>1. recv' = "closed" /\ send' = "closed" /\ queue' = queue /\ HalvesInv'
    BY <1>2, LocalResetCloses DEF DropSend, StreamInv
  <2> QED
    BY <1>1, <2>1, QuietInv DEF StreamInv, SpawnedInv, InMap
<1>3. CASE send = "closed"
  <2>1. UNCHANGED <<recv, send, queue>>
    BY <1>3 DEF DropSend, queueVars
  <2>2. HalvesInv'
    BY <2>1 DEF StreamInv, HalvesInv
  <2> QED
    BY <1>1, <1>3, <2>1, <2>2, QuietInv DEF StreamInv, DroppedInv, SpawnedInv, InMap
<1> QED
  BY <1>2, <1>3

\* The RecvStream is dropped.
LEMMA DropRecvInv ==
    ASSUME StreamInv, DropRecv
    PROVE  StreamInv'
<1>1. /\ UNCHANGED <<head, remaining, spawned, response>>
      /\ handles' = handles \ {"recv"}
  BY DEF DropRecv, LocalUnchanged
<1>2. CASE \E disc : LocalReset(disc)
  <2>1. recv' = "closed" /\ send' = "closed" /\ queue' = queue /\ HalvesInv'
    BY <1>2, LocalResetCloses DEF StreamInv
  <2> QED
    BY <1>1, <2>1, QuietInv DEF StreamInv, SpawnedInv, InMap
<1>3. CASE recv = "closed" /\ UNCHANGED <<recv, send, queueVars>>
  <2>1. HalvesInv' /\ queue' = queue
    BY <1>3 DEF StreamInv, HalvesInv, queueVars
  <2> QED
    BY <1>1, <1>3, <2>1, QuietInv DEF StreamInv, DroppedInv, SpawnedInv, InMap
<1> QED
  BY <1>2, <1>3 DEF DropRecv

\* A poll of recv(): the user sees the first message of the queue.
LEMMA PollInv ==
    ASSUME StreamInv, Poll
    PROVE  StreamInv'
<1>1. UNCHANGED <<head, recv, send, remaining, spawned, handles>>
  BY DEF Poll, PollUnchanged, connVars, handleVars
<1>2. CASE queue' = queue /\ response' = response
  <2>1. HalvesInv'
    BY <1>1, <1>2 DEF StreamInv, HalvesInv
  <2> QED
    BY <1>1, <1>2, <2>1, QuietInv DEF StreamInv, DroppedInv, SpawnedInv, InMap
<1>3. CASE PollMessage
  <2>1. /\ queue \in Seq(Message) /\ queue # <<>>
        /\ queue' = Tail(queue) /\ response' = After(response, Head(queue))
    BY <1>3 DEF PollMessage, StreamInv, HalvesInv
  <2>2. HalvesInv' /\ DroppedInv' /\ RemainingInv' /\ SpawnedInv'
    BY <1>1, <2>1 DEF StreamInv, HalvesInv, DroppedInv, RemainingInv, SpawnedInv, InMap
  <2>3. PICK rs \in Seq(Response) :
          /\ Follows(rs, response, queue, head)
          /\ "recv" \in handles => Agrees(rs[Len(rs)])
    BY DEF StreamInv, QueueInv
  <2>4. /\ Tail(rs) \in Seq(Response)
        /\ Follows(Tail(rs), response', queue', head')
        /\ Tail(rs)[Len(Tail(rs))] = rs[Len(rs)]
    BY <1>1, <2>1, <2>3, FollowsPoll
  <2>5. "recv" \in handles' => Agrees(rs[Len(rs)])'
    BY <1>1, <2>3 DEF Agrees, InMap
  <2>6. QueueInv'
    BY <2>4, <2>5 DEF QueueInv
  <2> QED
    BY <2>2, <2>6 DEF StreamInv
<1> QED
  BY <1>2, <1>3 DEF Poll, PollEnd, PollPending, queueVars

\* The future of recv() is dropped.
LEMMA DropFutureInv ==
    ASSUME StreamInv, DropFuture
    PROVE  StreamInv'
<1>1. UNCHANGED <<head, recv, send, remaining, spawned, handles, queue, response>>
  BY DEF DropFuture, streamVars, connVars, handleVars, queueVars
<1>2. HalvesInv'
  BY <1>1 DEF StreamInv, HalvesInv
<1> QED
  BY <1>1, <1>2, QuietInv DEF StreamInv, DroppedInv, SpawnedInv, InMap

\* Stuttering.
LEMMA StutterInv ==
    ASSUME StreamInv, UNCHANGED vars
    PROVE  StreamInv'
<1>1. UNCHANGED <<head, recv, send, remaining, spawned, handles, queue, response>>
  BY DEF vars, streamVars, connVars, handleVars, queueVars
<1>2. HalvesInv'
  BY <1>1 DEF StreamInv, HalvesInv
<1> QED
  BY <1>1, <1>2, QuietInv DEF StreamInv, DroppedInv, SpawnedInv, InMap

-----------------------------------------------------------------------------
(* Theorems. *)

\* The stream that was just opened.
LEMMA InitInv ==
    ASSUME Init
    PROVE  StreamInv
<1>1. HalvesInv /\ DroppedInv /\ SpawnedInv
  BY DEF Init, HalvesInv, DroppedInv, SpawnedInv, Halves
<1>2. RemainingInv
  BY DEF Init, RemainingInv
<1> DEFINE rs == <<response>>
<1>3. /\ response \in Response /\ WellFormed(response, head)
      /\ response.phase = "start" /\ response.declared = None /\ response.got = 0
  BY DEF Init, Response, Phases, WellFormed
<1>4. rs \in Seq(Response) /\ Len(rs) = 1 /\ rs[1] = response
  BY <1>3
<1>5. queue = <<>> /\ Len(queue) = 0
  BY DEF Init
<1>6. Follows(rs, response, queue, head)
  BY <1>3, <1>4, <1>5 DEF Follows
<1>7. Agrees(rs[Len(rs)])
  BY <1>3, <1>4 DEF Agrees, Init
<1>8. QueueInv
  BY <1>4, <1>6, <1>7 DEF QueueInv
<1> QED
  BY <1>1, <1>2, <1>8 DEF StreamInv

\* client/stream.rs, stream.rs: the halves, the handles, the announced length
\* and the messages in the queue agree with each other in every state.
THEOREM StreamInvariant == Spec => []StreamInv
<1>1. Init => StreamInv
  BY InitInv
<1>2. StreamInv /\ [Next]_vars => StreamInv'
  BY RecvHeadersInv, RecvDataInv, RecvInvalidInv, RecvRstInv, RecvGoAwayInv,
     SendEofInv, ResetInv, DisconnectOnDropInv, DropSendInv, DropRecvInv, PollInv,
     DropFutureInv, DisconnectInv, StopInv, PublishDisconnectInv, IoClosesInv, StutterInv
  DEF Next, Peer, User, Recv, PollAgain
<1> QED
  BY <1>1, <1>2, PTL DEF Spec

\* stream.rs recv_headers, recv_data: whatever the peer sends and whenever the
\* user polls, recv() returns a response in the right order and of the
\* announced length.
THEOREM ResponsesWellFormed == Spec => []ResponseWellFormed
<1>1. StreamInv => ResponseWellFormed
  <2> SUFFICES ASSUME StreamInv PROVE ResponseWellFormed
    OBVIOUS
  <2>1. PICK rs \in Seq(Response) : Follows(rs, response, queue, head)
    BY DEF StreamInv, QueueInv
  <2>2. queue \in Seq(Message) /\ Len(queue) \in Nat
    BY DEF StreamInv, HalvesInv
  <2>3. 1 \in 1 .. Len(rs)
    BY <2>1, <2>2 DEF Follows
  <2>4. response \in Response /\ WellFormed(response, head)
    BY <2>1, <2>3 DEF Follows
  <2> QED
    BY <2>4 DEF ResponseWellFormed, WellFormed, Response, Phases
<1> QED
  BY <1>1, StreamInvariant, PTL

\* client/stream.rs, drop of SendStream and RecvStream: a stream without
\* handles is closed, in whatever order its halves and handles end.
THEOREM StreamsReleased == Spec => []HandlesRelease
<1>1. StreamInv => HandlesRelease
  BY DEF StreamInv, DroppedInv, HandlesRelease, InMap
<1> QED
  BY <1>1, StreamInvariant, PTL

=============================================================================
