-------------------------- MODULE ConnectionProofs --------------------------
(***************************************************************************)
(* Proofs about Connection for every number of streams, every limit, both  *)
(* roles and both settings of UNKNOWN_STREAMS, and about PendingResets,    *)
(* the set of recently reset streams it uses, for every set of ids, every  *)
(* MaxResets and every ResetDuration.                                      *)
(*                                                                         *)
(* The inductive invariant ConnInv has six parts.  StateOK: types.         *)
(* MapInv: map, halves, counter and io agree, and used ids are never used  *)
(* again.  AckInv: what the loop of the SETTINGS acknowledgment has left.  *)
(* GracefulInv: a graceful GOAWAY is followed by no new stream.  WireInv:  *)
(* the send half of a stream agrees with what the peer got.  MessageInv    *)
(* (with ClientCount): the receive half, the calls in flight and the loop  *)
(* agree with what was published.  The building blocks of the actions      *)
(* (dropping, closing and taking streams, publishing, writing, the turns   *)
(* of the loop) have a lemma for every part; an action is a step of the    *)
(* lemma of its part.                                                      *)
(*                                                                         *)
(* StateOK says nothing of rst_count and streams_count: their halving      *)
(* divides by powers of two, which the provers do not know.                *)
(***************************************************************************)
EXTENDS Connection, PendingResets, FiniteSetTheorems, SequenceTheorems, WellFoundedInduction, TLAPS

USE ConnAssumption
USE DEF ackVars

\* the map of streams and the recently reset ids
MapType ==
    /\ streams \subseteq Ids /\ pending \subseteq Ids
    /\ active \in Int
    /\ io_closed \in BOOLEAN

\* the halves and the error of every stream
HalfType ==
    /\ recv \in [Ids -> Halves] /\ send \in [Ids -> Halves]
    /\ serr \in [Ids -> Errors]

\* calls in flight and histories
HistoryType ==
    /\ calls \in [Ids -> Nat]
    /\ msg \in [Ids -> Messages]
    /\ wire \in [Ids -> Written]

\* the ids that were used
IdType ==
    /\ opened \subseteq Ids /\ late \subseteq Ids
    /\ last_id \in AnyId
    /\ next_id \in 1 .. MaxId + 1

\* the connection's error and the control call
FailType ==
    /\ con_error \in BOOLEAN
    /\ ctl \in {"idle", "close", "gone", "graceful", "done"}

\* flags
FlagType ==
    /\ config \in Configs
    /\ local_close \in [Ids -> BOOLEAN]
    /\ disconnecting \in BOOLEAN /\ go_away \in BOOLEAN
    /\ stopped \in BOOLEAN
    /\ failing \subseteq Ids /\ overflowed \subseteq Ids /\ muted \subseteq Ids
    /\ failer \in {"idle", "publish", "control"}
    /\ graceful \in AnyId \union {None}

\* TypeOK but for the counters of the reset limit
StateOK == MapType /\ HalfType /\ HistoryType /\ IdType /\ FailType /\ FlagType


-----------------------------------------------------------------------------
(* Types of the building blocks of the actions. *)

\* A message follows another one, the history stays in its type.
LEMMA MessageAfterType ==
    ASSUME NEW m \in Messages, NEW kind \in {"open", "eof", "error"}
    PROVE  MessageAfter(m, kind) \in Messages
  BY DEF MessageAfter, Messages

\* A frame follows another one, the history stays in its type.
LEMMA WriteAfterType ==
    ASSUME NEW w \in Written, NEW idle,
           NEW frame \in {"rst", "info", "head", "headEnd", "data", "dataEnd"}
    PROVE  WriteAfter(w, frame, idle) \in Written
  BY DEF WriteAfter, Written

\* publish() keeps the types of the calls in flight and of the messages.
LEMMA PublishType ==
    ASSUME HistoryType, NEW id \in Ids, NEW kind \in {"open", "eof", "error"}, Publish(id, kind)
    PROVE  calls' \in [Ids -> Nat] /\ msg' \in [Ids -> Messages]
  BY MessageAfterType DEF HistoryType, Publish

\* So does a Disconnect message for every stream of a set.
LEMMA PublishDisconnectType ==
    ASSUME HistoryType, NEW S, PublishDisconnect(S)
    PROVE  msg' \in [Ids -> Messages]
  BY MessageAfterType DEF HistoryType, PublishDisconnect

\* Writing a frame keeps the type of what the peer got.
LEMMA WriteType ==
    ASSUME HistoryType, NEW id,
           NEW frame \in {"rst", "info", "head", "headEnd", "data", "dataEnd"}, Write(id, frame)
    PROVE  wire' \in [Ids -> Written]
  BY WriteAfterType DEF HistoryType, Write

\* Pending::add() adds nothing but the ids it is given.
LEMMA PendingType ==
    ASSUME NEW base, base \subseteq Ids, NEW S, S \subseteq Ids, PendingAdds(base, S)
    PROVE  pending' \subseteq Ids
  BY DEF PendingAdds, Pending!After

\* drop_stream() keeps the types of the map.
LEMMA DropStreamType ==
    ASSUME MapType, NEW id \in Ids, NEW again \in BOOLEAN, DropStream(id, again)
    PROVE  MapType'
<1>1. pending' \subseteq Ids
  BY PendingType DEF MapType, DropStream
<1> QED
  BY <1>1 DEF MapType, DropStream, Closing

\* A change of the halves, with the review that may drop the stream, keeps
\* the types.
LEMMA SetHalvesType ==
    ASSUME MapType, HalfType, NEW id \in Ids, NEW r \in Halves, NEW s \in Halves,
           SetHalves(id, r, s)
    PROVE  MapType' /\ recv' \in [Ids -> Halves] /\ send' \in [Ids -> Halves]
<1>1. MapType'
  BY DropStreamType DEF SetHalves, MapType, mapVars
<1> QED
  BY <1>1 DEF SetHalves, HalfType

\* Closing a stream with an error keeps the types.
LEMMA CloseStreamType ==
    ASSUME MapType, HalfType, NEW id \in Ids, NEW err \in Errors, NEW again \in BOOLEAN,
           CloseStream(id, err, again)
    PROVE  MapType' /\ HalfType'
<1>1. MapType'
  BY DropStreamType DEF CloseStream
<1> QED
  BY <1>1 DEF CloseStream, HalfType, Halves

\* Calling the control service keeps the types.
LEMMA ControlType ==
    ASSUME FailType, io_closed \in BOOLEAN, NEW closes \in BOOLEAN, Control(closes)
    PROVE  ctl' \in {"idle", "close", "gone", "graceful", "done"} /\ io_closed' \in BOOLEAN
  BY DEF FailType, Control

\* take_streams() empties the map and sets the connection's error.
LEMMA TakeStreamsType ==
    ASSUME MapType, HalfType, NEW base, base \subseteq Ids, NEW gone, TakeStreams(base, gone)
    PROVE  HalfType' /\ streams' = {} /\ active' = 0 /\ pending' \subseteq Ids /\ con_error' = TRUE
<1>1. pending' \subseteq Ids
  BY PendingType DEF TakeStreams, MapType
<1> QED
  BY <1>1 DEF TakeStreams, HalfType, Halves, Errors

\* A connection error keeps the types.
LEMMA ConnFailType ==
    ASSUME MapType, HalfType, HistoryType, FailType, NEW gone, ConnFail(gone)
    PROVE  MapType' /\ HalfType' /\ FailType' /\ msg' \in [Ids -> Messages]
<1>1. HalfType' /\ streams' = {} /\ active' = 0 /\ pending' \subseteq Ids /\ con_error' = TRUE
  BY TakeStreamsType DEF ConnFail, MapType
<1>2. msg' \in [Ids -> Messages]
  BY PublishDisconnectType DEF ConnFail
<1>3. ctl' \in {"idle", "close", "gone", "graceful", "done"} /\ io_closed' \in BOOLEAN
  BY ControlType DEF ConnFail, MapType
<1> QED
  BY <1>1, <1>2, <1>3 DEF MapType, FailType

\* A stream error keeps the types.
LEMMA StreamErrorType ==
    ASSUME StateOK, NEW id \in Ids, StreamError(id), UNCHANGED frameFrame
    PROVE  StateOK'
<1>1. MapType' /\ HalfType'
  BY CloseStreamType DEF StreamError, StateOK, Errors
<1>2. HistoryType'
  BY PublishType, WriteType DEF StreamError, StateOK, HistoryType
<1> QED
  BY <1>1, <1>2 DEF StreamError, NoFailure, StateOK, frameFrame, idVars, flagVars,
       IdType, FailType, FlagType

\* A frame that fails the connection keeps the types.
LEMMA FrameFailsType ==
    ASSUME StateOK, FrameFails, UNCHANGED frameFrame
    PROVE  StateOK'
  BY ConnFailType DEF FrameFails, StateOK, frameFrame, idVars, flagVars, IdType, FlagType, HistoryType

\* An ignored frame keeps the types.
LEMMA IgnoredType ==
    ASSUME StateOK, Ignored, UNCHANGED frameFrame
    PROVE  StateOK'
  BY DEF Ignored, NoFailure, StateOK, frameFrame, idVars, flagVars, mapVars, halfVars,
       MapType, HalfType, HistoryType, IdType, FailType, FlagType

\* Answering a frame of a closed stream with RST_STREAM keeps the types.
LEMMA ResetClosedType ==
    ASSUME StateOK, NEW id, ResetClosed(id), UNCHANGED frameFrame
    PROVE  StateOK'
<1>1. HistoryType'
  BY WriteType DEF ResetClosed, StateOK, HistoryType
<1> QED
  BY <1>1 DEF ResetClosed, NoFailure, StateOK, frameFrame, idVars, flagVars, mapVars, halfVars,
       MapType, HalfType, IdType, FailType, FlagType

\* reset_unknown_stream() keeps the types, whether the limit is exceeded or not.
LEMMA ResetUnknownType ==
    ASSUME StateOK, NEW id \in Ids, NEW count, ResetUnknown(id, count)
    PROVE  MapType' /\ HalfType' /\ HistoryType' /\ FailType'
<1>1. CASE RstExceeded(count)
  BY <1>1, ConnFailType DEF ResetUnknown, StateOK, HistoryType
<1>2. CASE ~RstExceeded(count)
  <2>1. HistoryType'
    BY <1>2, WriteType DEF ResetUnknown, StateOK, HistoryType
  <2>2. pending' \subseteq Ids
    BY <1>2, PendingType DEF ResetUnknown, StateOK, MapType
  <2> QED
    BY <1>2, <2>1, <2>2 DEF ResetUnknown, NoFailure, StateOK, mapVars, halfVars,
         MapType, HalfType, FailType
<1> QED
  BY <1>1, <1>2

\* The map is finite.
LEMMA StreamsFinite ==
    ASSUME StateOK
    PROVE  IsFiniteSet(streams) /\ Cardinality(streams) \in Nat
<1>1. IsFiniteSet(Ids)
  BY FS_Interval DEF Ids
<1> QED
  BY <1>1, FS_Subset, FS_CardinalityType DEF StateOK, MapType

\* So are the streams that leave it, and the counter goes down by as many.
LEMMA StreamsLeave ==
    ASSUME StateOK, NEW S
    PROVE  /\ Cardinality(streams \intersect S) \in Nat
           /\ Cardinality(streams \ S) = Cardinality(streams) - Cardinality(streams \intersect S)
<1>1. IsFiniteSet(streams \intersect S)
  BY StreamsFinite, FS_Subset
<1> QED
  BY <1>1, StreamsFinite, FS_CardinalityType, FS_Difference

\* Turns of the loop of the SETTINGS acknowledgment keep the types.
LEMMA TurnsType ==
    ASSUME StateOK, NEW S, S \subseteq Ids, NEW closed \in BOOLEAN, Turns(S, closed)
    PROVE  MapType' /\ HalfType' /\ msg' \in [Ids -> Messages] /\ wire' \in [Ids -> Written]
<1>1. pending' \subseteq Ids
  <2>1. \E T : T \subseteq Ids /\ PendingAdds(pending, T)
    BY DEF Turns
  <2> QED
    BY <2>1, PendingType DEF StateOK, MapType
<1>2. active' \in Int
  BY StreamsLeave DEF Turns, StateOK, MapType
<1>3. MapType'
  BY <1>1, <1>2 DEF Turns, StateOK, MapType
<1>4. HalfType'
  BY DEF Turns, StateOK, HalfType, Halves, Errors
<1>5. msg' \in [Ids -> Messages] /\ wire' \in [Ids -> Written]
  BY MessageAfterType, WriteAfterType DEF Turns, StateOK, HistoryType
<1> QED
  BY <1>3, <1>4, <1>5

\* So does the step to the next turn.
LEMMA NextTurnType ==
    ASSUME StateOK, NEW closed \in BOOLEAN, NextTurn(closed),
           ctl' \in {"idle", "close", "gone", "graceful", "done"}
    PROVE  StateOK'
<1> USE DEF idVars, flagVars, mapVars, halfVars
<1>1. IdType' /\ FailType' /\ FlagType' /\ calls' \in [Ids -> Nat]
  BY DEF NextTurn, StateOK, IdType, FailType, FlagType, HistoryType
<1>2. MapType' /\ HalfType' /\ msg' \in [Ids -> Messages] /\ wire' \in [Ids -> Written]
  <2>1. CASE failing = {}
    BY <2>1 DEF NextTurn, StateOK, MapType, HalfType, HistoryType
  <2>2. CASE failing # {}
    <3>1. PICK id \in failing : Turns({id}, closed)
      BY <2>2 DEF NextTurn
    <3>2. {id} \subseteq Ids
      BY DEF StateOK, FlagType
    <3> QED
      BY <3>1, <3>2, TurnsType
  <2> QED
    BY <2>1, <2>2
<1> QED
  BY <1>1, <1>2 DEF StateOK, HistoryType

\* Every way the io dispatcher stops keeps the types.
LEMMA StopType ==
    ASSUME StateOK, Stop
    PROVE  StateOK'
<1>1. ASSUME TakeStreams(pending, {})
      PROVE  HalfType' /\ streams' = {} /\ active' = 0 /\ pending' \subseteq Ids /\ con_error' = TRUE
  BY <1>1, TakeStreamsType DEF StateOK, MapType
<1>2. ASSUME PublishDisconnect(streams)
      PROVE  msg' \in [Ids -> Messages]
  BY <1>2, PublishDisconnectType DEF StateOK
<1> USE DEF stopFrame, idVars, flagVars, StateOK, IdType, FlagType, MapType, HistoryType, FailType
<1>3. CASE StopCodec
  BY <1>3, ConnFailType DEF StopCodec
<1>4. CASE StopTimeout
  BY <1>1, <1>2, <1>4 DEF StopTimeout
<1>5. CASE StopIo
  BY <1>1, <1>2, <1>5 DEF StopIo
<1>6. CASE StopService
  BY <1>1, <1>2, <1>6 DEF StopService
<1>7. CASE PublishNotReady
  <2>1. io_closed' \in BOOLEAN /\ ctl' \in {"idle", "close", "gone", "graceful", "done"}
    BY <1>7, ControlType DEF PublishNotReady
  <2> QED
    BY <1>1, <1>7, <2>1 DEF PublishNotReady
<1>8. CASE DropDispatcher
  BY <1>1, <1>8 DEF DropDispatcher
<1> QED
  BY <1>3, <1>4, <1>5, <1>6, <1>7, <1>8 DEF Stop

\* The ends of service calls keep the types.
LEMMA ServiceType ==
    ASSUME StateOK, Service
    PROVE  StateOK'
<1> USE DEF idVars, flagVars, mapVars, halfVars, StateOK, IdType, FlagType, MapType, HalfType,
        HistoryType, FailType
<1>1. ASSUME NEW id \in Ids, PublishEnds(id)
      PROVE  StateOK'
  <2>1. HistoryType'
    BY <1>1, MessageAfterType DEF PublishEnds, publishFrame
  <2>2. local_close' \in [Ids -> BOOLEAN] /\ UNCHANGED publishFrame
    BY <1>1 DEF PublishEnds
  <2> QED
    BY <2>1, <2>2 DEF publishFrame
<1>2. ASSUME NEW id \in Ids, PublishFails(id)
      PROVE  StateOK'
  <2>1. io_closed' \in BOOLEAN /\ ctl' \in {"idle", "close", "gone", "graceful", "done"}
    BY <1>2, ControlType DEF PublishFails
  <2> QED
    BY <1>2, <2>1 DEF PublishFails
<1>3. ASSUME NEW ok \in BOOLEAN, ControlEnds(ok)
      PROVE  StateOK'
  BY <1>3 DEF ControlEnds
<1>4. CASE AckPublishEnds \/ AckPublishFails \/ AckControlEnds
  <2>1. CASE failer = "publish" /\ ctl = "idle" /\ failer' = "control"
    BY <1>4, <2>1 DEF AckPublishEnds, AckPublishFails, AckControlEnds, NextTurn
  <2>2. CASE ~(failer = "publish" /\ ctl = "idle" /\ failer' = "control")
    BY <1>4, <2>2, NextTurnType DEF AckPublishEnds, AckPublishFails, AckControlEnds
  <2> QED
    BY <2>1, <2>2
<1> QED
  BY <1>1, <1>2, <1>3, <1>4 DEF Service

\* The operations of the application keep the types.
LEMMA ApplicationType ==
    ASSUME StateOK, Application
    PROVE  StateOK'
<1> USE DEF StateOK, IdType, FlagType, FailType, idVars, flagVars, streamFrame
<1>1. ASSUME NEW eof \in BOOLEAN, SendRequest(eof)
      PROVE  StateOK'
  <2>1. wire' \in [Ids -> Written]
    BY <1>1, WriteType DEF SendRequest
  <2>2. IdType' /\ next_id \in Ids
    BY <1>1 DEF SendRequest, Ids
  <2>3. MapType' /\ HalfType'
    BY <1>1, <2>2 DEF SendRequest, MapType, HalfType, Halves
  <2> QED
    BY <1>1, <2>1, <2>2, <2>3 DEF SendRequest, HistoryType
<1>2. ASSUME NEW id \in Ids, NEW eof \in BOOLEAN, SendResponse(id, eof) \/ SendData(id, eof)
      PROVE  StateOK'
  <2>1. wire' \in [Ids -> Written]
    BY <1>2, WriteType DEF SendResponse, SendData
  <2>2. recv[id] \in Halves /\ (IF eof THEN "closed" ELSE "payload") \in Halves
    BY DEF HalfType, Halves
  <2>3. MapType' /\ HalfType'
    BY <1>2, <2>2, SetHalvesType DEF SendResponse, SendData, HalfType
  <2> QED
    BY <1>2, <2>1, <2>3 DEF SendResponse, SendData, HistoryType
<1>3. ASSUME NEW id \in Ids, SendTrailers(id)
      PROVE  StateOK'
  <2>1. wire' \in [Ids -> Written]
    BY <1>3, WriteType DEF SendTrailers
  <2>2. recv[id] \in Halves /\ "closed" \in Halves
    BY DEF HalfType, Halves
  <2>3. MapType' /\ HalfType'
    BY <1>3, <2>2, SetHalvesType DEF SendTrailers, HalfType
  <2> QED
    BY <1>3, <2>1, <2>3 DEF SendTrailers, HistoryType
<1>4. ASSUME NEW id \in Ids, SendInformational(id)
      PROVE  StateOK'
  <2>1. wire' \in [Ids -> Written]
    BY <1>4, WriteType DEF SendInformational
  <2> QED
    BY <1>4, <2>1 DEF SendInformational, HistoryType, MapType, HalfType, mapVars, halfVars
<1>5. ASSUME NEW id \in Ids, Reset(id) \/ CapacityTimeout(id)
      PROVE  StateOK'
  <2>1. wire' \in [Ids -> Written]
    BY <1>5, WriteType DEF Reset, CapacityTimeout
  <2>2. MapType' /\ HalfType'
    BY <1>5, CloseStreamType DEF Reset, CapacityTimeout, Errors
  <2>3. local_close' \in [Ids -> BOOLEAN] /\ muted' \subseteq Ids
    BY <1>5 DEF Reset, CapacityTimeout, LocalClose
  <2>4. UNCHANGED streamFrame
    BY <1>5 DEF Reset, CapacityTimeout
  <2> QED
    BY <2>1, <2>2, <2>3, <2>4 DEF HistoryType
<1>6. CASE DisconnectWhenReady
  BY <1>6 DEF DisconnectWhenReady, MapType, HalfType, HistoryType, mapVars, halfVars
<1> QED
  BY <1>1, <1>2, <1>3, <1>4, <1>5, <1>6 DEF Application

\* Every received frame keeps the types.
LEMMA RecvFrameType ==
    ASSUME StateOK, RecvFrame
    PROVE  StateOK'
<1>1. ASSUME NEW id \in Ids, NEW ok \in BOOLEAN, NEW eof \in BOOLEAN, HeadersOpen(id, ok, eof)
      PROVE  StateOK'
  <2>1. IdType'
    BY <1>1 DEF HeadersOpen, StateOK, IdType, AnyId, Ids
  <2>2. FailType' /\ FlagType'
    BY <1>1 DEF HeadersOpen, NoFailure, StateOK, FailType, FlagType, flagVars
  <2>3. CASE ok
    <3>1. calls' \in [Ids -> Nat] /\ msg' \in [Ids -> Messages]
      BY <1>1, <2>3, PublishType DEF HeadersOpen, StateOK
    <3>2. MapType' /\ HalfType'
      BY <1>1, <2>3 DEF HeadersOpen, StateOK, MapType, HalfType, Halves
    <3> QED
      BY <1>1, <2>1, <2>2, <2>3, <3>1, <3>2 DEF HeadersOpen, StateOK, HistoryType
  <2>4. CASE ~ok
    <3>1. HistoryType'
      BY <1>1, <2>4, PublishType, WriteType DEF HeadersOpen, StateOK, HistoryType
    <3>2. pending' \subseteq Ids
      BY <1>1, <2>4, PendingType DEF HeadersOpen, StateOK, MapType
    <3>3. MapType' /\ HalfType'
      BY <1>1, <2>4, <3>2 DEF HeadersOpen, StateOK, MapType, HalfType, Halves, Errors, mapVars
    <3> QED
      BY <2>1, <2>2, <3>1, <3>3 DEF StateOK
  <2> QED
    BY <2>3, <2>4
<1>2. ASSUME NEW id \in Ids, HeadersRefused(id)
      PROVE  StateOK'
  <2>1. wire' \in [Ids -> Written]
    BY <1>2, WriteType DEF HeadersRefused, StateOK
  <2>2. pending' \subseteq Ids
    BY <1>2, PendingType DEF HeadersRefused, StateOK, MapType
  <2>3. IdType'
    BY <1>2 DEF HeadersRefused, StateOK, IdType, AnyId, Ids
  <2> QED
    BY <1>2, <2>1, <2>2, <2>3 DEF HeadersRefused, NoFailure, StateOK, MapType, HalfType,
         HistoryType, FailType, FlagType, mapVars, halfVars, flagVars
<1>3. ASSUME NEW id \in Ids, NEW invalid \in BOOLEAN, HeadersRejected(id, invalid)
      PROVE  StateOK'
  <2>1. MapType' /\ HalfType' /\ HistoryType' /\ FailType'
    BY <1>3, ResetUnknownType DEF HeadersRejected
  <2>2. IdType'
    BY <1>3 DEF HeadersRejected, StateOK, IdType, AnyId, Ids
  <2> QED
    BY <1>3, <2>1, <2>2 DEF HeadersRejected, StateOK, FlagType, flagVars
<1>4. ASSUME NEW id \in AnyId, NEW invalid \in BOOLEAN, HeadersClosed(id, invalid)
      PROVE  StateOK'
  BY <1>4, IgnoredType, FrameFailsType DEF HeadersClosed
<1>5. ASSUME NEW id \in Ids, NEW invalid \in BOOLEAN, HeadersUnknown(id, invalid)
      PROVE  StateOK'
  <2>1. ASSUME ResetUnknown(id, streams_count)
        PROVE  StateOK'
    <3>1. MapType' /\ HalfType' /\ HistoryType' /\ FailType'
      BY <2>1, ResetUnknownType
    <3> QED
      BY <1>5, <3>1 DEF HeadersUnknown, frameFrame, idVars, flagVars, StateOK, IdType, FlagType
  <2> QED
    BY <1>5, <2>1, IgnoredType, FrameFailsType, ResetClosedType DEF HeadersUnknown
<1>6. ASSUME NEW id \in Ids, NEW r \in Halves, NEW kind \in {"open", "eof"},
             SetHalves(id, r, send[id]), Publish(id, kind), NoFailure,
             UNCHANGED <<serr, wire, frameFrame>>
      PROVE  StateOK'
  <2>1. send[id] \in Halves
    BY DEF StateOK, HalfType
  <2>2. MapType' /\ HalfType'
    BY <1>6, <2>1, SetHalvesType DEF StateOK, HalfType
  <2>3. HistoryType'
    BY <1>6, PublishType DEF StateOK, HistoryType
  <2> QED
    BY <1>6, <2>2, <2>3 DEF NoFailure, frameFrame, idVars, flagVars, StateOK, IdType,
         FailType, FlagType
<1>7. ASSUME NEW id \in Ids, NEW kind \in {"ok", "interim", "bad"}, NEW eof \in BOOLEAN,
             HeadersStream(id, kind, eof)
      PROVE  StateOK'
  <2>1. CASE \/ kind = "ok" /\ recv[id] = "idle"
             \/ kind = "ok" /\ recv[id] = "payload" /\ eof
    BY <1>6, <1>7, <2>1 DEF HeadersStream, Halves
  <2>2. CASE kind = "interim" /\ recv[id] = "idle" /\ ~eof
    <3>1. calls' \in [Ids -> Nat] /\ msg' \in [Ids -> Messages]
      BY <1>7, <2>2, PublishType DEF HeadersStream, StateOK
    <3> QED
      BY <1>7, <2>2, <3>1 DEF HeadersStream, NoFailure, frameFrame, idVars, flagVars, mapVars, halfVars,
           StateOK, MapType, HalfType, HistoryType, IdType, FailType, FlagType
  <2> QED
    BY <1>7, <2>1, <2>2, StreamErrorType DEF HeadersStream
<1>8. ASSUME NEW id \in Ids, InvalidStream(id)
      PROVE  StateOK'
  <2> USE DEF StateOK, IdType, FlagType, HistoryType, frameFrame, idVars, flagVars
  <2>1. CASE RstExceeded(streams_count)
    BY <1>8, <2>1, ConnFailType DEF InvalidStream
  <2>2. CASE ~RstExceeded(streams_count)
    <3>1. MapType' /\ HalfType'
      BY <1>8, <2>2, CloseStreamType DEF InvalidStream, Errors
    <3>2. HistoryType'
      BY <1>8, <2>2, PublishType, WriteType DEF InvalidStream
    <3> QED
      BY <1>8, <2>2, <3>1, <3>2 DEF InvalidStream, NoFailure, FailType
  <2> QED
    BY <2>1, <2>2
<1>9. ASSUME NEW id \in AnyId, NEW ok \in BOOLEAN, NEW eof \in BOOLEAN, RecvData(id, ok, eof)
      PROVE  StateOK'
  <2>1. CASE id \in streams /\ ok /\ recv[id] = "payload"
    <3>1. id \in Ids
      BY <2>1 DEF StateOK, MapType
    <3> QED
      BY <1>6, <1>9, <2>1, <3>1 DEF RecvData, Halves
  <2>2. CASE id \in streams /\ ~(ok /\ recv[id] = "payload")
    BY <1>9, <2>2, StreamErrorType DEF RecvData, StateOK, MapType
  <2>3. CASE id \notin streams
    BY <1>9, <2>3, IgnoredType, ResetClosedType, FrameFailsType DEF RecvData
  <2> QED
    BY <2>1, <2>2, <2>3
<1>10. ASSUME NEW id \in AnyId, NEW ok \in BOOLEAN, RecvWindowUpdate(id, ok)
       PROVE  StateOK'
  <2>1. CASE id \in streams
    BY <1>10, <2>1, IgnoredType, StreamErrorType DEF RecvWindowUpdate, StateOK, MapType
  <2>2. CASE id \notin streams
    BY <1>10, <2>2, IgnoredType, ResetClosedType, FrameFailsType DEF RecvWindowUpdate
  <2> QED
    BY <2>1, <2>2
<1>11. ASSUME NEW id \in Ids, NEW noerr \in BOOLEAN, RecvRst(id, noerr)
       PROVE  StateOK'
  <2> USE DEF StateOK, IdType, FlagType, HistoryType, frameFrame, idVars, flagVars
  <2>1. CASE ~server /\ recv[id] = "closed" /\ noerr
    <3>1. MapType' /\ HalfType'
      BY <1>11, <2>1, CloseStreamType DEF RecvRst, Errors
    <3> QED
      BY <1>11, <2>1, <3>1 DEF RecvRst, NoFailure, FailType
  <2>2. CASE ~(~server /\ recv[id] = "closed" /\ noerr) /\ RstExceeded(streams_count)
    BY <1>11, <2>2, ConnFailType DEF RecvRst
  <2>3. CASE ~(~server /\ recv[id] = "closed" /\ noerr) /\ ~RstExceeded(streams_count)
    <3>1. MapType' /\ HalfType'
      BY <1>11, <2>3, CloseStreamType DEF RecvRst, Errors
    <3>2. HistoryType'
      BY <1>11, <2>3, PublishType DEF RecvRst
    <3> QED
      BY <1>11, <2>3, <3>1, <3>2 DEF RecvRst, NoFailure, FailType
  <2> QED
    BY <2>1, <2>2, <2>3
<1>12. ASSUME NEW id \in Ids, RecvRstPending(id)
       PROVE  StateOK'
  <2> USE DEF StateOK, IdType, FlagType, HistoryType, frameFrame, idVars, flagVars
  <2>1. CASE RstExceeded(streams_count)
    <3>1. HalfType' /\ streams' = {} /\ active' = 0 /\ pending' \subseteq Ids /\ con_error' = TRUE
      BY <1>12, <2>1, TakeStreamsType DEF RecvRstPending, MapType
    <3>2. msg' \in [Ids -> Messages]
      BY <1>12, <2>1, PublishDisconnectType DEF RecvRstPending
    <3>3. ctl' \in {"idle", "close", "gone", "graceful", "done"} /\ io_closed' \in BOOLEAN
      BY <1>12, <2>1, ControlType DEF RecvRstPending, MapType
    <3> QED
      BY <1>12, <2>1, <3>1, <3>2, <3>3 DEF RecvRstPending, MapType, FailType
  <2>2. CASE ~RstExceeded(streams_count)
    BY <1>12, <2>2 DEF RecvRstPending, NoFailure, MapType, HalfType, FailType, mapVars, halfVars
  <2> QED
    BY <2>1, <2>2
<1>13. ASSUME NEW last \in AnyId, RecvGoAway(last)
       PROVE  StateOK'
  <2> DEFINE failed == IF server THEN {} ELSE {i \in streams : i > last}
  <2>1. failed \subseteq Ids /\ IsFiniteSet(failed) /\ Cardinality(failed) \in Nat
    <3>1. IsFiniteSet(Ids)
      BY FS_Interval DEF Ids
    <3>2. failed \subseteq Ids
      BY DEF StateOK, MapType
    <3> QED
      BY <3>1, <3>2, FS_Subset, FS_CardinalityType
  <2>2. pending' \subseteq Ids
    <3>1. ASSUME NEW i, PendingAdds(pending, failed \ {i})
          PROVE  pending' \subseteq Ids
      BY <2>1, <3>1, PendingType DEF StateOK, MapType
    <3>2. ASSUME PendingAdds(pending, failed)
          PROVE  pending' \subseteq Ids
      BY <2>1, <3>2, PendingType DEF StateOK, MapType
    <3> QED
      BY <1>13, <3>1, <3>2 DEF RecvGoAway
  <2>3. msg' \in [Ids -> Messages]
    BY <1>13, PublishDisconnectType DEF RecvGoAway, StateOK
  <2>4. MapType'
    BY <1>13, <2>1, <2>2 DEF RecvGoAway, StateOK, MapType
  <2>5. HalfType'
    BY <1>13 DEF RecvGoAway, StateOK, HalfType, Halves, Errors
  <2>6. FailType' /\ FlagType' /\ IdType'
    BY <1>13 DEF RecvGoAway, StateOK, FailType, FlagType, IdType, idVars
  <2> QED
    BY <1>13, <2>3, <2>4, <2>5, <2>6 DEF RecvGoAway, StateOK, HistoryType
<1>14. CASE RecvConnError
  BY <1>14, FrameFailsType DEF RecvConnError
<1>15. ASSUME NEW S \in SUBSET Ids, RecvAck(S)
       PROVE  StateOK'
  <2>1. PICK T \in SUBSET Ids : Turns(T, io_closed)
    BY <1>15 DEF RecvAck
  <2>2. MapType' /\ HalfType' /\ msg' \in [Ids -> Messages] /\ wire' \in [Ids -> Written]
    BY <2>1, TurnsType DEF StateOK, MapType
  <2>3. IdType' /\ FailType' /\ FlagType' /\ calls' \in [Ids -> Nat]
    BY <1>15 DEF RecvAck, StateOK, IdType, FailType, FlagType, HistoryType, idVars, flagVars
  <2> QED
    BY <2>2, <2>3 DEF StateOK, HistoryType
<1> QED
  BY <1>1, <1>2, <1>3, <1>4, <1>5, <1>7, <1>8, <1>9, <1>10, <1>11, <1>12, <1>13, <1>14, <1>15 DEF RecvFrame

-----------------------------------------------------------------------------
(* The map, the halves of the streams and the counter of active streams.   *)

\* the stream may still be opened
Unused(id) == IF server THEN id > last_id ELSE id >= next_id

\* a stream that was opened uses its id up
IdsOpened == \A id \in opened : ~Unused(id)

\* the halves of a stream that was never opened
UnopenedIdle == \A id \in Ids \ opened : recv[id] = "idle" /\ send[id] = "idle"

\* the map agrees with the halves, the counter and the io
MapInv == IdsOpened /\ UnopenedIdle /\ MapIsOpenStreams /\ ActiveMatches /\ DrainedIsClosed

\* no stream is opened by the step
KeepsIds ==
    /\ config' = config
    /\ opened' = opened
    /\ last_id <= last_id'
    /\ next_id' = next_id

\* Where no stream is opened, the ids in use stay in use.
LEMMA KeepsIdsOpened ==
    ASSUME StateOK, IdsOpened, StateOK', KeepsIds
    PROVE  IdsOpened' /\ server' = server
  BY DEF StateOK, IdType, AnyId, Ids, IdsOpened, KeepsIds, Unused, server

\* A step that leaves map and halves alone keeps the invariant of the map.
LEMMA SameMap ==
    ASSUME StateOK, MapInv, StateOK', KeepsIds, UNCHANGED <<mapVars, recv, send>>,
           DrainedIsClosed'
    PROVE  MapInv'
<1>1. IdsOpened' /\ server' = server
  BY KeepsIdsOpened DEF MapInv
<1> QED
  BY <1>1 DEF MapInv, KeepsIds, UnopenedIdle, MapIsOpenStreams, ActiveMatches, mapVars

\* drop_stream() of a stream in the map takes one from the counter.
LEMMA StreamDropped ==
    ASSUME StateOK, ActiveMatches, NEW id \in streams, NEW again, DropStream(id, again),
           config' = config
    PROVE  ActiveMatches'
<1>1. Cardinality(streams \ {id}) = Cardinality(streams) - 1 /\ Cardinality(streams) \in Nat
  BY StreamsFinite, FS_RemoveElement
<1>2. config.max \in Nat /\ active \in Int
  BY DEF StateOK, FlagType, MapType
<1> QED
  BY <1>1, <1>2 DEF DropStream, ActiveMatches, server

\* Closing a stream of the map removes it, counts it down, and closes the io
\* if a graceful disconnect waited for it.
LEMMA CloseStreamMap ==
    ASSUME StateOK, MapInv, StateOK', NEW id \in streams, NEW err, NEW again,
           CloseStream(id, err, again), KeepsIds, UNCHANGED <<disconnecting, con_error>>
    PROVE  MapInv'
<1>1. IdsOpened' /\ server' = server
  BY KeepsIdsOpened DEF MapInv
<1>2. ActiveMatches'
  BY StreamDropped DEF CloseStream, MapInv, KeepsIds
<1>3. id \in opened /\ id \in Ids
  BY DEF MapInv, MapIsOpenStreams, StateOK, MapType
<1>4. UnopenedIdle' /\ MapIsOpenStreams'
  BY <1>3 DEF CloseStream, DropStream, MapInv, UnopenedIdle, MapIsOpenStreams, KeepsIds,
       StateOK, HalfType, IdType
<1>5. DrainedIsClosed'
  BY DEF CloseStream, DropStream, Closing, MapInv, DrainedIsClosed
<1> QED
  BY <1>1, <1>2, <1>4, <1>5 DEF MapInv

\* A change of the halves removes the stream exactly when both are closed,
\* as review_state() does.
LEMMA SetHalvesMap ==
    ASSUME StateOK, MapInv, StateOK', NEW id \in streams, NEW r, NEW s,
           SetHalves(id, r, s), KeepsIds, UNCHANGED <<disconnecting, con_error>>
    PROVE  MapInv'
<1>1. IdsOpened' /\ server' = server
  BY KeepsIdsOpened DEF MapInv
<1>2. id \in opened /\ id \in Ids
  BY DEF MapInv, MapIsOpenStreams, StateOK, MapType
<1>3. UnopenedIdle' /\ MapIsOpenStreams'
  BY <1>2 DEF SetHalves, DropStream, MapInv, UnopenedIdle, MapIsOpenStreams, KeepsIds,
       StateOK, HalfType, IdType, mapVars
<1>4. ActiveMatches'
  <2>1. CASE r = "closed" /\ s = "closed"
    BY <2>1, StreamDropped DEF SetHalves, MapInv, KeepsIds
  <2>2. CASE ~(r = "closed" /\ s = "closed")
    BY <2>2, <1>1 DEF SetHalves, MapInv, ActiveMatches, mapVars, KeepsIds
  <2> QED
    BY <2>1, <2>2
<1>5. DrainedIsClosed'
  BY DEF SetHalves, DropStream, Closing, MapInv, DrainedIsClosed, mapVars
<1> QED
  BY <1>1, <1>3, <1>4, <1>5 DEF MapInv

\* take_streams() leaves an empty map, a zero counter and closed halves.
LEMMA TakeStreamsMap ==
    ASSUME StateOK, MapInv, StateOK', NEW base, NEW gone,
           TakeStreams(base, gone), KeepsIds
    PROVE  MapInv'
<1>1. IdsOpened' /\ server' = server
  BY KeepsIdsOpened DEF MapInv
<1>2. ActiveMatches'
  BY FS_EmptySet DEF TakeStreams, ActiveMatches, KeepsIds, StateOK, FlagType
<1>3. UnopenedIdle' /\ MapIsOpenStreams'
  BY DEF TakeStreams, MapInv, UnopenedIdle, MapIsOpenStreams, KeepsIds,
       StateOK, HalfType, IdType
<1>4. DrainedIsClosed'
  BY DEF TakeStreams, DrainedIsClosed
<1> QED
  BY <1>1, <1>2, <1>3, <1>4 DEF MapInv

\* No stream is opened where the ids do not change.
LEMMA FrameKeepsIds ==
    ASSUME StateOK, UNCHANGED <<idVars, config>>
    PROVE  KeepsIds
  BY DEF StateOK, IdType, AnyId, idVars, KeepsIds

\* A connection error keeps the invariant of the map.
LEMMA ConnFailMap ==
    ASSUME StateOK, MapInv, StateOK', NEW gone, ConnFail(gone), KeepsIds
    PROVE  MapInv'
  BY TakeStreamsMap DEF ConnFail

\* reset_unknown_stream() keeps the invariant of the map.
LEMMA ResetUnknownMap ==
    ASSUME StateOK, MapInv, StateOK', NEW id \in Ids, NEW count, ResetUnknown(id, count),
           KeepsIds, UNCHANGED disconnecting
    PROVE  MapInv'
<1>1. CASE RstExceeded(count)
  BY <1>1, ConnFailMap DEF ResetUnknown
<1>2. CASE ~RstExceeded(count)
  <2>1. DrainedIsClosed'
    BY <1>2 DEF ResetUnknown, NoFailure, MapInv, DrainedIsClosed, mapVars
  <2> QED
    BY <1>2, <2>1, SameMap DEF ResetUnknown, halfVars
<1> QED
  BY <1>1, <1>2

\* The loop of the SETTINGS acknowledgment has streams left that it was
\* given, and it was given streams of the map.
AckInv == failing \subseteq overflowed /\ failing \subseteq opened

\* Turns of the loop keep the invariant of the map, for a stream that is in
\* the map as well as for one that left it.
LEMMA TurnsMap ==
    ASSUME StateOK, MapInv, StateOK', NEW S, S \subseteq opened, NEW closed, io_closed => closed,
           Turns(S, closed), KeepsIds, UNCHANGED <<disconnecting, con_error>>
    PROVE  MapInv'
<1>1. IdsOpened' /\ server' = server
  BY KeepsIdsOpened DEF MapInv
<1>2. ActiveMatches'
  <2>1. streams' = streams \ S /\ active' = active - Cardinality(streams \intersect S) /\ config' = config
    BY DEF Turns, KeepsIds
  <2>2. config.max \in Nat /\ active \in Int
    BY DEF StateOK, FlagType, MapType
  <2>3. active = Cardinality(streams) /\ (server => active <= config.max)
    BY DEF MapInv, ActiveMatches
  <2>4. /\ Cardinality(streams \intersect S) \in Nat
        /\ Cardinality(streams \ S) = Cardinality(streams) - Cardinality(streams \intersect S)
    BY StreamsLeave
  <2>5. active' = Cardinality(streams') /\ active' <= active
    BY <2>1, <2>2, <2>3, <2>4
  <2>6. active' \in Int
    BY DEF StateOK, MapType
  <2>7. server' => active' <= config'.max
    BY <1>1, <2>1, <2>2, <2>3, <2>5, <2>6
  <2> QED
    BY <2>5, <2>7 DEF ActiveMatches
<1>3. UnopenedIdle' /\ MapIsOpenStreams'
  BY DEF Turns, MapInv, UnopenedIdle, MapIsOpenStreams, KeepsIds, StateOK, HalfType, IdType
<1>4. DrainedIsClosed'
  BY DEF Turns, MapInv, DrainedIsClosed
<1> QED
  BY <1>1, <1>2, <1>3, <1>4 DEF MapInv

\* Every received frame keeps the invariant of the map.
LEMMA RecvFrameMap ==
    ASSUME StateOK, MapInv, StateOK', RecvFrame
    PROVE  MapInv'
<1>1. ASSUME NEW id \in Ids, NEW ok \in BOOLEAN, NEW eof \in BOOLEAN, HeadersOpen(id, ok, eof)
      PROVE  MapInv'
  <2>1. id \notin opened /\ id \notin streams
    BY <1>1 DEF HeadersOpen, MapInv, IdsOpened, Unused, MapIsOpenStreams
  <2>2. config' = config /\ server /\ server'
    BY <1>1 DEF HeadersOpen, flagVars, server
  <2>3. IdsOpened'
    BY <1>1, <2>2 DEF HeadersOpen, MapInv, IdsOpened, Unused, StateOK, IdType, AnyId, Ids
  <2>4. UnopenedIdle' /\ MapIsOpenStreams'
    BY <1>1, <2>1 DEF HeadersOpen, MapInv, UnopenedIdle, MapIsOpenStreams, StateOK, HalfType,
         IdType, mapVars
  <2>5. ActiveMatches'
    <3>1. Cardinality(streams \union {id}) = Cardinality(streams) + 1 /\ Cardinality(streams) \in Nat
      BY <2>1, StreamsFinite, FS_AddElement
    <3>2. config.max \in Nat /\ active \in Int
      BY DEF StateOK, FlagType, MapType
    <3>3. active < config.max /\ active = Cardinality(streams)
      BY <1>1 DEF HeadersOpen, Accepts, MapInv, ActiveMatches
    <3>4. \/ streams' = streams \union {id} /\ active' = active + 1
          \/ streams' = streams /\ active' = active
      BY <1>1 DEF HeadersOpen, mapVars
    <3> QED
      BY <2>2, <3>1, <3>2, <3>3, <3>4 DEF ActiveMatches
  <2>6. DrainedIsClosed'
    BY <1>1 DEF HeadersOpen, Accepts, DrainedIsClosed, flagVars
  <2> QED
    BY <2>3, <2>4, <2>5, <2>6 DEF MapInv
<1>2. ASSUME NEW id \in Ids, HeadersRefused(id)
      PROVE  MapInv'
  <2>1. KeepsIds
    BY <1>2 DEF HeadersRefused, KeepsIds, StateOK, IdType, AnyId, Ids, flagVars
  <2>2. DrainedIsClosed'
    BY <1>2 DEF HeadersRefused, NoFailure, MapInv, DrainedIsClosed, mapVars, flagVars
  <2> QED
    BY <1>2, <2>1, <2>2, SameMap DEF HeadersRefused, halfVars
<1>3. ASSUME NEW id \in Ids, NEW invalid \in BOOLEAN, HeadersRejected(id, invalid)
      PROVE  MapInv'
  <2>1. KeepsIds
    BY <1>3 DEF HeadersRejected, KeepsIds, StateOK, IdType, AnyId, Ids, flagVars
  <2> QED
    BY <1>3, <2>1, ResetUnknownMap DEF HeadersRejected, flagVars
<1> USE DEF frameFrame, flagVars
<1>4. ASSUME UNCHANGED frameFrame
      PROVE  KeepsIds
  BY <1>4, FrameKeepsIds
<1>5. ASSUME UNCHANGED frameFrame, FrameFails
      PROVE  MapInv'
  BY <1>4, <1>5, ConnFailMap DEF FrameFails
<1>6. ASSUME UNCHANGED frameFrame, NEW id, Ignored \/ ResetClosed(id)
      PROVE  MapInv'
  <2>1. DrainedIsClosed'
    BY <1>6 DEF Ignored, ResetClosed, NoFailure, MapInv, DrainedIsClosed, mapVars
  <2> QED
    BY <1>4, <1>6, <2>1, SameMap DEF Ignored, ResetClosed, halfVars
<1>7. ASSUME UNCHANGED frameFrame, NEW id \in streams, StreamError(id)
      PROVE  MapInv'
  BY <1>4, <1>7, CloseStreamMap DEF StreamError, NoFailure
<1>8. ASSUME NEW id \in AnyId, NEW invalid \in BOOLEAN, HeadersClosed(id, invalid)
      PROVE  MapInv'
  BY <1>5, <1>6, <1>8 DEF HeadersClosed
<1>9. ASSUME NEW id \in Ids, NEW invalid \in BOOLEAN, HeadersUnknown(id, invalid)
      PROVE  MapInv'
  BY <1>4, <1>5, <1>6, <1>9, ResetUnknownMap DEF HeadersUnknown
<1>10. ASSUME NEW id \in Ids, NEW kind \in {"ok", "interim", "bad"}, NEW eof \in BOOLEAN,
              HeadersStream(id, kind, eof)
       PROVE  MapInv'
  <2>1. CASE \/ kind = "ok" /\ recv[id] = "idle"
             \/ kind = "ok" /\ recv[id] = "payload" /\ eof
    BY <1>4, <1>10, <2>1, SetHalvesMap DEF HeadersStream, NoFailure
  <2>2. CASE kind = "interim" /\ recv[id] = "idle" /\ ~eof
    <3>1. DrainedIsClosed'
      BY <1>10, <2>2 DEF HeadersStream, NoFailure, MapInv, DrainedIsClosed, mapVars
    <3> QED
      BY <1>4, <1>10, <2>2, <3>1, SameMap DEF HeadersStream, halfVars
  <2> QED
    BY <1>7, <1>10, <2>1, <2>2 DEF HeadersStream
<1>11. ASSUME NEW id \in Ids, InvalidStream(id)
       PROVE  MapInv'
  BY <1>4, <1>11, ConnFailMap, CloseStreamMap DEF InvalidStream, NoFailure
<1>12. ASSUME NEW id \in AnyId, NEW ok \in BOOLEAN, NEW eof \in BOOLEAN, RecvData(id, ok, eof)
       PROVE  MapInv'
  <2>1. CASE id \in streams /\ ok /\ recv[id] = "payload"
    BY <1>4, <1>12, <2>1, SetHalvesMap DEF RecvData, NoFailure
  <2> QED
    BY <1>5, <1>6, <1>7, <1>12, <2>1 DEF RecvData
<1>13. ASSUME NEW id \in AnyId, NEW ok \in BOOLEAN, RecvWindowUpdate(id, ok)
       PROVE  MapInv'
  BY <1>5, <1>6, <1>7, <1>13 DEF RecvWindowUpdate
<1>14. ASSUME NEW id \in Ids, NEW noerr \in BOOLEAN, RecvRst(id, noerr)
       PROVE  MapInv'
  BY <1>4, <1>14, ConnFailMap, CloseStreamMap DEF RecvRst, NoFailure
<1>15. ASSUME NEW id \in Ids, RecvRstPending(id)
       PROVE  MapInv'
  <2>1. CASE RstExceeded(streams_count)
    BY <1>4, <1>15, <2>1, TakeStreamsMap DEF RecvRstPending
  <2>2. CASE ~RstExceeded(streams_count)
    <3>1. DrainedIsClosed'
      BY <1>15, <2>2 DEF RecvRstPending, NoFailure, MapInv, DrainedIsClosed, mapVars
    <3> QED
      BY <1>4, <1>15, <2>2, <3>1, SameMap DEF RecvRstPending, halfVars
  <2> QED
    BY <2>1, <2>2
<1>16. ASSUME NEW last \in AnyId, RecvGoAway(last)
       PROVE  MapInv'
  <2> DEFINE failed == IF server THEN {} ELSE {i \in streams : i > last}
  <2>1. KeepsIds
    BY <1>16, FrameKeepsIds DEF RecvGoAway
  <2>2. IdsOpened' /\ server' = server
    BY <2>1, KeepsIdsOpened DEF MapInv
  <2>3. UnopenedIdle' /\ MapIsOpenStreams'
    BY <1>16, <2>1 DEF RecvGoAway, MapInv, UnopenedIdle, MapIsOpenStreams, KeepsIds,
         StateOK, HalfType, IdType
  <2>4. ActiveMatches'
    <3>1. IsFiniteSet(failed) /\ Cardinality(failed) \in Nat
      BY StreamsFinite, FS_Subset, FS_CardinalityType
    <3>2. Cardinality(streams \ failed) = Cardinality(streams) - Cardinality(failed)
      <4>1. streams \intersect failed = failed
        OBVIOUS
      <4> QED
        BY <4>1, StreamsFinite, FS_Difference
    <3>3. active' = active - Cardinality(failed) /\ streams' = streams \ failed
      BY <1>16 DEF RecvGoAway
    <3>4. config.max \in Nat /\ active \in Int /\ config' = config
      BY <2>1 DEF StateOK, FlagType, MapType, KeepsIds
    <3> QED
      BY <2>2, <3>1, <3>2, <3>3, <3>4 DEF MapInv, ActiveMatches
  <2>5. DrainedIsClosed'
    BY <1>16 DEF RecvGoAway, DrainedIsClosed
  <2> QED
    BY <2>2, <2>3, <2>4, <2>5 DEF MapInv
<1>17. CASE RecvConnError
  BY <1>5, <1>17 DEF RecvConnError
<1>18. ASSUME NEW S \in SUBSET Ids, RecvAck(S)
       PROVE  MapInv'
  <2>1. S \subseteq opened
    BY <1>18 DEF RecvAck, MapInv, MapIsOpenStreams
  <2>2. PICK T : T \subseteq S /\ Turns(T, io_closed)
    BY <1>18 DEF RecvAck
  <2>3. KeepsIds /\ UNCHANGED <<disconnecting, con_error>>
    BY <1>18, FrameKeepsIds DEF RecvAck, flagVars
  <2> QED
    BY <2>1, <2>2, <2>3, TurnsMap
<1> QED
  BY <1>1, <1>2, <1>3, <1>8, <1>9, <1>10, <1>11, <1>12, <1>13, <1>14, <1>15, <1>16, <1>17, <1>18 DEF RecvFrame

\* Every operation of the application keeps it: an operation on a stream with
\* an open half finds the stream in the map.
LEMMA ApplicationMap ==
    ASSUME StateOK, MapInv, StateOK', Application
    PROVE  MapInv'
<1>1. ASSUME NEW id \in opened, recv[id] # "closed" \/ send[id] # "closed"
      PROVE  id \in streams
  BY <1>1 DEF MapInv, MapIsOpenStreams
<1> USE DEF streamFrame, flagVars
<1>2. ASSUME UNCHANGED streamFrame
      PROVE  KeepsIds
  BY <1>2, FrameKeepsIds
<1>3. ASSUME NEW eof \in BOOLEAN, SendRequest(eof)
      PROVE  MapInv'
  <2>1. next_id \in Ids /\ next_id \notin opened /\ next_id \notin streams
    BY <1>3 DEF SendRequest, MapInv, IdsOpened, Unused, MapIsOpenStreams, Ids
  <2>2. config' = config /\ ~server /\ ~server'
    BY <1>3 DEF SendRequest, server
  <2>3. IdsOpened'
    BY <1>3, <2>2 DEF SendRequest, MapInv, IdsOpened, Unused, StateOK, IdType, Ids
  <2>4. UnopenedIdle' /\ MapIsOpenStreams'
    BY <1>3, <2>1 DEF SendRequest, MapInv, UnopenedIdle, MapIsOpenStreams, StateOK, HalfType, IdType
  <2>5. ActiveMatches'
    BY <1>3, <2>1, <2>2, StreamsFinite, FS_AddElement DEF SendRequest, MapInv, ActiveMatches
  <2>6. DrainedIsClosed'
    BY <1>3 DEF SendRequest, DrainedIsClosed
  <2> QED
    BY <2>3, <2>4, <2>5, <2>6 DEF MapInv
<1>4. ASSUME NEW id \in Ids, NEW eof \in BOOLEAN, SendResponse(id, eof) \/ SendData(id, eof)
      PROVE  MapInv'
  BY <1>1, <1>2, <1>4, SetHalvesMap DEF SendResponse, SendData, CanSend
<1>5. ASSUME NEW id \in Ids, SendTrailers(id)
      PROVE  MapInv'
  BY <1>1, <1>2, <1>5, SetHalvesMap DEF SendTrailers
<1>6. ASSUME NEW id \in Ids, SendInformational(id)
      PROVE  MapInv'
  <2>1. DrainedIsClosed'
    BY <1>6 DEF SendInformational, MapInv, DrainedIsClosed, mapVars
  <2> QED
    BY <1>2, <1>6, <2>1, SameMap DEF SendInformational, halfVars
<1>7. ASSUME NEW id \in Ids, Reset(id) \/ CapacityTimeout(id)
      PROVE  MapInv'
  BY <1>1, <1>2, <1>7, CloseStreamMap DEF Reset, CapacityTimeout
<1>8. CASE DisconnectWhenReady
  <2>1. DrainedIsClosed'
    BY <1>8 DEF DisconnectWhenReady, DrainedIsClosed, mapVars
  <2> QED
    BY <1>8, <2>1, FrameKeepsIds, SameMap DEF DisconnectWhenReady, halfVars
<1> QED
  BY <1>3, <1>4, <1>5, <1>6, <1>7, <1>8 DEF Application

\* The ends of service calls keep it.
LEMMA ServiceMap ==
    ASSUME StateOK, MapInv, AckInv, StateOK', Service
    PROVE  MapInv'
<1> USE DEF flagVars, halfVars
<1>1. ASSUME NEW id \in Ids, PublishEnds(id) \/ PublishFails(id)
      PROVE  MapInv'
  <2>1. DrainedIsClosed'
    BY <1>1 DEF PublishEnds, PublishFails, publishFrame, Control, MapInv, DrainedIsClosed, mapVars
  <2> QED
    BY <1>1, <2>1, FrameKeepsIds, SameMap DEF PublishEnds, PublishFails, publishFrame
<1>2. ASSUME NEW ok \in BOOLEAN, ControlEnds(ok)
      PROVE  MapInv'
  <2>1. DrainedIsClosed'
    BY <1>2 DEF ControlEnds, MapInv, DrainedIsClosed, mapVars
  <2> QED
    BY <1>2, <2>1, FrameKeepsIds, SameMap DEF ControlEnds
<1>3. ASSUME NEW closed \in BOOLEAN, io_closed => closed, NextTurn(closed)
      PROVE  MapInv'
  <2>1. KeepsIds /\ UNCHANGED <<disconnecting, con_error>>
    BY <1>3, FrameKeepsIds DEF NextTurn
  <2>2. CASE failing = {}
    <3>1. DrainedIsClosed'
      BY <1>3, <2>1, <2>2 DEF NextTurn, MapInv, DrainedIsClosed, mapVars
    <3> QED
      BY <1>3, <2>1, <2>2, <3>1, SameMap DEF NextTurn
  <2>3. CASE failing # {}
    <3>1. PICK id \in failing : Turns({id}, closed)
      BY <1>3, <2>3 DEF NextTurn
    <3>2. {id} \subseteq opened
      BY DEF AckInv
    <3> QED
      BY <1>3, <2>1, <3>1, <3>2, TurnsMap
  <2> QED
    BY <2>2, <2>3
<1>4. CASE AckPublishEnds \/ AckPublishFails \/ AckControlEnds
  <2>1. CASE failer = "publish" /\ ctl = "idle" /\ failer' = "control"
    <3>1. UNCHANGED <<mapVars, idVars, halfVars, flagVars, con_error, io_closed>>
      BY <1>4, <2>1 DEF AckPublishEnds, AckPublishFails, AckControlEnds, NextTurn
    <3>2. DrainedIsClosed'
      BY <3>1 DEF MapInv, DrainedIsClosed, mapVars
    <3> QED
      BY <3>1, <3>2, FrameKeepsIds, SameMap
  <2>2. CASE ~(failer = "publish" /\ ctl = "idle" /\ failer' = "control")
    BY <1>3, <1>4, <2>2 DEF AckPublishEnds, AckPublishFails, AckControlEnds, StateOK, MapType
  <2> QED
    BY <2>1, <2>2
<1> QED
  BY <1>1, <1>2, <1>4 DEF Service

\* Every step keeps what the loop knows of its streams.
LEMMA AckStep ==
    ASSUME MapInv, AckInv, [Next]_vars
    PROVE  AckInv'
<1> USE DEF AckInv, idVars
<1>1. ASSUME NEW S \in SUBSET Ids, RecvAck(S)
      PROVE  AckInv'
  <2>1. S \subseteq opened /\ failing = {}
    BY <1>1 DEF RecvAck, MapInv, MapIsOpenStreams
  <2> QED
    BY <1>1, <2>1 DEF RecvAck
<1>2. ASSUME UNCHANGED ackVars, opened \subseteq opened'
      PROVE  AckInv'
  BY <1>2
<1>3. CASE RecvFrame
  BY <1>1, <1>2, <1>3 DEF RecvFrame, frameFrame, HeadersOpen, HeadersRefused, HeadersRejected, HeadersClosed,
       HeadersUnknown, HeadersStream, InvalidStream, RecvRstPending, RecvData, RecvWindowUpdate,
       RecvRst, RecvGoAway, RecvConnError
<1>4. CASE Application
  BY <1>2, <1>4 DEF Application, streamFrame, SendRequest, SendResponse, SendData, SendInformational,
       SendTrailers, Reset, CapacityTimeout, DisconnectWhenReady
<1>5. CASE Service
  BY <1>2, <1>5 DEF Service, PublishEnds, publishFrame, PublishFails, ControlEnds, AckPublishEnds,
       AckPublishFails, AckControlEnds, NextTurn
<1>6. CASE Stop
  BY <1>2, <1>6 DEF Stop, stopFrame, StopCodec, StopTimeout, StopIo, StopService, PublishNotReady,
       DropDispatcher
<1>7. CASE UNCHANGED vars
  BY <1>2, <1>7 DEF vars
<1> QED
  BY <1>3, <1>4, <1>5, <1>6, <1>7 DEF Next

\* Every way the io dispatcher stops keeps it.
LEMMA StopMap ==
    ASSUME StateOK, MapInv, StateOK', Stop
    PROVE  MapInv'
<1>1. UNCHANGED stopFrame /\ \E gone : TakeStreams(pending, gone)
  BY DEF Stop, StopCodec, StopTimeout, StopIo, StopService, PublishNotReady, DropDispatcher, ConnFail
<1> QED
  BY <1>1, FrameKeepsIds, TakeStreamsMap DEF stopFrame, flagVars

-----------------------------------------------------------------------------
(* The graceful GOAWAY frame. *)

\* the graceful GOAWAY is written by a connection that disconnects
GracefulInv == (graceful # None => disconnecting) /\ GracefulGoAway

\* No step opens a stream once the graceful GOAWAY frame is written, and the
\* frame names the last id used so far.
LEMMA GracefulStep ==
    ASSUME StateOK, IdsOpened, GracefulInv, [Next]_vars
    PROVE  GracefulInv'
<1> USE DEF GracefulInv, GracefulGoAway, idVars, flagVars
<1>1. ASSUME NEW id \in Ids, NEW ok \in BOOLEAN, NEW eof \in BOOLEAN, HeadersOpen(id, ok, eof)
      PROVE  GracefulInv'
  BY <1>1 DEF HeadersOpen, Accepts
<1>2. ASSUME NEW eof \in BOOLEAN, SendRequest(eof)
      PROVE  GracefulInv'
  BY <1>2 DEF SendRequest
<1>3. ASSUME opened' = opened, disconnecting',
             graceful' = IF WritesGraceful THEN last_id ELSE graceful
      PROVE  GracefulInv'
  BY <1>3 DEF WritesGraceful, IdsOpened, Unused, StateOK, IdType, AnyId, Ids
<1>4. ASSUME NEW last \in AnyId, RecvGoAway(last)
      PROVE  GracefulInv'
  BY <1>3, <1>4 DEF RecvGoAway
<1>5. CASE DisconnectWhenReady
  BY <1>3, <1>5 DEF DisconnectWhenReady
<1>6. ASSUME UNCHANGED <<opened, disconnecting, graceful>>
      PROVE  GracefulInv'
  BY <1>6
<1>7. CASE RecvFrame
  BY <1>1, <1>4, <1>6, <1>7 DEF RecvFrame, frameFrame, HeadersRefused, HeadersRejected, HeadersClosed,
       HeadersUnknown, HeadersStream, InvalidStream, RecvRstPending, RecvData, RecvWindowUpdate,
       RecvRst, RecvAck, RecvConnError
<1>8. CASE Application
  BY <1>2, <1>5, <1>6, <1>8 DEF Application, streamFrame, SendResponse, SendData, SendInformational,
       SendTrailers, Reset, CapacityTimeout
<1>9. CASE Service
  BY <1>6, <1>9 DEF Service, PublishEnds, publishFrame, PublishFails, ControlEnds, AckPublishEnds,
       AckPublishFails, AckControlEnds, NextTurn
<1>10. CASE Stop
  BY <1>6, <1>10 DEF Stop, stopFrame, StopCodec, StopTimeout, StopIo, StopService, PublishNotReady,
       DropDispatcher
<1>11. CASE UNCHANGED vars
  BY <1>6, <1>11 DEF vars
<1> QED
  BY <1>7, <1>8, <1>9, <1>10, <1>11 DEF Next

-----------------------------------------------------------------------------
(* The frames written for a stream. *)

\* the send half and what the peer got agree: nothing before the headers, and
\* no end while the payload is sent
WireMatches ==
    \A id \in Ids :
        /\ Unused(id) \/ (id \in opened /\ send[id] = "idle") => wire[id] \in {"none", "idleReset"}
        /\ id \in opened /\ send[id] = "payload" => wire[id] = "head"

WireInv == WireMatches /\ WireOrder

\* the step closes send halves at most
SendOnlyCloses == \A id \in Ids : send'[id] \in {send[id], "closed"}

\* Where no stream is opened, ids only become used; the id of a frame is idle
\* exactly if it is unused after the step.
LEMMA UnusedShrinks ==
    ASSUME StateOK, StateOK', KeepsIds, NEW id \in Ids
    PROVE  (Unused(id)' => Unused(id)) /\ (Unused(id)' <=> Idle(id))
  BY DEF StateOK, IdType, AnyId, Ids, KeepsIds, Unused, server, Idle

\* A step that writes nothing and at most closes send halves keeps the order.
LEMMA WireKept ==
    ASSUME StateOK, StateOK', WireInv, KeepsIds, SendOnlyCloses, wire' = wire
    PROVE  WireInv'
  BY UnusedShrinks DEF WireInv, WireMatches, WireOrder, SendOnlyCloses, KeepsIds

\* RST_STREAM keeps the order, because the send half of a stream that was
\* opened is closed with it.
LEMMA WireReset ==
    ASSUME StateOK, StateOK', WireInv, KeepsIds, SendOnlyCloses, NEW id,
           Write(id, "rst"), id \in opened => send'[id] = "closed"
    PROVE  WireInv'
<1> SUFFICES ASSUME NEW i \in Ids
             PROVE  /\ Unused(i)' \/ (i \in opened' /\ send'[i] = "idle") => wire'[i] \in {"none", "idleReset"}
                    /\ i \in opened' /\ send'[i] = "payload" => wire'[i] = "head"
                    /\ wire'[i] # "bad"
  BY DEF WireInv, WireMatches, WireOrder
<1>1. CASE i = id
  BY <1>1, UnusedShrinks DEF Write, WriteAfter, KeepsIds
<1>2. CASE i # id
  BY <1>2, UnusedShrinks DEF Write, WireInv, WireMatches, WireOrder, SendOnlyCloses, KeepsIds
<1> QED
  BY <1>1, <1>2

\* Closing a stream with an error closes its send half.
LEMMA CloseStreamSend ==
    ASSUME StateOK, NEW id, NEW err, NEW again, CloseStream(id, err, again)
    PROVE  SendOnlyCloses /\ (id \in Ids => send'[id] = "closed")
  BY DEF CloseStream, SendOnlyCloses, StateOK, HalfType

\* take_streams() at most closes send halves.
LEMMA TakeStreamsSend ==
    ASSUME StateOK, NEW base, NEW gone, TakeStreams(base, gone)
    PROVE  SendOnlyCloses
  BY DEF TakeStreams, SendOnlyCloses, StateOK, HalfType

\* reset_unknown_stream() keeps the order.
LEMMA ResetUnknownWire ==
    ASSUME StateOK, MapInv, StateOK', WireInv, NEW id \in Ids, id \notin streams, NEW count,
           ResetUnknown(id, count), KeepsIds
    PROVE  WireInv'
<1>1. id \in opened => send[id] = "closed"
  BY DEF MapInv, MapIsOpenStreams
<1>2. CASE RstExceeded(count)
  BY <1>2, TakeStreamsSend, WireKept DEF ResetUnknown, ConnFail
<1>3. CASE ~RstExceeded(count)
  BY <1>1, <1>3, WireReset DEF ResetUnknown, halfVars, SendOnlyCloses
<1> QED
  BY <1>2, <1>3

\* Turns of the loop of the SETTINGS acknowledgment keep it: the send halves
\* of their streams are closed.
LEMMA TurnsWire ==
    ASSUME StateOK, MapInv, StateOK', WireInv, KeepsIds, NEW S, S \subseteq opened, NEW closed,
           Turns(S, closed)
    PROVE  WireInv'
<1> SUFFICES ASSUME NEW i \in Ids
             PROVE  /\ Unused(i)' \/ (i \in opened' /\ send'[i] = "idle") => wire'[i] \in {"none", "idleReset"}
                    /\ i \in opened' /\ send'[i] = "payload" => wire'[i] = "head"
                    /\ wire'[i] # "bad"
  BY DEF WireInv, WireMatches, WireOrder
<1>1. CASE i \in S
  <2>1. wire'[i] = "reset" /\ send'[i] = "closed"
    BY <1>1 DEF Turns, WriteAfter
  <2>2. ~Unused(i)'
    BY <1>1, UnusedShrinks DEF MapInv, IdsOpened
  <2> QED
    BY <2>1, <2>2
<1>2. CASE i \notin S
  BY <1>2, UnusedShrinks DEF Turns, WireInv, WireMatches, WireOrder, KeepsIds
<1> QED
  BY <1>1, <1>2

\* Every received frame keeps the order of the frames written.
LEMMA RecvFrameWire ==
    ASSUME StateOK, MapInv, StateOK', WireInv, RecvFrame
    PROVE  WireInv'
<1> USE DEF frameFrame, flagVars
<1>1. ASSUME NEW id \in Ids, NEW ok \in BOOLEAN, NEW eof \in BOOLEAN, HeadersOpen(id, ok, eof)
      PROVE  WireInv'
  <2>1. id \notin opened /\ Unused(id) /\ send[id] = "idle"
    BY <1>1 DEF HeadersOpen, MapInv, UnopenedIdle, IdsOpened, Unused
  <2>2. \A i \in Ids : Unused(i)' => Unused(i) /\ i # id
    BY <1>1 DEF HeadersOpen, Unused, server, StateOK, IdType, AnyId, Ids
  <2>3. CASE ok
    BY <1>1, <2>1, <2>2, <2>3 DEF HeadersOpen, WireInv, WireMatches, WireOrder
  <2>4. CASE ~ok
    <3>1. wire'[id] = "reset" /\ \A i \in Ids \ {id} : wire'[i] = wire[i]
      BY <1>1, <2>4 DEF HeadersOpen, Write, WriteAfter, Idle, Ids
    <3>2. send'[id] = "closed" /\ \A i \in Ids \ {id} : send'[i] = send[i]
      BY <1>1, <2>4 DEF HeadersOpen, StateOK, HalfType
    <3>3. opened' = opened \union {id}
      BY <1>1 DEF HeadersOpen
    <3> QED
      BY <2>2, <3>1, <3>2, <3>3 DEF WireInv, WireMatches, WireOrder
  <2> QED
    BY <2>3, <2>4
<1>2. ASSUME NEW id \in Ids, HeadersRefused(id)
      PROVE  WireInv'
  <2>1. KeepsIds
    BY <1>2 DEF HeadersRefused, KeepsIds, StateOK, IdType, AnyId, Ids
  <2>2. id \in opened => send[id] = "closed"
    BY <1>2 DEF HeadersRefused, MapInv, MapIsOpenStreams
  <2> QED
    BY <1>2, <2>1, <2>2, WireReset DEF HeadersRefused, halfVars, SendOnlyCloses
<1>3. ASSUME NEW id \in Ids, NEW invalid \in BOOLEAN, HeadersRejected(id, invalid)
      PROVE  WireInv'
  <2>1. KeepsIds
    BY <1>3 DEF HeadersRejected, KeepsIds, StateOK, IdType, AnyId, Ids
  <2> QED
    BY <1>3, <2>1, ResetUnknownWire DEF HeadersRejected
<1>4. ASSUME UNCHANGED frameFrame
      PROVE  KeepsIds
  BY <1>4, FrameKeepsIds
<1>5. ASSUME UNCHANGED frameFrame, FrameFails
      PROVE  WireInv'
  BY <1>4, <1>5, TakeStreamsSend, WireKept DEF FrameFails, ConnFail
<1>6. ASSUME UNCHANGED frameFrame, Ignored
      PROVE  WireInv'
  BY <1>4, <1>6, WireKept DEF Ignored, halfVars, SendOnlyCloses
<1>7. ASSUME UNCHANGED frameFrame, NEW id, id \notin streams, ResetClosed(id)
      PROVE  WireInv'
  <2>1. id \in opened => send[id] = "closed"
    BY <1>7 DEF MapInv, MapIsOpenStreams
  <2> QED
    BY <1>4, <1>7, <2>1, WireReset DEF ResetClosed, halfVars, SendOnlyCloses
<1>8. ASSUME UNCHANGED frameFrame, NEW id \in Ids, StreamError(id)
      PROVE  WireInv'
  BY <1>4, <1>8, CloseStreamSend, WireReset DEF StreamError
<1>9. ASSUME UNCHANGED <<wire, frameFrame>>, NEW id, NEW r, SetHalves(id, r, send[id])
      PROVE  WireInv'
  <2>1. SendOnlyCloses
    BY <1>9 DEF SetHalves, SendOnlyCloses, StateOK, HalfType
  <2> QED
    BY <1>4, <1>9, <2>1, WireKept
<1>10. ASSUME NEW id \in AnyId, NEW invalid \in BOOLEAN, HeadersClosed(id, invalid)
       PROVE  WireInv'
  BY <1>5, <1>6, <1>10 DEF HeadersClosed
<1>11. ASSUME NEW id \in Ids, NEW invalid \in BOOLEAN, HeadersUnknown(id, invalid)
       PROVE  WireInv'
  BY <1>4, <1>5, <1>6, <1>7, <1>11, ResetUnknownWire DEF HeadersUnknown
<1>12. ASSUME NEW id \in Ids, NEW kind \in {"ok", "interim", "bad"}, NEW eof \in BOOLEAN,
              HeadersStream(id, kind, eof)
       PROVE  WireInv'
  <2>1. CASE kind = "interim" /\ recv[id] = "idle" /\ ~eof
    BY <1>4, <1>12, <2>1, WireKept DEF HeadersStream, halfVars, SendOnlyCloses
  <2> QED
    BY <1>8, <1>9, <1>12, <2>1 DEF HeadersStream
<1>13. ASSUME NEW id \in Ids, InvalidStream(id)
       PROVE  WireInv'
  <2>1. CASE RstExceeded(streams_count)
    BY <1>4, <1>13, <2>1, TakeStreamsSend, WireKept DEF InvalidStream, ConnFail
  <2>2. CASE ~RstExceeded(streams_count)
    BY <1>4, <1>13, <2>2, CloseStreamSend, WireReset DEF InvalidStream
  <2> QED
    BY <2>1, <2>2
<1>14. ASSUME NEW id \in AnyId, NEW ok \in BOOLEAN, NEW eof \in BOOLEAN, RecvData(id, ok, eof)
       PROVE  WireInv'
  <2>1. id \in streams => id \in Ids
    BY DEF StateOK, MapType
  <2> QED
    BY <1>5, <1>6, <1>7, <1>8, <1>9, <1>14, <2>1 DEF RecvData
<1>15. ASSUME NEW id \in AnyId, NEW ok \in BOOLEAN, RecvWindowUpdate(id, ok)
       PROVE  WireInv'
  <2>1. id \in streams => id \in Ids
    BY DEF StateOK, MapType
  <2> QED
    BY <1>5, <1>6, <1>7, <1>8, <1>15, <2>1 DEF RecvWindowUpdate
<1>16. ASSUME NEW id \in Ids, NEW noerr \in BOOLEAN, RecvRst(id, noerr)
       PROVE  WireInv'
  BY <1>4, <1>16, CloseStreamSend, TakeStreamsSend, WireKept DEF RecvRst, ConnFail
<1>17. ASSUME NEW id \in Ids, RecvRstPending(id)
       PROVE  WireInv'
  <2>1. SendOnlyCloses
    BY <1>17, TakeStreamsSend DEF RecvRstPending, halfVars, SendOnlyCloses
  <2> QED
    BY <1>4, <1>17, <2>1, WireKept DEF RecvRstPending
<1>18. ASSUME NEW last \in AnyId, RecvGoAway(last)
       PROVE  WireInv'
  <2>1. KeepsIds
    BY <1>18, FrameKeepsIds DEF RecvGoAway
  <2>2. SendOnlyCloses
    BY <1>18 DEF RecvGoAway, SendOnlyCloses, StateOK, HalfType
  <2> QED
    BY <1>18, <2>1, <2>2, WireKept DEF RecvGoAway
<1>19. CASE RecvConnError
  BY <1>5, <1>19 DEF RecvConnError
<1>20. ASSUME NEW S \in SUBSET Ids, RecvAck(S)
       PROVE  WireInv'
  <2>1. PICK T : T \subseteq opened /\ Turns(T, io_closed)
    BY <1>20 DEF RecvAck, MapInv, MapIsOpenStreams
  <2>2. KeepsIds
    BY <1>20, FrameKeepsIds DEF RecvAck
  <2> QED
    BY <2>1, <2>2, TurnsWire
<1> QED
  BY <1>1, <1>2, <1>3, <1>10, <1>11, <1>12, <1>13, <1>14, <1>15, <1>16, <1>17, <1>18, <1>19, <1>20 DEF RecvFrame

\* The application keeps it: HEADERS are written in the idle state, DATA and
\* trailers in the payload state of the send half.
LEMMA ApplicationWire ==
    ASSUME StateOK, MapInv, StateOK', WireInv, Application
    PROVE  WireInv'
<1> USE DEF streamFrame, flagVars
<1>1. ASSUME UNCHANGED streamFrame
      PROVE  KeepsIds /\ \A i \in Ids : Unused(i)' <=> Unused(i)
  BY <1>1, FrameKeepsIds DEF Unused, idVars, server
<1>2. ASSUME NEW eof \in BOOLEAN, SendRequest(eof)
      PROVE  WireInv'
  <2>1. next_id \in Ids /\ wire[next_id] \in {"none", "idleReset"}
    BY <1>2 DEF SendRequest, Unused, WireInv, WireMatches, Ids
  <2>2. wire'[next_id] = (IF eof THEN "ended" ELSE "head")
    BY <1>2, <2>1 DEF SendRequest, Write, WriteAfter
  <2>3. send'[next_id] = (IF eof THEN "closed" ELSE "payload")
    BY <1>2, <2>1 DEF SendRequest, StateOK, HalfType
  <2>4. \A i \in Ids \ {next_id} : wire'[i] = wire[i] /\ send'[i] = send[i]
    BY <1>2 DEF SendRequest, Write, StateOK, HalfType
  <2>5. \A i \in Ids : Unused(i)' => Unused(i) /\ i # next_id
    BY <1>2 DEF SendRequest, Unused, server, StateOK, IdType, Ids
  <2>6. opened' = opened \union {next_id}
    BY <1>2 DEF SendRequest
  <2> QED
    BY <2>2, <2>3, <2>4, <2>5, <2>6 DEF WireInv, WireMatches, WireOrder
<1>3. ASSUME UNCHANGED streamFrame, NEW id \in opened, NEW s, NEW frame, Write(id, frame),
             \A i \in Ids : send'[i] = IF i = id THEN s ELSE send[i],
             \A idle : s = "closed" => WriteAfter(wire[id], frame, idle) # "bad",
             \A idle : s = "payload" => WriteAfter(wire[id], frame, idle) = "head",
             \A idle : s = "idle" => WriteAfter(wire[id], frame, idle) \in {"none", "idleReset"},
             s \in Halves
      PROVE  WireInv'
  <2>1. id \in Ids /\ ~Unused(id)
    BY DEF StateOK, IdType, MapInv, IdsOpened
  <2>2. wire'[id] = WriteAfter(wire[id], frame, Idle(id)) /\ \A i \in Ids \ {id} : wire'[i] = wire[i]
    BY <1>3, <2>1 DEF Write
  <2>3. wire'[id] # "bad"
    BY <1>3, <2>2 DEF Halves
  <2>4. opened' = opened
    BY <1>3 DEF idVars
  <2> QED
    BY <1>1, <1>3, <2>1, <2>2, <2>3, <2>4 DEF WireInv, WireMatches, WireOrder
<1>4. ASSUME NEW id, NEW r, NEW s, SetHalves(id, r, s)
      PROVE  \A i \in Ids : send'[i] = IF i = id THEN s ELSE send[i]
  BY <1>4 DEF SetHalves, StateOK, HalfType
<1>5. ASSUME NEW id \in Ids, NEW eof \in BOOLEAN, SendResponse(id, eof)
      PROVE  WireInv'
  <2>1. wire[id] \in {"none", "idleReset"} /\ id \in opened
    BY <1>5 DEF SendResponse, CanSend, WireInv, WireMatches
  <2> QED
    BY <1>3, <1>4, <1>5, <2>1 DEF SendResponse, WriteAfter, Halves
<1>6. ASSUME NEW id \in Ids, NEW eof \in BOOLEAN, SendData(id, eof)
      PROVE  WireInv'
  <2>1. wire[id] = "head" /\ id \in opened
    BY <1>6 DEF SendData, CanSend, WireInv, WireMatches
  <2> QED
    BY <1>3, <1>4, <1>6, <2>1 DEF SendData, WriteAfter, Halves
<1>7. ASSUME NEW id \in Ids, SendTrailers(id)
      PROVE  WireInv'
  <2>1. wire[id] = "head" /\ id \in opened
    BY <1>7 DEF SendTrailers, WireInv, WireMatches
  <2>2. \A idle : WriteAfter(wire[id], "dataEnd", idle) = "ended"
    BY <2>1 DEF WriteAfter
  <2>3. UNCHANGED streamFrame /\ Write(id, "dataEnd") /\ SetHalves(id, recv[id], "closed")
    BY <1>7 DEF SendTrailers
  <2>4. \A i \in Ids : send'[i] = IF i = id THEN "closed" ELSE send[i]
    BY <1>4, <2>3
  <2> QED
    BY <1>3, <2>1, <2>2, <2>3, <2>4 DEF Halves
<1>8. ASSUME NEW id \in Ids, SendInformational(id)
      PROVE  WireInv'
  <2>1. wire[id] \in {"none", "idleReset"} /\ id \in opened /\ send[id] = "idle"
    BY <1>8 DEF SendInformational, CanSend, WireInv, WireMatches
  <2> QED
    BY <1>3, <1>8, <2>1 DEF SendInformational, WriteAfter, Halves, halfVars
<1>9. ASSUME NEW id \in Ids, Reset(id) \/ CapacityTimeout(id)
      PROVE  WireInv'
  BY <1>1, <1>9, CloseStreamSend, WireReset DEF Reset, CapacityTimeout
<1>10. CASE DisconnectWhenReady
  BY <1>10, FrameKeepsIds, WireKept DEF DisconnectWhenReady, halfVars, SendOnlyCloses
<1> QED
  BY <1>2, <1>5, <1>6, <1>7, <1>8, <1>9, <1>10 DEF Application

\* Service calls and the end of the io dispatcher keep it.
LEMMA ServiceStopWire ==
    ASSUME StateOK, MapInv, AckInv, StateOK', WireInv, Service \/ Stop
    PROVE  WireInv'
<1> USE DEF flagVars
<1>1. CASE Service
  <2>1. UNCHANGED <<idVars, config>>
    BY <1>1 DEF Service, PublishEnds, publishFrame, PublishFails, ControlEnds, AckPublishEnds,
         AckPublishFails, AckControlEnds, NextTurn
  <2>2. \/ UNCHANGED <<send, wire>>
        \/ \E id \in failing : \E closed : Turns({id}, closed)
    BY <1>1 DEF Service, PublishEnds, publishFrame, PublishFails, ControlEnds, AckPublishEnds,
         AckPublishFails, AckControlEnds, NextTurn, halfVars
  <2>3. KeepsIds
    BY <2>1, FrameKeepsIds
  <2>4. CASE UNCHANGED <<send, wire>>
    BY <2>3, <2>4, WireKept DEF SendOnlyCloses
  <2>5. ASSUME NEW id \in failing, NEW closed, Turns({id}, closed)
        PROVE  WireInv'
    <3>1. {id} \subseteq opened
      BY DEF AckInv
    <3> QED
      BY <2>3, <2>5, <3>1, TurnsWire
  <2> QED
    BY <2>2, <2>4, <2>5
<1>2. CASE Stop
  <2>1. UNCHANGED stopFrame /\ \E gone : TakeStreams(pending, gone)
    BY <1>2 DEF Stop, StopCodec, StopTimeout, StopIo, StopService, PublishNotReady, DropDispatcher, ConnFail
  <2> QED
    BY <2>1, FrameKeepsIds, TakeStreamsSend, WireKept DEF stopFrame
<1> QED
  BY <1>1, <1>2

-----------------------------------------------------------------------------
(* The reset limit of a client, which counts no streams. *)

\* streams_count counts the streams a peer initiated
ClientCount == ~server => streams_count = 0

\* update_rst_count() halves nothing when no stream was counted.
LEMMA NothingDecays ==
    Decay(0) = 0 /\ 0 \div 2^Decay(0) = 0
<1>1. 2^0 = 1 /\ 0 \div 1 = 0
  OBVIOUS
<1>2. \E k \in 0 .. 0 : 0 \div 2^k < RatioWindow /\ \A j \in 0 .. k - 1 : 0 \div 2^j >= RatioWindow
  BY <1>1
<1>3. Decay(0) \in 0 .. 0
  BY <1>2 DEF Decay
<1>4. Decay(0) = 0
  BY <1>3
<1>5. 2^Decay(0) = 2^0
  BY <1>4, Zenon
<1> QED
  BY <1>1, <1>4, <1>5

\* A client never exceeds the reset ratio, its peer opens no streams.
LEMMA ClientNeverExceeds ==
    ASSUME ClientCount, ~server
    PROVE  ~RstExceeded(streams_count)
  BY NothingDecays DEF ClientCount, RstExceeded

\* A client counts no streams.
LEMMA ClientCountStep ==
    ASSUME ClientCount, [Next]_vars
    PROVE  ClientCount'
<1> SUFFICES ASSUME ~server'
             PROVE  streams_count' = 0
  BY DEF ClientCount
<1> USE DEF flagVars, rstVars
<1>1. config' = config
  BY DEF Next, vars, RecvFrame, frameFrame, HeadersOpen, HeadersRefused, HeadersRejected, HeadersClosed,
       HeadersUnknown, HeadersStream, InvalidStream, RecvRstPending, RecvData, RecvWindowUpdate,
       RecvRst, RecvGoAway, RecvAck, RecvConnError, Application, streamFrame, SendRequest, SendResponse, SendData,
       SendInformational, SendTrailers, Reset, CapacityTimeout, DisconnectWhenReady,
       Service, PublishEnds, publishFrame, PublishFails, ControlEnds, AckPublishEnds, AckPublishFails,
       AckControlEnds, NextTurn,
       Stop, stopFrame, StopCodec, StopTimeout, StopIo, StopService, PublishNotReady, DropDispatcher
<1>2. ~server /\ streams_count = 0
  BY <1>1 DEF server, ClientCount
<1>3. ASSUME UpdateRstCount(streams_count)
      PROVE  streams_count' = 0
  BY <1>2, <1>3, NothingDecays DEF UpdateRstCount
<1>4. ASSUME UNCHANGED rstVars
      PROVE  streams_count' = 0
  BY <1>2, <1>4
<1>5. CASE RecvFrame
  BY ZenonT(30), <1>2, <1>3, <1>4, <1>5 DEF RecvFrame, HeadersOpen, HeadersRefused, HeadersRejected, HeadersClosed,
       HeadersUnknown, HeadersStream, InvalidStream, RecvRstPending, RecvData, RecvWindowUpdate,
       RecvRst, RecvGoAway, RecvAck, RecvConnError, StreamError, FrameFails, Ignored, ResetClosed, ResetUnknown
<1>6. CASE Application
  BY <1>4, <1>6 DEF Application, streamFrame, SendRequest, SendResponse, SendData,
       SendInformational, SendTrailers, Reset, CapacityTimeout, DisconnectWhenReady
<1>7. CASE Service
  BY <1>4, <1>7 DEF Service, PublishEnds, publishFrame, PublishFails, ControlEnds, AckPublishEnds,
       AckPublishFails, AckControlEnds, NextTurn
<1>8. CASE Stop
  BY <1>4, <1>8 DEF Stop, stopFrame, StopCodec, StopTimeout, StopIo, StopService, PublishNotReady,
       DropDispatcher
<1>9. CASE UNCHANGED vars
  BY <1>4, <1>9 DEF vars
<1> QED
  BY <1>5, <1>6, <1>7, <1>8, <1>9 DEF Next

-----------------------------------------------------------------------------
(* The messages published for a stream. *)

\* a call of the stream takes its final message when it ends
Owes(id) == local_close[id] /\ id \notin late

\* how FinalMessage lets a stream close
ClosedSaid(id) ==
    \/ msg[id] \in {"eof", "error", "twice"}
    \/ Owes(id) /\ calls[id] > 0
    \/ id \in muted
    \/ server /\ serr[id] = "remote"

\* the loop of the SETTINGS acknowledgment has failed the stream
Failed(id) == id \in overflowed /\ id \notin failing

\* the messages of a stream agree with its receive half while it is in the
\* map; one that owes its final message had no error, but for the one of the
\* loop, and so had one that the loop has yet to fail, but for the final
\* message: there is no third error
StreamMessages(id) ==
    /\ msg[id] # "bad"
    /\ id \notin opened => msg[id] = "none" /\ ~local_close[id]
    /\ id \in streams => msg[id] \in (IF recv[id] = "closed" THEN {"eof"} ELSE {"none", "open"})
    /\ local_close[id] => id \notin streams
    /\ Owes(id) /\ msg[id] = "error" => Failed(id)
    /\ msg[id] = "twice" => Failed(id) /\ ~Owes(id)
    /\ id \in opened \ streams => ClosedSaid(id)

MessageInv == \A id \in Ids : StreamMessages(id)

\* the step leaves the stream alone
Untouched(id) ==
    /\ msg'[id] = msg[id] /\ recv'[id] = recv[id] /\ serr'[id] = serr[id]
    /\ local_close'[id] = local_close[id] /\ calls'[id] = calls[id]
    /\ id \in streams' <=> id \in streams
    /\ id \in opened' <=> id \in opened
    /\ id \in late' <=> id \in late
    /\ Failed(id) => Failed(id)'

\* left alone by steps that publish for streams of the map
messageFrame == <<config, opened, late, local_close, failing, overflowed, muted>>

\* What holds of a stream's messages goes on to hold if a step does not touch it.
LEMMA UntouchedMessages ==
    ASSUME NEW id \in Ids, StreamMessages(id), Untouched(id), config' = config, muted \subseteq muted'
    PROVE  StreamMessages(id)'
  BY DEF StreamMessages, Untouched, ClosedSaid, Owes, server

\* Closing a stream and publishing the error is one final message.
LEMMA PublishedClose ==
    ASSUME StateOK, StateOK', MapInv, MessageInv, NEW id \in streams, NEW err, NEW again,
           CloseStream(id, err, again), Publish(id, "error"), UNCHANGED messageFrame
    PROVE  MessageInv'
<1>1. id \in Ids /\ id \in opened
  BY DEF StateOK, MapType, MapInv, MapIsOpenStreams
<1>2. msg'[id] = "error" /\ ~local_close[id]
  BY <1>1 DEF MessageInv, StreamMessages, Publish, MessageAfter, StateOK, HistoryType
<1>3. StreamMessages(id)'
  BY <1>1, <1>2 DEF StreamMessages, ClosedSaid, Owes, CloseStream, DropStream, messageFrame
<1>4. \A i \in Ids \ {id} : Untouched(i)
  BY DEF Untouched, Failed, CloseStream, DropStream, Publish, StateOK, HalfType, HistoryType, messageFrame
<1> QED
  BY <1>3, <1>4, UntouchedMessages DEF MessageInv, messageFrame

\* Every stream that take_streams() returns gets one final message; one whose
\* RST_STREAM exceeded the limit of a server gets none.
LEMMA PublishedDisconnect ==
    ASSUME StateOK, StateOK', MapInv, MessageInv, NEW base, NEW gone, gone \subseteq streams,
           gone # {} => server, TakeStreams(base, gone), PublishDisconnect(streams \ gone),
           UNCHANGED <<messageFrame, calls>>
    PROVE  MessageInv'
<1> USE DEF messageFrame
<1> SUFFICES ASSUME NEW i \in Ids
             PROVE  StreamMessages(i)'
  BY DEF MessageInv
<1>0. StreamMessages(i)
  BY DEF MessageInv
<1>1. CASE i \in streams \ gone
  <2>1. msg'[i] = "error" /\ ~local_close'[i] /\ i \in opened'
    BY <1>0, <1>1 DEF StreamMessages, PublishDisconnect, MessageAfter, MapInv, MapIsOpenStreams
  <2> QED
    BY <1>1, <2>1 DEF StreamMessages, ClosedSaid, Owes, TakeStreams
<1>2. CASE i \in gone
  <2>1. msg'[i] = msg[i] /\ msg[i] \notin {"bad", "twice"} /\ ~local_close'[i] /\ i \in opened'
    BY <1>0, <1>2 DEF StreamMessages, PublishDisconnect, MapInv, MapIsOpenStreams
  <2>2. server' /\ serr'[i] = "remote"
    BY <1>2 DEF TakeStreams, server
  <2> QED
    BY <1>2, <2>1, <2>2 DEF StreamMessages, ClosedSaid, Owes, TakeStreams
<1>3. CASE i \notin streams
  <2>1. Untouched(i)
    BY <1>3 DEF Untouched, Failed, TakeStreams, PublishDisconnect
  <2> QED
    BY <1>0, <2>1, UntouchedMessages
<1> QED
  BY <1>1, <1>2, <1>3

\* A connection error publishes final messages.
LEMMA ConnFailMessages ==
    ASSUME StateOK, StateOK', MapInv, MessageInv, NEW gone, gone \subseteq streams,
           gone # {} => server, ConnFail(gone), UNCHANGED <<messageFrame, calls>>
    PROVE  MessageInv'
  BY PublishedDisconnect DEF ConnFail

\* Published headers, data and ends of streams follow the receive half.
LEMMA SetHalvesMessages ==
    ASSUME StateOK, StateOK', MapInv, MessageInv, NEW id \in streams, NEW r \in Halves,
           NEW s \in Halves, SetHalves(id, r, s), UNCHANGED <<messageFrame, serr>>,
           msg'[id] = IF r = "closed" THEN "eof" ELSE "open",
           \A i \in Ids \ {id} : msg'[i] = msg[i] /\ calls'[i] = calls[i]
    PROVE  MessageInv'
<1> USE DEF messageFrame
<1>1. id \in Ids /\ id \in opened
  BY DEF StateOK, MapType, MapInv, MapIsOpenStreams
<1>2. ~local_close[id]
  BY <1>1 DEF MessageInv, StreamMessages
<1>3. recv'[id] = r
  BY <1>1 DEF SetHalves, StateOK, HalfType
<1>4. id \notin streams' => r = "closed"
  BY DEF SetHalves, mapVars
<1>5. StreamMessages(id)'
  BY <1>1, <1>2, <1>3, <1>4 DEF StreamMessages, ClosedSaid, Owes
<1>6. \A i \in Ids \ {id} : Untouched(i)
  BY DEF Untouched, Failed, SetHalves, DropStream, mapVars, StateOK, HalfType
<1> QED
  BY <1>5, <1>6, UntouchedMessages DEF MessageInv

\* A step that touches no stream keeps the invariant.
LEMMA SameMessages ==
    ASSUME StateOK, MessageInv, UNCHANGED <<messageFrame, streams, recv, serr, calls, msg>>
    PROVE  MessageInv'
  BY UntouchedMessages DEF MessageInv, Untouched, Failed, messageFrame

\* Turns of the loop of the SETTINGS acknowledgment publish the first error of
\* a stream, or the second one after its final message.
LEMMA TurnsMessages ==
    ASSUME StateOK, StateOK', MapInv, MessageInv, NEW S, S \subseteq opened, NEW closed, Turns(S, closed),
           UNCHANGED <<config, opened, late, local_close, calls, muted>>, overflowed \subseteq overflowed',
           \A i \in S : i \in failing \union streams /\ Failed(i)',
           \A i \in Ids \ S : i \in failing' => i \in failing \union streams
    PROVE  MessageInv'
<1> SUFFICES ASSUME NEW i \in Ids
             PROVE  StreamMessages(i)'
  BY DEF MessageInv
<1>0. StreamMessages(i)
  BY DEF MessageInv
<1>1. CASE i \in S
  <2>1. i \in opened' /\ i \notin streams' /\ Failed(i)'
    BY <1>1 DEF Turns
  <2>2. msg'[i] = MessageAfter(msg[i], "error")
    BY <1>1 DEF Turns
  <2>3. msg[i] # "twice" /\ (msg[i] = "error" => ~Owes(i))
    BY <1>0, <1>1 DEF StreamMessages, Failed
  <2>4. msg'[i] = "error" \/ (msg'[i] = "twice" /\ ~Owes(i)')
    BY <1>0, <2>2, <2>3 DEF StreamMessages, MessageAfter, Owes
  <2> QED
    BY <2>1, <2>4 DEF StreamMessages, ClosedSaid
<1>2. CASE i \notin S
  <2>1. /\ msg'[i] = msg[i] /\ recv'[i] = recv[i] /\ serr'[i] = serr[i]
        /\ i \in streams' <=> i \in streams
    BY <1>2 DEF Turns
  <2>2. CASE i \in streams
    BY <1>0, <2>1, <2>2 DEF StreamMessages, Owes
  <2>3. CASE i \notin streams
    <3>1. Untouched(i)
      BY <1>2, <2>1, <2>3 DEF Untouched, Failed
    <3> QED
      BY <1>0, <3>1, UntouchedMessages
  <2> QED
    BY <2>2, <2>3
<1> QED
  BY <1>1, <1>2

\* Every received frame keeps the invariant of the messages.
LEMMA RecvFrameMessages ==
    ASSUME StateOK, StateOK', MapInv, AckInv, ClientCount, MessageInv, RecvFrame
    PROVE  MessageInv'
<1> USE DEF idVars, flagVars, messageFrame
<1>1. ASSUME NEW id \in Ids, NEW ok \in BOOLEAN, NEW eof \in BOOLEAN, HeadersOpen(id, ok, eof)
      PROVE  MessageInv'
  <2>1. id \notin opened /\ id \notin streams /\ recv[id] = "idle"
    BY <1>1 DEF HeadersOpen, MapInv, UnopenedIdle, IdsOpened, Unused, MapIsOpenStreams
  <2>2. msg[id] = "none" /\ ~local_close[id]
    BY <2>1 DEF MessageInv, StreamMessages
  <2>3. StreamMessages(id)'
    <3>1. CASE ok
      <4>1. msg'[id] = (IF eof THEN "eof" ELSE "open") /\ recv'[id] = (IF eof THEN "closed" ELSE "payload")
        BY <1>1, <2>2, <3>1 DEF HeadersOpen, Publish, MessageAfter, StateOK, HalfType, HistoryType
      <4>2. id \in streams' /\ id \in opened' /\ ~local_close'[id]
        BY <1>1, <2>2, <3>1 DEF HeadersOpen
      <4> QED
        BY <4>1, <4>2 DEF StreamMessages, Owes
    <3>2. CASE ~ok
      <4>1. msg'[id] = "error"
        BY <1>1, <2>2, <3>2 DEF HeadersOpen, Publish, MessageAfter, StateOK, HistoryType
      <4>2. id \notin streams' /\ id \in opened' /\ ~local_close'[id]
        BY <1>1, <2>1, <2>2, <3>2 DEF HeadersOpen, mapVars
      <4> QED
        BY <4>1, <4>2 DEF StreamMessages, ClosedSaid, Owes
    <3> QED
      BY <3>1, <3>2
  <2>4. \A i \in Ids \ {id} : Untouched(i)
    BY <1>1 DEF Untouched, Failed, HeadersOpen, Publish, StateOK, HalfType, HistoryType, mapVars
  <2> QED
    BY <1>1, <2>3, <2>4, UntouchedMessages DEF HeadersOpen, MessageInv
<1>2. ASSUME NEW id \in Ids, HeadersRefused(id)
      PROVE  MessageInv'
  BY <1>2, SameMessages DEF HeadersRefused, mapVars, halfVars
<1>3. ASSUME NEW id, NEW count, ResetUnknown(id, count), UNCHANGED messageFrame
      PROVE  MessageInv'
  BY <1>3, ConnFailMessages, SameMessages DEF ResetUnknown, mapVars, halfVars
<1>4. ASSUME NEW id \in Ids, NEW invalid \in BOOLEAN, HeadersRejected(id, invalid)
      PROVE  MessageInv'
  BY <1>3, <1>4 DEF HeadersRejected
<1> USE DEF frameFrame
<1>5. ASSUME UNCHANGED frameFrame, FrameFails
      PROVE  MessageInv'
  BY <1>5, ConnFailMessages DEF FrameFails
<1>6. ASSUME UNCHANGED frameFrame, NEW id, Ignored \/ ResetClosed(id)
      PROVE  MessageInv'
  BY <1>6, SameMessages DEF Ignored, ResetClosed, mapVars, halfVars
<1>7. ASSUME UNCHANGED frameFrame, NEW id \in streams, StreamError(id)
      PROVE  MessageInv'
  BY <1>7, PublishedClose DEF StreamError
<1>8. ASSUME UNCHANGED <<serr, frameFrame>>, NEW id \in streams, NEW eof \in BOOLEAN, recv[id] # "closed",
             SetHalves(id, IF eof THEN "closed" ELSE "payload", send[id]),
             Publish(id, IF eof THEN "eof" ELSE "open")
      PROVE  MessageInv'
  <2>1. id \in Ids /\ send[id] \in Halves
    BY DEF StateOK, MapType, HalfType
  <2>2. msg[id] \in {"none", "open"}
    BY <1>8, <2>1 DEF MessageInv, StreamMessages
  <2>3. msg' = [msg EXCEPT ![id] = IF eof THEN "eof" ELSE "open"]
    BY <1>8, <2>2 DEF Publish, MessageAfter
  <2>4. /\ msg'[id] = IF eof THEN "eof" ELSE "open"
        /\ \A i \in Ids \ {id} : msg'[i] = msg[i] /\ calls'[i] = calls[i]
    BY <1>8, <2>1, <2>3 DEF Publish, StateOK, HistoryType
  <2> QED
    BY <1>8, <2>1, <2>4, SetHalvesMessages DEF Halves
<1>9. ASSUME NEW id \in AnyId, NEW invalid \in BOOLEAN, HeadersClosed(id, invalid)
      PROVE  MessageInv'
  BY <1>5, <1>6, <1>9 DEF HeadersClosed
<1>10. ASSUME NEW id \in Ids, NEW invalid \in BOOLEAN, HeadersUnknown(id, invalid)
       PROVE  MessageInv'
  BY <1>3, <1>5, <1>6, <1>10 DEF HeadersUnknown
<1>11. ASSUME NEW id \in Ids, NEW kind \in {"ok", "interim", "bad"}, NEW eof \in BOOLEAN,
              HeadersStream(id, kind, eof)
       PROVE  MessageInv'
  <2>1. CASE \/ kind = "ok" /\ recv[id] = "idle"
             \/ kind = "ok" /\ recv[id] = "payload" /\ eof
    BY <1>8, <1>11, <2>1 DEF HeadersStream
  <2>2. CASE kind = "interim" /\ recv[id] = "idle" /\ ~eof
    <3>1. id \in streams /\ id \in opened /\ msg[id] \in {"none", "open"} /\ ~local_close[id]
      BY <1>11, <2>2 DEF HeadersStream, MessageInv, StreamMessages, MapInv, MapIsOpenStreams
    <3>2. msg'[id] = "open" /\ \A i \in Ids \ {id} : msg'[i] = msg[i] /\ calls'[i] = calls[i]
      BY <1>11, <2>2, <3>1 DEF HeadersStream, Publish, MessageAfter, StateOK, HistoryType
    <3>3. StreamMessages(id)'
      BY <1>11, <2>2, <3>1, <3>2 DEF HeadersStream, StreamMessages, Owes, mapVars, halfVars
    <3>4. \A i \in Ids \ {id} : Untouched(i)
      BY <1>11, <2>2, <3>2 DEF HeadersStream, Untouched, Failed, mapVars, halfVars
    <3> QED
      BY <1>11, <3>3, <3>4, UntouchedMessages DEF HeadersStream, MessageInv
  <2> QED
    BY <1>7, <1>11, <2>1, <2>2 DEF HeadersStream
<1>12. ASSUME NEW id \in Ids, InvalidStream(id)
       PROVE  MessageInv'
  BY <1>12, ConnFailMessages, PublishedClose DEF InvalidStream
<1>13. ASSUME NEW id \in AnyId, NEW ok \in BOOLEAN, NEW eof \in BOOLEAN, RecvData(id, ok, eof)
       PROVE  MessageInv'
  BY <1>5, <1>6, <1>7, <1>8, <1>13 DEF RecvData
<1>14. ASSUME NEW id \in AnyId, NEW ok \in BOOLEAN, RecvWindowUpdate(id, ok)
       PROVE  MessageInv'
  BY <1>5, <1>6, <1>7, <1>14 DEF RecvWindowUpdate
<1>15. ASSUME NEW id \in Ids, NEW noerr \in BOOLEAN, RecvRst(id, noerr)
       PROVE  MessageInv'
  <2>1. CASE ~server /\ recv[id] = "closed" /\ noerr
    <3>1. id \in streams /\ id \in opened /\ msg[id] = "eof" /\ ~local_close[id]
      BY <1>15, <2>1 DEF RecvRst, MessageInv, StreamMessages, MapInv, MapIsOpenStreams
    <3>2. CloseStream(id, "remote", FALSE) /\ UNCHANGED <<calls, msg, frameFrame>>
      BY <1>15, <2>1 DEF RecvRst
    <3>3. StreamMessages(id)'
      BY <3>1, <3>2 DEF CloseStream, DropStream, StreamMessages, ClosedSaid, Owes
    <3>4. \A i \in Ids \ {id} : Untouched(i)
      BY <3>2 DEF CloseStream, DropStream, Untouched, Failed, StateOK, HalfType
    <3> QED
      BY <3>2, <3>3, <3>4, UntouchedMessages DEF MessageInv
  <2>2. CASE ~(~server /\ recv[id] = "closed" /\ noerr) /\ RstExceeded(streams_count)
    <3>1. server
      BY <2>2, ClientNeverExceeds
    <3> QED
      BY <1>15, <2>2, <3>1, ConnFailMessages DEF RecvRst
  <2>3. CASE ~(~server /\ recv[id] = "closed" /\ noerr) /\ ~RstExceeded(streams_count)
    BY <1>15, <2>3, PublishedClose DEF RecvRst
  <2> QED
    BY <2>1, <2>2, <2>3
<1>16. ASSUME NEW id \in Ids, RecvRstPending(id)
       PROVE  MessageInv'
  <2>1. CASE RstExceeded(streams_count)
    <3>1. streams \ {} = streams
      OBVIOUS
    <3> QED
      BY <1>16, <2>1, <3>1, PublishedDisconnect DEF RecvRstPending
  <2>2. CASE ~RstExceeded(streams_count)
    BY <1>16, <2>2, SameMessages DEF RecvRstPending, mapVars, halfVars
  <2> QED
    BY <2>1, <2>2
<1>17. ASSUME NEW last \in AnyId, RecvGoAway(last)
       PROVE  MessageInv'
  <2> DEFINE failed == IF server THEN {} ELSE {i \in streams : i > last}
  <2> SUFFICES ASSUME NEW i \in Ids
               PROVE  StreamMessages(i)'
    BY DEF MessageInv
  <2>1. StreamMessages(i)
    BY DEF MessageInv
  <2>2. streams' = streams \ failed /\ PublishDisconnect(failed)
        /\ UNCHANGED <<messageFrame, calls>>
    BY <1>17 DEF RecvGoAway
  <2>3. CASE i \in failed
    <3>1. msg'[i] = "error" /\ ~local_close'[i] /\ i \in opened' /\ i \notin streams'
      BY <2>1, <2>2, <2>3 DEF StreamMessages, PublishDisconnect, MessageAfter, MapInv, MapIsOpenStreams
    <3> QED
      BY <3>1 DEF StreamMessages, ClosedSaid, Owes
  <2>4. CASE i \notin failed
    <3>1. Untouched(i)
      BY <1>17, <2>2, <2>4 DEF RecvGoAway, Untouched, Failed, PublishDisconnect
    <3> QED
      BY <2>1, <2>2, <3>1, UntouchedMessages
  <2> QED
    BY <2>3, <2>4
<1>18. CASE RecvConnError
  BY <1>5, <1>18 DEF RecvConnError
<1>19. ASSUME NEW S \in SUBSET Ids, RecvAck(S)
       PROVE  MessageInv'
  <2>1. S \subseteq streams /\ S \subseteq opened /\ failing = {} /\ overflowed = {} /\ overflowed' = S
    BY <1>19 DEF RecvAck, AckInv, MapInv, MapIsOpenStreams
  <2>2. PICK T : T \subseteq S /\ Turns(T, io_closed) /\ failing' = S \ T
    <3>1. CASE server
      BY <1>19, <3>1 DEF RecvAck
    <3>2. CASE ~server
      <4>1. Turns(S, io_closed) /\ failing' = S \ S
        BY <1>19, <2>1, <3>2 DEF RecvAck
      <4> QED
        BY <4>1
    <3> QED
      BY <3>1, <3>2
  <2>3. UNCHANGED <<config, opened, late, local_close, calls, muted>>
    BY <1>19 DEF RecvAck
  <2>4. \A i \in T : i \in failing \union streams /\ Failed(i)'
    BY <2>1, <2>2 DEF Failed
  <2>5. T \subseteq opened /\ overflowed \subseteq overflowed' /\ \A i \in Ids \ T : i \in failing' => i \in failing \union streams
    BY <2>1, <2>2
  <2> QED
    BY <2>2, <2>3, <2>4, <2>5, TurnsMessages
<1> QED
  BY <1>1, <1>2, <1>4, <1>9, <1>10, <1>11, <1>12, <1>13, <1>14, <1>15, <1>16, <1>17, <1>18, <1>19 DEF RecvFrame

\* The application keeps it: a stream closed by sending is one whose end was
\* published, a reset stream owes its final message at most once.
LEMMA ApplicationMessages ==
    ASSUME StateOK, StateOK', MapInv, MessageInv, Application
    PROVE  MessageInv'
<1> USE DEF streamFrame, idVars, flagVars, messageFrame
<1>1. ASSUME NEW eof \in BOOLEAN, SendRequest(eof)
      PROVE  MessageInv'
  <2>1. PICK id \in Ids : id = next_id
    BY <1>1 DEF SendRequest
  <2>2. id \notin opened /\ id \notin streams
    BY <1>1, <2>1 DEF SendRequest, MapInv, IdsOpened, Unused, MapIsOpenStreams, Ids
  <2>3. msg[id] = "none" /\ ~local_close[id] /\ recv[id] = "idle"
    BY <2>2 DEF MessageInv, StreamMessages, MapInv, UnopenedIdle
  <2>4. StreamMessages(id)'
    BY <1>1, <2>1, <2>3 DEF SendRequest, StreamMessages, Owes
  <2>5. \A i \in Ids \ {id} : Untouched(i)
    BY <1>1, <2>1 DEF SendRequest, Untouched, Failed
  <2> QED
    BY <1>1, <2>4, <2>5, UntouchedMessages DEF SendRequest, MessageInv
<1>2. ASSUME NEW id \in opened, NEW s \in Halves, send[id] # "closed", SetHalves(id, recv[id], s),
             UNCHANGED <<streamFrame, serr, local_close, muted>>
      PROVE  MessageInv'
  <2>1. id \in Ids /\ id \in streams
    BY <1>2 DEF StateOK, IdType, MapInv, MapIsOpenStreams
  <2>2. recv' = recv
    BY <1>2 DEF SetHalves, StateOK, HalfType
  <2>3. \A i \in Ids \ {id} : Untouched(i)
    BY <1>2, <2>2 DEF Untouched, Failed, SetHalves, DropStream, mapVars
  <2>4. StreamMessages(id)
    BY <2>1 DEF MessageInv
  <2>5. StreamMessages(id)'
    <3>1. CASE id \in streams'
      BY <1>2, <2>1, <2>2, <2>4, <3>1 DEF StreamMessages, Owes
    <3>2. CASE id \notin streams'
      <4>1. recv[id] = "closed" /\ msg[id] = "eof"
        BY <1>2, <2>1, <2>4, <3>2 DEF SetHalves, StreamMessages, mapVars
      <4> QED
        BY <1>2, <2>1, <2>4, <3>2, <4>1 DEF StreamMessages, ClosedSaid, Owes
    <3> QED
      BY <3>1, <3>2
  <2> QED
    BY <1>2, <2>3, <2>5, UntouchedMessages DEF MessageInv
<1>3. ASSUME NEW id \in Ids, NEW eof \in BOOLEAN, SendResponse(id, eof) \/ SendData(id, eof)
      PROVE  MessageInv'
  BY <1>2, <1>3 DEF SendResponse, SendData, CanSend, Halves
<1>4. ASSUME NEW id \in Ids, SendTrailers(id)
      PROVE  MessageInv'
  BY <1>2, <1>4 DEF SendTrailers, Halves
<1>5. ASSUME NEW id \in Ids, SendInformational(id)
      PROVE  MessageInv'
  BY <1>5, SameMessages DEF SendInformational, mapVars, halfVars
<1>6. ASSUME NEW id \in Ids, NEW err \in {"local", "timeout"}, NEW again,
             id \in opened, recv[id] # "closed" \/ send[id] # "closed",
             CloseStream(id, err, again), LocalClose(id), UNCHANGED streamFrame
      PROVE  MessageInv'
  <2>1. id \in streams /\ StreamMessages(id)
    BY <1>6 DEF MapInv, MapIsOpenStreams, MessageInv
  <2>2. id \notin streams' /\ id \in opened' /\ msg'[id] = msg[id]
    BY <1>6 DEF CloseStream, DropStream
  <2>3. muted \subseteq muted'
    BY <1>6 DEF LocalClose
  <2>4. StreamMessages(id)'
    <3>1. CASE recv[id] = "closed"
      <4>1. msg[id] = "eof" /\ ~local_close'[id]
        BY <1>6, <2>1, <3>1 DEF LocalClose, StreamMessages
      <4> QED
        BY <2>2, <4>1 DEF StreamMessages, ClosedSaid, Owes
    <3>2. CASE recv[id] # "closed"
      <4>1. msg[id] \in {"none", "open"}
        BY <2>1, <3>2 DEF StreamMessages
      <4>2. local_close'[id] = TRUE
        BY <1>6, <3>2 DEF LocalClose, StateOK, FlagType
      <4>3. calls[id] = 0 \/ id \in late => id \in muted'
        BY <1>6, <3>2 DEF LocalClose
      <4>4. calls[id] \in Nat
        BY DEF StateOK, HistoryType
      <4>5. ClosedSaid(id)'
        BY <1>6, <4>2, <4>3, <4>4 DEF ClosedSaid, Owes
      <4> QED
        BY <2>2, <4>1, <4>5 DEF StreamMessages
    <3> QED
      BY <3>1, <3>2
  <2>5. \A i \in Ids \ {id} : Untouched(i)
    BY <1>6 DEF Untouched, Failed, CloseStream, DropStream, LocalClose, StateOK, HalfType, FlagType
  <2> QED
    BY <1>6, <2>3, <2>4, <2>5, UntouchedMessages DEF MessageInv
<1>7. ASSUME NEW id \in Ids, Reset(id) \/ CapacityTimeout(id)
      PROVE  MessageInv'
  BY <1>6, <1>7 DEF Reset, CapacityTimeout
<1>8. CASE DisconnectWhenReady
  BY <1>8, SameMessages DEF DisconnectWhenReady, mapVars, halfVars
<1> QED
  BY <1>1, <1>3, <1>4, <1>5, <1>7, <1>8 DEF Application

\* A call that ends takes the final message that is owed, one that fails
\* leaves it to the other calls, and the loop publishes its error.
LEMMA ServiceMessages ==
    ASSUME StateOK, StateOK', MapInv, AckInv, MessageInv, Service
    PROVE  MessageInv'
<1> USE DEF idVars, flagVars, mapVars, halfVars, messageFrame
<1>1. ASSUME NEW id \in Ids, PublishEnds(id)
      PROVE  MessageInv'
  <2>0. StreamMessages(id)
    BY DEF MessageInv
  <2>1. CASE Owes(id)
    <3>1. msg[id] # "twice" /\ (msg[id] = "error" => Failed(id)) /\ id \in opened /\ id \notin streams
      BY <2>0, <2>1 DEF StreamMessages, Owes
    <3>2. msg' = [msg EXCEPT ![id] = MessageAfter(@, "error")] /\ ~local_close'[id]
      BY <1>1, <2>1 DEF PublishEnds, Owes, StateOK, FlagType
    <3>3. msg'[id] = "error" \/ (msg'[id] = "twice" /\ Failed(id))
      BY <2>0, <3>1, <3>2 DEF MessageAfter, StreamMessages, StateOK, HistoryType
    <3>4. id \in opened' /\ id \notin streams' /\ (Failed(id) => Failed(id)')
      BY <1>1, <3>1 DEF PublishEnds, publishFrame, Failed
    <3>5. StreamMessages(id)'
      BY <3>2, <3>3, <3>4 DEF StreamMessages, ClosedSaid, Owes
    <3>6. \A i \in Ids \ {id} : Untouched(i)
      BY <1>1, <2>1 DEF PublishEnds, publishFrame, Owes, Untouched, Failed, StateOK, HistoryType, FlagType
    <3> QED
      BY <1>1, <3>5, <3>6, UntouchedMessages DEF PublishEnds, publishFrame, MessageInv
  <2>2. CASE ~Owes(id)
    <3>1. \A i \in Ids \ {id} : Untouched(i)
      BY <1>1, <2>2 DEF PublishEnds, publishFrame, Owes, Untouched, Failed, StateOK, HistoryType
    <3>2. StreamMessages(id)'
      BY <1>1, <2>0, <2>2 DEF PublishEnds, publishFrame, StreamMessages, ClosedSaid, Owes, Failed, server
    <3> QED
      BY <1>1, <3>1, <3>2, UntouchedMessages DEF PublishEnds, publishFrame, MessageInv
  <2> QED
    BY <2>1, <2>2
<1>2. ASSUME NEW id \in Ids, PublishFails(id)
      PROVE  MessageInv'
  <2>0. StreamMessages(id)
    BY DEF MessageInv
  <2>1. muted \subseteq muted'
    BY <1>2 DEF PublishFails
  <2>2. \A i \in Ids \ {id} : Untouched(i)
    BY <1>2 DEF PublishFails, Untouched, Failed, StateOK, HistoryType
  <2>3. Owes(id) => calls'[id] > 0 \/ id \in muted'
    <3>1. calls[id] \in Nat /\ calls'[id] = calls[id] - 1 /\ calls[id] > 0
      BY <1>2 DEF PublishFails, StateOK, HistoryType
    <3>2. calls[id] = 1 /\ local_close[id] => id \in muted'
      BY <1>2 DEF PublishFails
    <3> QED
      BY <3>1, <3>2 DEF Owes
  <2>4. UNCHANGED <<config, streams, opened, late, local_close, serr, recv, msg, failing, overflowed>>
    BY <1>2 DEF PublishFails
  <2>5. StreamMessages(id)'
    BY <2>0, <2>1, <2>3, <2>4 DEF StreamMessages, ClosedSaid, Owes, Failed, server
  <2> QED
    BY <1>2, <2>1, <2>2, <2>5, UntouchedMessages DEF PublishFails, MessageInv
<1>3. ASSUME NEW ok \in BOOLEAN, ControlEnds(ok)
      PROVE  MessageInv'
  BY <1>3, SameMessages DEF ControlEnds
<1>4. ASSUME NEW closed, NextTurn(closed)
      PROVE  MessageInv'
  <2>1. CASE failing = {}
    BY <1>4, <2>1, SameMessages DEF NextTurn
  <2>2. CASE failing # {}
    <3>1. PICK id \in failing : Turns({id}, closed) /\ failing' = failing \ {id}
      BY <1>4, <2>2 DEF NextTurn
    <3>2. UNCHANGED <<config, opened, late, local_close, calls, muted, overflowed>>
      BY <1>4 DEF NextTurn
    <3>3. {id} \subseteq opened /\ Failed(id)'
      BY <3>1, <3>2 DEF AckInv, Failed
    <3> QED
      BY <3>1, <3>2, <3>3, TurnsMessages
  <2> QED
    BY <2>1, <2>2
<1>5. CASE AckPublishEnds \/ AckPublishFails \/ AckControlEnds
  <2>1. \/ \E closed : NextTurn(closed)
        \/ UNCHANGED <<messageFrame, streams, recv, serr, calls, msg>>
    BY <1>5 DEF AckPublishEnds, AckPublishFails, AckControlEnds
  <2> QED
    BY <1>4, <2>1, SameMessages
<1> QED
  BY <1>1, <1>2, <1>3, <1>5 DEF Service

\* Every way the io dispatcher stops keeps it.
LEMMA StopMessages ==
    ASSUME StateOK, StateOK', MapInv, MessageInv, Stop
    PROVE  MessageInv'
<1> USE DEF stopFrame, idVars, flagVars, messageFrame
<1>1. CASE StopCodec
  BY <1>1, ConnFailMessages DEF StopCodec
<1>2. CASE StopTimeout \/ StopIo \/ StopService
  <2>1. streams \ {} = streams
    OBVIOUS
  <2> QED
    BY <1>2, <2>1, PublishedDisconnect DEF StopTimeout, StopIo, StopService
<1>3. CASE PublishNotReady \/ DropDispatcher
  <2>1. /\ muted' = muted \union streams
        /\ TakeStreams(pending, {})
        /\ UNCHANGED <<config, opened, late, local_close, failing, overflowed, calls, msg>>
    BY <1>3 DEF PublishNotReady, DropDispatcher
  <2>2. streams' = {}
    BY <2>1 DEF TakeStreams
  <2>3. ASSUME NEW i \in Ids
        PROVE  StreamMessages(i)'
    <3>1. StreamMessages(i)
      BY DEF MessageInv
    <3>2. CASE i \in streams
      <4>1. i \in muted' /\ i \in opened' /\ msg'[i] \notin {"bad", "error", "twice"}
        BY <2>1, <3>1, <3>2 DEF StreamMessages, MapInv, MapIsOpenStreams
      <4> QED
        BY <2>2, <4>1 DEF StreamMessages, ClosedSaid
    <3>3. CASE i \notin streams
      <4>1. Untouched(i)
        BY <2>1, <2>2, <3>3 DEF Untouched, Failed, TakeStreams
      <4> QED
        BY <2>1, <3>1, <4>1, UntouchedMessages
    <3> QED
      BY <3>2, <3>3
  <2> QED
    BY <2>3 DEF MessageInv
<1> QED
  BY <1>1, <1>2, <1>3 DEF Stop

-----------------------------------------------------------------------------
(* The theorems. *)

\* the inductive invariant
ConnInv ==
    /\ StateOK
    /\ MapInv
    /\ AckInv
    /\ GracefulInv
    /\ WireInv
    /\ ClientCount /\ MessageInv

\* The invariant holds of a new connection.
LEMMA ConnInit ==
    ASSUME Init
    PROVE  ConnInv
<1>1. StateOK
  <2>1. MapType
    <3>1. streams \subseteq Ids /\ pending \subseteq Ids
      BY Zenon DEF Init
    <3>2. active \in Int
      BY DEF Init
    <3>3. io_closed \in BOOLEAN
      BY DEF Init
    <3> QED
      BY <3>1, <3>2, <3>3 DEF MapType
  <2>2. HalfType
    BY DEF Init, HalfType, Halves, Errors
  <2>3. HistoryType
    BY DEF Init, HistoryType, Messages, Written
  <2>4. IdType
    BY DEF Init, IdType, AnyId
  <2>5. FailType
    BY DEF Init, FailType
  <2>6. FlagType
    <3>1. failing \subseteq Ids /\ overflowed \subseteq Ids /\ muted \subseteq Ids
      BY Zenon DEF Init
    <3> QED
      BY <3>1 DEF Init, FlagType
  <2> QED
    BY <2>1, <2>2, <2>3, <2>4, <2>5, <2>6 DEF StateOK
<1>2. MapInv /\ AckInv
  BY <1>1, FS_EmptySet DEF Init, MapInv, IdsOpened, UnopenedIdle, MapIsOpenStreams, ActiveMatches,
       DrainedIsClosed, AckInv, StateOK, FlagType
<1>3. GracefulInv
  BY DEF Init, GracefulInv, GracefulGoAway
<1>4. WireInv
  BY DEF Init, WireInv, WireMatches, WireOrder
<1>5. ClientCount /\ MessageInv
  BY DEF Init, ClientCount, MessageInv, StreamMessages, Owes
<1> QED
  BY <1>1, <1>2, <1>3, <1>4, <1>5 DEF ConnInv

\* Every step keeps the invariant.
LEMMA ConnStep ==
    ASSUME ConnInv, [Next]_vars
    PROVE  ConnInv'
<1> USE DEF ConnInv
<1>1. CASE UNCHANGED vars
  <2>1. UNCHANGED <<mapVars, pending, idVars, halfVars, local_close, rstVars, flagVars, con_error,
                    io_closed, ctl, stopped, calls, ackVars, muted, msg, wire, graceful>>
    BY <1>1 DEF vars
  <2> USE DEF mapVars, idVars, halfVars, rstVars, flagVars
  <2>2. StateOK'
    BY <2>1 DEF StateOK, MapType, HalfType, HistoryType, IdType, FailType, FlagType
  <2>3. MapInv'
    <3>1. DrainedIsClosed'
      BY <2>1 DEF MapInv, DrainedIsClosed
    <3> QED
      BY <2>1, <2>2, <3>1, FrameKeepsIds, SameMap
  <2>4. WireInv'
    BY <2>1, <2>2, FrameKeepsIds, WireKept DEF SendOnlyCloses
  <2>5. MessageInv'
    BY <2>1, SameMessages DEF messageFrame
  <2> QED
    BY <1>1, <2>2, <2>3, <2>4, <2>5, AckStep, GracefulStep, ClientCountStep DEF MapInv
<1>2. CASE Next
  <2>1. StateOK'
    BY <1>2, RecvFrameType, ApplicationType, ServiceType, StopType DEF Next
  <2>2. MapInv'
    BY <1>2, <2>1, RecvFrameMap, ApplicationMap, ServiceMap, StopMap DEF Next
  <2>3. GracefulInv'
    BY <1>2, GracefulStep DEF MapInv
  <2>4. WireInv'
    BY <1>2, <2>1, RecvFrameWire, ApplicationWire, ServiceStopWire DEF Next
  <2>5. ClientCount'
    BY <1>2, ClientCountStep
  <2>6. MessageInv'
    BY <1>2, <2>1, RecvFrameMessages, ApplicationMessages, ServiceMessages, StopMessages DEF Next
  <2>7. AckInv'
    BY <1>2, AckStep
  <2> QED
    BY <2>1, <2>2, <2>3, <2>4, <2>5, <2>6, <2>7
<1> QED
  BY <1>1, <1>2

\* connection.rs, stream.rs, dispatcher.rs: the inductive invariant holds.
THEOREM ConnectionInvariant == Spec => []ConnInv
  BY ConnInit, ConnStep, PTL DEF Spec

\* connection.rs active_remote_streams/active_local_streams: the counter is the
\* size of the map and a server stays within its limit, whatever the limit and
\* the number of streams.
THEOREM ActiveStreamsMatch == Spec => []ActiveMatches
<1>1. ConnInv => ActiveMatches
  BY DEF ConnInv, MapInv
<1> QED
  BY <1>1, ConnectionInvariant, PTL

\* stream.rs review_state, connection.rs drop_stream: the map holds exactly the
\* streams with an open half.
THEOREM MapHoldsOpenStreams == Spec => []MapIsOpenStreams
<1>1. ConnInv => MapIsOpenStreams
  BY DEF ConnInv, MapInv
<1> QED
  BY <1>1, ConnectionInvariant, PTL

\* connection.rs disconnect_when_ready/drop_stream: a drained connection is
\* closed.
THEOREM DrainCloses == Spec => []DrainedIsClosed
<1>1. ConnInv => DrainedIsClosed
  BY DEF ConnInv, MapInv
<1> QED
  BY <1>1, ConnectionInvariant, PTL

\* dispatcher.rs handle_message/publish/handle_connection_error, stream.rs
\* reset: messages come in order, two errors only after a SETTINGS
\* acknowledgment, and a closed stream had its final message or a publish call
\* owes it, with the exceptions FinalMessage names.
THEOREM FinalMessagePublished == Spec => []FinalMessage
<1>1. ConnInv => FinalMessage
  BY DEF ConnInv, MessageInv, StreamMessages, ClosedSaid, Owes, Failed, FinalMessage, StateOK, IdType
<1> QED
  BY <1>1, ConnectionInvariant, PTL

\* stream.rs send_response/send_pages/send_trailers/reset: the frames of every
\* stream are in order.
THEOREM FramesInOrder == Spec => []WireOrder
<1>1. ConnInv => WireOrder
  BY DEF ConnInv, WireInv
<1> QED
  BY <1>1, ConnectionInvariant, PTL

\* connection.rs disconnect_when_ready/recv_headers: no stream above the last id
\* of the graceful GOAWAY is opened.
THEOREM GoAwayHonoured == Spec => []GracefulGoAway
<1>1. ConnInv => GracefulGoAway
  BY DEF ConnInv, GracefulInv
<1> QED
  BY <1>1, ConnectionInvariant, PTL

-----------------------------------------------------------------------------
(***************************************************************************)
(* Recently reset streams: no id is forgotten early, and the set and its   *)
(* queue implement PendingSet, the set that Connection uses.               *)
(*                                                                         *)
(* Neither is inductive.  ResetInv says in addition that the queue holds   *)
(* the ids of the set, each one once and in the order of the resets, and   *)
(* that everything behind an entry was reset after it.  The entries that   *)
(* add() drops are then old, or have MaxResets newer resets behind them.   *)
(***************************************************************************)

USE PendingResetsAssumption

\* the ids of a queue
IdsOf(q) == {q[k].id : k \in 1 .. Len(q)}

\* every id is in the queue once, the older resets are in front
Ordered(q) ==
    \A j, k \in 1 .. Len(q) : j < k => q[j].id # q[k].id /\ q[j].at <= q[k].at

\* the entries agree with the history: the time of the reset, and what is
\* behind an entry was reset later
Traced(q, times, after, clock) ==
    /\ \A k \in 1 .. Len(q) : times[q[k].id] = q[k].at /\ q[k].at <= clock
    /\ \A j, k \in 1 .. Len(q) : j < k => q[k].id \in after[q[j].id]

\* a queue in good order
QueueOK(q, times, after, clock) ==
    q \in Seq(Entry) /\ Ordered(q) /\ Traced(q, times, after, clock)

\* the inductive invariant
ResetInv ==
    /\ PendingTypeOK
    /\ QueueOK(queue, added, newer, now)
    /\ ids = IdsOf(queue)
    /\ Len(queue) <= MaxResets
    /\ \A i \in StreamIds : IsFiniteSet(newer[i])
    /\ NotForgottenEarly

-----------------------------------------------------------------------------
(* Operations on the queue. *)

\* A set of natural numbers that is not empty has a least element.
LEMMA Least ==
    ASSUME NEW S \in SUBSET Nat, S # {}
    PROVE  \E k \in S : \A j \in S : k <= j
<1> DEFINE Less == {p \in Nat \X Nat : p[1] < p[2]}
<1>1. \A n, m \in Nat : <<n, m>> \in Less <=> n < m
  OBVIOUS
<1>2. OpToRel(<, Nat) = Less
  BY DEF OpToRel
<1> HIDE DEF Less
<1>3. IsWellFoundedOn(Less, Nat)
  BY <1>2, NatLessThanWellFounded
<1>4. PICK x \in S : \A y \in S : ~(<<y, x>> \in Less)
  BY <1>3, WFMin
<1>5. ASSUME NEW y \in S
      PROVE  x <= y
  <2>1. x \in Nat /\ y \in Nat
    OBVIOUS
  <2>2. ~(y < x)
    BY <1>1, <1>4, <2>1
  <2> QED
    BY <2>1, <2>2
<1> QED
  BY <1>5

\* r consists of entries of q, in the same order: f gives their places
Embedded(r, q, f) ==
    /\ r \in Seq(Entry)
    /\ f \in [1 .. Len(r) -> 1 .. Len(q)]
    /\ \A k \in 1 .. Len(r) : r[k] = q[f[k]]
    /\ \A j, k \in 1 .. Len(r) : j < k => f[j] < f[k]

\* A queue that keeps entries of a queue in good order is in good order.
LEMMA EmbeddedOK ==
    ASSUME NEW q, NEW times, NEW after, NEW clock, QueueOK(q, times, after, clock),
           NEW r, NEW f, Embedded(r, q, f)
    PROVE  /\ QueueOK(r, times, after, clock)
           /\ IdsOf(r) = {q[f[k]].id : k \in 1 .. Len(r)}
<1>1. Ordered(r)
  <2> SUFFICES ASSUME NEW j \in 1 .. Len(r), NEW k \in 1 .. Len(r), j < k
               PROVE  r[j].id # r[k].id /\ r[j].at <= r[k].at
    BY DEF Ordered
  <2>1. f[j] \in 1 .. Len(q) /\ f[k] \in 1 .. Len(q) /\ f[j] < f[k] /\ r[j] = q[f[j]] /\ r[k] = q[f[k]]
    BY DEF Embedded
  <2>2. Ordered(q)
    BY DEF QueueOK
  <2> QED
    BY <2>1, <2>2 DEF Ordered
<1>2. Traced(r, times, after, clock)
  <2>1. ASSUME NEW k \in 1 .. Len(r)
        PROVE  times[r[k].id] = r[k].at /\ r[k].at <= clock
    <3>1. f[k] \in 1 .. Len(q) /\ r[k] = q[f[k]]
      BY DEF Embedded
    <3> QED
      BY <3>1 DEF QueueOK, Traced
  <2>2. ASSUME NEW j \in 1 .. Len(r), NEW k \in 1 .. Len(r), j < k
        PROVE  r[k].id \in after[r[j].id]
    <3>1. /\ f[j] \in 1 .. Len(q) /\ f[k] \in 1 .. Len(q) /\ f[j] < f[k]
          /\ r[j] = q[f[j]] /\ r[k] = q[f[k]]
      BY <2>2 DEF Embedded
    <3> QED
      BY <3>1 DEF QueueOK, Traced
  <2> QED
    BY <2>1, <2>2 DEF Traced
<1>3. IdsOf(r) = {q[f[k]].id : k \in 1 .. Len(r)}
  BY SMTT(30) DEF IdsOf, Embedded
<1> QED
  BY <1>1, <1>2, <1>3 DEF QueueOK, Embedded

\* Without() takes out one entry of the id, if there is one.
LEMMA WithoutIs ==
    ASSUME NEW q \in Seq(Entry), NEW id, \E k \in 1 .. Len(q) : q[k].id = id
    PROVE  \E p \in 1 .. Len(q) :
              /\ q[p].id = id
              /\ Len(Without(q, id)) = Len(q) - 1
              /\ Embedded(Without(q, id), q, [k \in 1 .. Len(q) - 1 |-> IF k < p THEN k ELSE k + 1])
<1> DEFINE found == {k \in DOMAIN q : q[k].id = id}
<1> DEFINE first == CHOOSE k \in found : \A j \in found : k <= j
<1>1. found \in SUBSET Nat /\ found # {}
  OBVIOUS
<1>2. first \in found
  BY <1>1, Least
<1>3. first \in 1 .. Len(q) /\ q[first].id = id
  BY SMTT(30), <1>2
<1>4. Without(q, id) = SubSeq(q, 1, first - 1) \o SubSeq(q, first + 1, Len(q))
  BY <1>1 DEF Without
<1> HIDE DEF first
<1> DEFINE a == SubSeq(q, 1, first - 1)
<1> DEFINE b == SubSeq(q, first + 1, Len(q))
<1> DEFINE r == Without(q, id)
<1>5. /\ a \in Seq(Entry) /\ Len(a) = first - 1
      /\ b \in Seq(Entry) /\ Len(b) = Len(q) - first
      /\ \A k \in 1 .. first - 1 : a[k] = q[k]
      /\ \A k \in 1 .. Len(q) - first : b[k] = q[k + first]
  BY <1>3
<1>6. r = a \o b
  BY <1>4
<1> HIDE DEF a, b, r
<1>7. /\ r \in Seq(Entry) /\ Len(r) = Len(q) - 1
      /\ \A k \in 1 .. Len(q) - 1 : r[k] = IF k <= first - 1 THEN a[k] ELSE b[k - (first - 1)]
  BY <1>3, <1>5, <1>6, ConcatProperties
<1> DEFINE f == [k \in 1 .. Len(q) - 1 |-> IF k < first THEN k ELSE k + 1]
<1>8. /\ f \in [1 .. Len(q) - 1 -> 1 .. Len(q)]
      /\ \A j, k \in 1 .. Len(q) - 1 : j < k => f[j] < f[k]
  BY <1>3
<1>9. ASSUME NEW k \in 1 .. Len(q) - 1
      PROVE  r[k] = q[f[k]]
  <2>1. CASE k < first
    BY <2>1, <1>3, <1>5, <1>7
  <2>2. CASE k >= first
    <3>1. k - (first - 1) \in 1 .. Len(q) - first /\ k - (first - 1) + first = k + 1
      BY <2>2, <1>3
    <3>2. r[k] = b[k - (first - 1)]
      BY <2>2, <1>3, <1>7
    <3>3. b[k - (first - 1)] = q[k + 1]
      BY <3>1, <1>5
    <3>4. f[k] = k + 1
      BY <2>2, <1>3
    <3> QED
      BY <3>2, <3>3, <3>4
  <2> QED
    BY <2>1, <2>2, <1>3
<1>10. Embedded(r, q, f)
  BY <1>7, <1>8, <1>9 DEF Embedded
<1> QED
  BY <1>3, <1>7, <1>10 DEF r

\* The queue stays in good order without an entry, and its ids are the others.
LEMMA WithoutOK ==
    ASSUME NEW q, NEW times, NEW after, NEW clock, QueueOK(q, times, after, clock), NEW id
    PROVE  /\ QueueOK(Without(q, id), times, after, clock)
           /\ IdsOf(Without(q, id)) = IdsOf(q) \ {id}
           /\ Len(Without(q, id)) <= Len(q)
<1> DEFINE r == Without(q, id)
<1>1. q \in Seq(Entry) /\ Ordered(q)
  BY DEF QueueOK
<1>2. CASE \A k \in 1 .. Len(q) : q[k].id # id
  <2>1. r = q
    BY <1>1, <1>2 DEF Without
  <2> QED
    BY <1>1, <1>2, <2>1 DEF IdsOf
<1>3. CASE \E k \in 1 .. Len(q) : q[k].id = id
  <2>1. PICK p \in 1 .. Len(q) :
              /\ q[p].id = id
              /\ Len(r) = Len(q) - 1
              /\ Embedded(r, q, [k \in 1 .. Len(q) - 1 |-> IF k < p THEN k ELSE k + 1])
    BY <1>1, <1>3, WithoutIs
  <2> HIDE DEF r
  <2> DEFINE f == [k \in 1 .. Len(q) - 1 |-> IF k < p THEN k ELSE k + 1]
  <2>7. Embedded(r, q, f)
    BY <2>1
  <2> HIDE DEF f
  <2>2. /\ QueueOK(r, times, after, clock)
        /\ IdsOf(r) = {q[f[k]].id : k \in 1 .. Len(r)}
    BY <2>7, EmbeddedOK
  <2>3. ASSUME NEW k \in 1 .. Len(r)
        PROVE  f[k] \in 1 .. Len(q) /\ f[k] # p
    BY <1>1, <2>1 DEF f
  <2>4. ASSUME NEW k \in 1 .. Len(q), k # p
        PROVE  \E j \in 1 .. Len(r) : f[j] = k
    <3>1. CASE k < p
      BY <3>1, <1>1, <2>1 DEF f
    <3>2. CASE k > p
      <4>1. k - 1 \in 1 .. Len(r) /\ f[k - 1] = k
        BY <3>2, <1>1, <2>1 DEF f
      <4> QED
        BY <4>1
    <3> QED
      BY <3>1, <3>2, <2>4
  <2>5. \A k \in 1 .. Len(q) : q[k].id = id <=> k = p
    BY <1>1, <2>1 DEF Ordered
  <2>6. IdsOf(r) = IdsOf(q) \ {id}
    <3>1. IdsOf(r) \subseteq IdsOf(q) \ {id}
      BY <2>2, <2>3, <2>5 DEF IdsOf
    <3>2. ASSUME NEW k \in 1 .. Len(q), k # p
          PROVE  q[k].id \in IdsOf(r)
      BY <2>2, <2>4, <3>2
    <3>3. IdsOf(q) \ {id} \subseteq IdsOf(r)
      BY <2>1, <3>2 DEF IdsOf
    <3> QED
      BY <3>1, <3>3
  <2> QED
    BY <1>1, <2>1, <2>2, <2>6 DEF r
<1> QED
  BY <1>2, <1>3

\* The queue stays in good order when entries are taken from the front.
LEMMA SuffixOK ==
    ASSUME NEW q, NEW times, NEW after, NEW clock, QueueOK(q, times, after, clock),
           NEW n \in 0 .. Len(q)
    PROVE  /\ QueueOK(SubSeq(q, n + 1, Len(q)), times, after, clock)
           /\ Len(SubSeq(q, n + 1, Len(q))) = Len(q) - n
           /\ IdsOf(SubSeq(q, n + 1, Len(q))) = IdsOf(q) \ {q[k].id : k \in 1 .. n}
<1> DEFINE r == SubSeq(q, n + 1, Len(q))
<1> DEFINE f == [k \in 1 .. Len(q) - n |-> k + n]
<1>1. q \in Seq(Entry) /\ Ordered(q)
  BY DEF QueueOK
<1>2. /\ r \in Seq(Entry)
      /\ Len(r) = Len(q) - n
      /\ \A k \in 1 .. Len(q) - n : r[k] = q[k + n]
  BY <1>1
<1> HIDE DEF r
<1>3. Embedded(r, q, f)
  BY <1>1, <1>2 DEF Embedded
<1> HIDE DEF f
<1>4. /\ QueueOK(r, times, after, clock)
      /\ IdsOf(r) = {q[f[k]].id : k \in 1 .. Len(r)}
  BY <1>3, EmbeddedOK
<1>5. ASSUME NEW k \in 1 .. Len(r)
      PROVE  f[k] \in 1 .. Len(q) /\ f[k] > n
  BY <1>1, <1>2 DEF f
<1>6. ASSUME NEW k \in 1 .. Len(q), k > n
      PROVE  \E j \in 1 .. Len(r) : f[j] = k
  <2>1. k - n \in 1 .. Len(r) /\ f[k - n] = k
    BY <1>1, <1>2, <1>6 DEF f
  <2> QED
    BY <2>1
<1>7. \A j \in 1 .. n, k \in 1 .. Len(q) : k > n => q[j].id # q[k].id
  BY <1>1 DEF Ordered
<1>8. IdsOf(r) \subseteq IdsOf(q) \ {q[k].id : k \in 1 .. n}
  BY <1>4, <1>5, <1>7 DEF IdsOf
<1>9. IdsOf(q) \ {q[k].id : k \in 1 .. n} \subseteq IdsOf(r)
  <2>1. ASSUME NEW k \in 1 .. Len(q), \A j \in 1 .. n : q[k].id # q[j].id
        PROVE  q[k].id \in IdsOf(r)
    <3>1. k > n
      BY <1>1, <2>1
    <3> QED
      BY <3>1, <1>4, <1>6
  <2> QED
    BY <2>1 DEF IdsOf
<1> QED
  BY <1>2, <1>4, <1>8, <1>9 DEF r

\* add() drops as many entries as it must: old ones, or those that MaxResets
\* resets follow, the added one included.
LEMMA DropCountIs ==
    ASSUME NEW q \in Seq(Entry), Ordered(q), now \in 0 .. MaxTime, MaxResets > 0
    PROVE  /\ DropCount(q) \in 0 .. Len(q)
           /\ Len(q) - DropCount(q) < MaxResets
           /\ \A k \in 1 .. DropCount(q) : Expired(q[k]) \/ Len(q) - k + 1 >= MaxResets
<1> DEFINE Front(k) == /\ \A j \in 1 .. k : Expired(q[j])
                       /\ k < Len(q) => ~Expired(q[k + 1])
<1> DEFINE old == CHOOSE k \in 0 .. Len(q) : Front(k)
<1> DEFINE stays == {k \in 0 .. Len(q) : k < Len(q) => ~Expired(q[k + 1])}
<1>1. stays \in SUBSET Nat /\ Len(q) \in stays
  OBVIOUS
<1>2. PICK k \in stays : \A j \in stays : k <= j
  BY <1>1, Least
<1>3. ASSUME NEW j \in 1 .. k
      PROVE  Expired(q[j])
  <2>1. j - 1 \in 0 .. Len(q) /\ j - 1 < k /\ j - 1 < Len(q) /\ j - 1 + 1 = j
    BY <1>2
  <2>2. j - 1 \notin stays
    BY <1>2, <2>1
  <2> QED
    BY <2>1, <2>2
<1>4. k \in 0 .. Len(q) /\ Front(k)
  BY <1>2, <1>3
<1>5. old \in 0 .. Len(q) /\ Front(old)
  BY <1>4
<1>6. DropCount(q) = IF Len(q) - old >= MaxResets THEN Len(q) - MaxResets + 1 ELSE old
  BY DEF DropCount
<1> HIDE DEF old
<1> QED
  BY <1>5, <1>6

\* A queue has at least as many ids behind an entry as it has entries there.
LEMMA ManyBehind ==
    ASSUME NEW q \in Seq(Entry), Ordered(q), NEW S, IsFiniteSet(S),
           NEW k \in 1 .. Len(q), \A j \in 1 .. Len(q) : j > k => q[j].id \in S
    PROVE  Cardinality(S) >= Len(q) - k
<1> DEFINE f == [j \in k + 1 .. Len(q) |-> q[j].id]
<1>1. f \in Injection(k + 1 .. Len(q), S)
  <2>1. f \in [k + 1 .. Len(q) -> S]
    OBVIOUS
  <2>2. \A i, j \in k + 1 .. Len(q) : f[i] = f[j] => i = j
    BY DEF Ordered
  <2> QED
    BY <2>1, <2>2 DEF Injection, IsInjective
<1>2. Cardinality(k + 1 .. Len(q)) = Len(q) - k
  <2>1. Len(q) \in Int /\ k + 1 \in Int
    OBVIOUS
  <2> QED
    BY <2>1, FS_Interval
<1> QED
  BY <1>1, <1>2, FS_Injection, FS_CardinalityType
\* how a reset changes the history of the ids in a queue
Recorded(r, times, after, times2, after2, e) ==
    /\ times2[e.id] = e.at
    /\ \A k \in 1 .. Len(r) : times2[r[k].id] = times[r[k].id]
    /\ \A k \in 1 .. Len(r) : after2[r[k].id] = after[r[k].id] \union {e.id}

\* The queue stays in good order when a new entry is put at its end.
LEMMA AppendOK ==
    ASSUME NEW r, NEW times, NEW after, NEW clock, QueueOK(r, times, after, clock),
           NEW e \in Entry, e.id \notin IdsOf(r), e.at = clock,
           NEW times2, NEW after2, Recorded(r, times, after, times2, after2, e)
    PROVE  /\ QueueOK(Append(r, e), times2, after2, clock)
           /\ IdsOf(Append(r, e)) = IdsOf(r) \union {e.id}
           /\ Len(Append(r, e)) = Len(r) + 1
<1> DEFINE a == Append(r, e)
<1> USE DEF Recorded
<1>1. r \in Seq(Entry) /\ Ordered(r) /\ Traced(r, times, after, clock)
  BY DEF QueueOK
<1>2. /\ a \in Seq(Entry) /\ Len(a) = Len(r) + 1
      /\ a[Len(r) + 1] = e /\ \A k \in 1 .. Len(r) : a[k] = r[k]
  BY <1>1
<1> HIDE DEF a
<1>3. \A k \in 1 .. Len(r) : r[k].id # e.id /\ r[k].at <= e.at
  BY <1>1 DEF Traced, IdsOf
<1>4. Ordered(a)
  BY <1>1, <1>2, <1>3, SMTT(30) DEF Ordered
<1>5. ASSUME NEW k \in 1 .. Len(a)
      PROVE  times2[a[k].id] = a[k].at /\ a[k].at <= clock
  <2>1. CASE k = Len(r) + 1
    <3>1. clock \in Int
      BY DEF Entry
    <3> QED
      BY <2>1, <1>2, <3>1
  <2>2. CASE k \in 1 .. Len(r)
    BY <2>2, <1>1, <1>2 DEF Traced
  <2> QED
    BY <2>1, <2>2, <1>1, <1>2
<1>6. ASSUME NEW j \in 1 .. Len(a), NEW k \in 1 .. Len(a), j < k
      PROVE  a[k].id \in after2[a[j].id]
  <2>4. j \in 1 .. Len(r)
    BY <1>1, <1>2, <1>6
  <2>1. j \in 1 .. Len(r) /\ a[j] = r[j] /\ after2[a[j].id] = after[r[j].id] \union {e.id}
    BY <2>4, <1>2
  <2>2. CASE k = Len(r) + 1
    BY <2>1, <2>2, <1>2
  <2>3. CASE k \in 1 .. Len(r)
    BY <2>1, <2>3, <1>1, <1>2, <1>6 DEF Traced
  <2> QED
    BY <2>2, <2>3, <1>1, <1>2
<1>7. Traced(a, times2, after2, clock)
  BY <1>5, <1>6 DEF Traced
<1>8. IdsOf(a) = IdsOf(r) \union {e.id}
  <2>1. \A k \in 1 .. Len(a) : k \in 1 .. Len(r) \/ k = Len(r) + 1
    BY <1>1, <1>2
  <2>2. \A k \in 1 .. Len(r) : k \in 1 .. Len(a)
    BY <1>1, <1>2
  <2>3. Len(r) + 1 \in 1 .. Len(a)
    BY <1>1, <1>2
  <2> QED
    BY <2>1, <2>2, <2>3, <1>2 DEF IdsOf
<1> QED
  BY <1>2, <1>4, <1>7, <1>8 DEF QueueOK, a

-----------------------------------------------------------------------------
(* The invariant. *)

\* Pending::add() keeps the queue in good order, within MaxResets, and forgets
\* no id early.
LEMMA AddStep ==
    ASSUME ResetInv, NEW id \in StreamIds, Add(id)
    PROVE  ResetInv'
<1> DEFINE q == IF id \in ids THEN Without(queue, id) ELSE queue
<1> DEFINE n == DropCount(q)
<1> DEFINE dropped == {q[k].id : k \in 1 .. n}
<1> DEFINE r == SubSeq(q, n + 1, Len(q))
<1>1. /\ QueueOK(queue, added, newer, now) /\ ids = IdsOf(queue) /\ Len(queue) <= MaxResets
      /\ ids \subseteq StreamIds /\ now \in 0 .. MaxTime /\ queue \in Seq(Entry)
      /\ added \in [StreamIds -> {Never} \union 0 .. MaxTime]
      /\ newer \in [StreamIds -> SUBSET StreamIds]
      /\ \A i \in StreamIds : IsFiniteSet(newer[i])
  BY DEF ResetInv, PendingTypeOK
<1>2. /\ now' = now
      /\ added' = [added EXCEPT ![id] = now]
      /\ newer' = [i \in StreamIds |-> IF i = id THEN {} ELSE newer[i] \union {id}]
  BY DEF Add
<1>3. /\ added' \in [StreamIds -> {Never} \union 0 .. MaxTime]
      /\ newer' \in [StreamIds -> SUBSET StreamIds]
      /\ added'[id] = now /\ \A i \in StreamIds : i # id => added'[i] = added[i]
      /\ \A i \in StreamIds : i # id => newer'[i] = newer[i] \union {id}
  BY <1>1, <1>2
<1>4. \A i \in StreamIds : IsFiniteSet(newer'[i])
  BY <1>1, <1>2, FS_EmptySet, FS_AddElement
<1>5. CASE MaxResets = 0
  <2>1. ids' = {} /\ queue' = <<>>
    BY <1>5 DEF Add
  <2>2. QueueOK(queue', added', newer', now') /\ IdsOf(queue') = {}
    BY <2>1 DEF QueueOK, Ordered, Traced, IdsOf
  <2>3. NotForgottenEarly'
    BY <1>4, <1>5, FS_CardinalityType DEF NotForgottenEarly
  <2>4. queue' \in Seq(Entry) /\ Len(queue') <= MaxResets
    BY <1>5, <2>1
  <2>5. ids' \subseteq StreamIds /\ ids' = IdsOf(queue')
    BY <2>1, <2>2
  <2> QED
    BY <1>1, <1>2, <1>3, <1>4, <2>2, <2>3, <2>4, <2>5 DEF ResetInv, PendingTypeOK
<1>6. CASE MaxResets > 0
  <2>1. QueueOK(q, added, newer, now) /\ IdsOf(q) = ids \ {id} /\ Len(q) <= MaxResets
    <3>1. CASE id \in ids
      <4>1. /\ QueueOK(Without(queue, id), added, newer, now)
            /\ IdsOf(Without(queue, id)) = ids \ {id}
            /\ Len(Without(queue, id)) <= Len(queue)
        BY <1>1, WithoutOK
      <4>2. Without(queue, id) \in Seq(Entry)
        BY <4>1 DEF QueueOK
      <4> QED
        BY <1>1, <3>1, <4>1, <4>2
    <3>2. CASE id \notin ids
      BY <1>1, <3>2
    <3> QED
      BY <3>1, <3>2
  <2>2. ids' = (ids \ dropped) \union {id} /\ queue' = Append(r, EntryNow(id))
    <3>1. MaxResets # 0
      BY <1>6
    <3> QED
      BY <3>1 DEF Add
  <2> HIDE DEF q
  <2>3. q \in Seq(Entry) /\ Ordered(q)
    BY <2>1 DEF QueueOK
  <2>4. /\ n \in 0 .. Len(q)
        /\ Len(q) - n < MaxResets
        /\ \A k \in 1 .. n : Expired(q[k]) \/ Len(q) - k + 1 >= MaxResets
    BY <1>1, <1>6, <2>3, DropCountIs
  <2> HIDE DEF n
  <2>5. /\ QueueOK(r, added, newer, now)
        /\ Len(r) = Len(q) - n
        /\ IdsOf(r) = IdsOf(q) \ dropped
    BY <2>1, <2>4, SuffixOK
  <2>6. r \in Seq(Entry)
    BY <2>5 DEF QueueOK
  <2> HIDE DEF r, dropped
  <2>7. \A k \in 1 .. Len(r) : r[k].id \in StreamIds /\ r[k].id # id
    <3>1. \A k \in 1 .. Len(r) : r[k].id \in IdsOf(r)
      BY DEF IdsOf
    <3> QED
      BY <1>1, <2>1, <2>5, <3>1
  <2>8. EntryNow(id) \in Entry /\ EntryNow(id).id = id /\ EntryNow(id).at = now
    BY <1>1 DEF EntryNow, Entry
  <2>9. id \notin IdsOf(r)
    BY <2>1, <2>5
  <2>10. /\ QueueOK(Append(r, EntryNow(id)), added', newer', now)
         /\ IdsOf(Append(r, EntryNow(id))) = IdsOf(r) \union {id}
         /\ Len(Append(r, EntryNow(id))) = Len(r) + 1
    <3> DEFINE e == EntryNow(id)
    <3>1. e \in Entry /\ e.id = id /\ e.at = now
      BY <2>8
    <3> HIDE DEF e
    <3>2. Recorded(r, added, newer, added', newer', e) /\ e.id \notin IdsOf(r)
      BY <1>3, <2>7, <2>9, <3>1 DEF Recorded
    <3>3. /\ QueueOK(Append(r, e), added', newer', now)
          /\ IdsOf(Append(r, e)) = IdsOf(r) \union {e.id}
          /\ Len(Append(r, e)) = Len(r) + 1
      BY <2>5, <3>1, <3>2, AppendOK
    <3> QED
      BY <3>1, <3>3 DEF e
  <2>11. /\ QueueOK(queue', added', newer', now')
         /\ ids' = IdsOf(queue') /\ Len(queue') <= MaxResets
    BY <1>2, <2>1, <2>2, <2>3, <2>4, <2>5, <2>10
  <2>12. ids' \subseteq StreamIds /\ queue' \in Seq(Entry)
    BY <1>1, <2>2, <2>11 DEF QueueOK
  <2>13. ASSUME NEW i \in StreamIds,
                added'[i] # Never, now' - added'[i] <= ResetDuration,
                Cardinality(newer'[i]) < MaxResets
         PROVE  i \in ids'
    <3>1. CASE i = id
      BY <2>2, <3>1
    <3>2. CASE i # id
      <4>1. added'[i] = added[i] /\ newer'[i] = newer[i] \union {id}
        BY <1>3, <3>2
      <4>2. Cardinality(newer[i]) <= Cardinality(newer'[i])
        BY <1>1, <1>4, <4>1, FS_Subset
      <4>3. Cardinality(newer[i]) \in Nat /\ Cardinality(newer'[i]) \in Nat
        BY <1>1, <1>4, FS_CardinalityType
      <4>4. i \in ids
        BY <1>2, <2>13, <4>1, <4>2, <4>3 DEF ResetInv, NotForgottenEarly
      <4>5. PICK k \in 1 .. Len(q) : q[k].id = i
        BY <2>1, <3>2, <4>4 DEF IdsOf
      <4>6. /\ added[i] = q[k].at
            /\ \A j \in 1 .. Len(q) : j > k => q[j].id \in newer[i]
        BY <2>1, <4>5 DEF QueueOK, Traced
      <4>7. \A j \in 1 .. Len(q) : q[j].id # id
        <5>1. \A j \in 1 .. Len(q) : q[j].id \in IdsOf(q)
          BY DEF IdsOf
        <5> QED
          BY <2>1, <5>1
      <4>8. Cardinality(newer[i] \ {id}) >= Len(q) - k
        <5>1. IsFiniteSet(newer[i] \ {id})
          BY <1>1, FS_RemoveElement
        <5> QED
          BY <2>3, <4>6, <4>7, <5>1, ManyBehind
      <4>9. Cardinality(newer'[i]) = Cardinality(newer[i] \ {id}) + 1
        <5>1. IsFiniteSet(newer[i] \ {id})
          BY <1>1, FS_RemoveElement
        <5>2. newer'[i] = (newer[i] \ {id}) \union {id} /\ id \notin newer[i] \ {id}
          BY <4>1
        <5> QED
          BY <5>1, <5>2, FS_AddElement
      <4>10. ~(Len(q) - k + 1 >= MaxResets)
        <5>1. Cardinality(newer[i] \ {id}) \in Nat
          BY <1>1, FS_RemoveElement, FS_CardinalityType
        <5> QED
          BY <2>3, <2>13, <4>3, <4>8, <4>9, <5>1
      <4>11. ~Expired(q[k])
        <5>1. added[i] \in 0 .. MaxTime
          BY <1>1, <2>13, <4>1
        <5> QED
          BY <1>1, <1>2, <2>13, <4>1, <4>6, <5>1 DEF Expired
      <4>12. k \notin 1 .. n
        BY <2>4, <4>10, <4>11
      <4>13. i \notin dropped
        <5>1. \A j \in 1 .. n : q[j].id # i
          BY <2>3, <2>4, <4>5, <4>12 DEF Ordered
        <5> QED
          BY <5>1 DEF dropped
      <4> QED
        BY <2>2, <4>4, <4>13
    <3> QED
      BY <3>1, <3>2
  <2>14. NotForgottenEarly'
    BY <2>13 DEF NotForgottenEarly
  <2> QED
    BY <1>1, <1>2, <1>3, <1>4, <2>11, <2>12, <2>14 DEF ResetInv, PendingTypeOK
<1> QED
  BY <1>5, <1>6

\* Pending::remove() keeps the invariant.
LEMMA RemoveStep ==
    ASSUME ResetInv, NEW id \in StreamIds, Remove(id)
    PROVE  ResetInv'
<1>1. /\ QueueOK(queue, added, newer, now) /\ ids = IdsOf(queue) /\ Len(queue) <= MaxResets
      /\ ids \subseteq StreamIds /\ now \in 0 .. MaxTime /\ queue \in Seq(Entry)
      /\ added \in [StreamIds -> {Never} \union 0 .. MaxTime]
      /\ newer \in [StreamIds -> SUBSET StreamIds]
      /\ \A i \in StreamIds : IsFiniteSet(newer[i])
      /\ NotForgottenEarly
  BY DEF ResetInv, PendingTypeOK
<1>2. /\ now' = now /\ newer' = newer /\ ids' = ids \ {id}
      /\ queue' = IF id \in ids THEN Without(queue, id) ELSE queue
      /\ added' = [added EXCEPT ![id] = Never]
  BY DEF Remove
<1>3. /\ added' \in [StreamIds -> {Never} \union 0 .. MaxTime]
      /\ added'[id] = Never /\ \A i \in StreamIds : i # id => added'[i] = added[i]
  BY <1>1, <1>2
<1>4. /\ QueueOK(queue', added, newer, now)
      /\ ids' = IdsOf(queue')
      /\ Len(queue') <= MaxResets
  <2>1. CASE id \in ids
    <3>1. /\ QueueOK(Without(queue, id), added, newer, now)
          /\ IdsOf(Without(queue, id)) = ids \ {id}
          /\ Len(Without(queue, id)) <= Len(queue)
      BY <1>1, WithoutOK
    <3>2. Without(queue, id) \in Seq(Entry)
      BY <3>1 DEF QueueOK
    <3> QED
      BY <1>1, <1>2, <2>1, <3>1, <3>2
  <2>2. CASE id \notin ids
    BY <1>1, <1>2, <2>2
  <2> QED
    BY <2>1, <2>2
<1>5. \A k \in 1 .. Len(queue') : queue'[k].id \in StreamIds /\ queue'[k].id # id
  <2>1. \A k \in 1 .. Len(queue') : queue'[k].id \in IdsOf(queue')
    BY DEF IdsOf
  <2> QED
    BY <1>1, <1>2, <1>4, <2>1
<1>6. QueueOK(queue', added', newer', now')
  BY <1>2, <1>3, <1>4, <1>5 DEF QueueOK, Traced
<1>7. NotForgottenEarly'
  BY <1>1, <1>2, <1>3 DEF NotForgottenEarly
<1>8. queue' \in Seq(Entry)
  BY <1>6 DEF QueueOK
<1> QED
  BY <1>1, <1>2, <1>3, <1>4, <1>6, <1>7, <1>8 DEF ResetInv, PendingTypeOK

\* A tick of the clock keeps the invariant: entries only become older.
LEMMA TickStep ==
    ASSUME ResetInv, Tick
    PROVE  ResetInv'
<1>1. now \in 0 .. MaxTime /\ now' \in 0 .. MaxTime /\ now' = now + 1
  BY DEF ResetInv, PendingTypeOK, Tick
<1>2. ids' = ids /\ queue' = queue /\ added' = added /\ newer' = newer
  BY DEF Tick
<1>3. QueueOK(queue', added', newer', now')
  <2>1. \A k \in 1 .. Len(queue) : queue[k].at <= now => queue[k].at <= now'
    <3>1. queue \in Seq(Entry)
      BY DEF ResetInv, PendingTypeOK
    <3>2. \A k \in 1 .. Len(queue) : queue[k].at \in 0 .. MaxTime
      <4>1. \A k \in 1 .. Len(queue) : queue[k] \in Entry
        BY <3>1
      <4> QED
        BY <4>1 DEF Entry
    <3> QED
      BY <1>1, <3>2
  <2> QED
    BY <1>2, <2>1 DEF ResetInv, QueueOK, Traced
<1>4. NotForgottenEarly'
  <2>1. \A i \in StreamIds : added[i] # Never => added[i] \in 0 .. MaxTime
    BY DEF ResetInv, PendingTypeOK
  <2> QED
    BY <1>1, <1>2, <2>1 DEF ResetInv, NotForgottenEarly
<1> QED
  BY <1>1, <1>2, <1>3, <1>4 DEF ResetInv, PendingTypeOK

\* The queue of recently reset streams is always in good order: it holds the
\* ids of the set once each, in the order of their resets.
THEOREM ResetInvariant == PendingSpec => []ResetInv
<1>1. PendingInit => ResetInv
  <2> SUFFICES ASSUME PendingInit PROVE ResetInv
    OBVIOUS
  <2>2. PendingTypeOK
    BY DEF PendingInit, PendingTypeOK
  <2>3. QueueOK(queue, added, newer, now) /\ ids = IdsOf(queue) /\ Len(queue) <= MaxResets
    BY DEF PendingInit, QueueOK, Ordered, Traced, IdsOf
  <2>4. \A i \in StreamIds : IsFiniteSet(newer[i])
    BY FS_EmptySet DEF PendingInit
  <2>5. NotForgottenEarly
    BY DEF PendingInit, NotForgottenEarly
  <2> QED
    BY <2>2, <2>3, <2>4, <2>5 DEF ResetInv
<1>2. ResetInv /\ [PendingNext]_pendingVars => ResetInv'
  <2> SUFFICES ASSUME ResetInv, [PendingNext]_pendingVars PROVE ResetInv'
    OBVIOUS
  <2>1. CASE Tick
    BY <2>1, TickStep
  <2>2. CASE \E id \in StreamIds : Add(id)
    BY <2>2, AddStep
  <2>3. CASE \E id \in StreamIds : Remove(id)
    BY <2>3, RemoveStep
  <2>4. CASE UNCHANGED pendingVars
    BY <2>4 DEF pendingVars, ResetInv, PendingTypeOK, QueueOK, Ordered, Traced, IdsOf, NotForgottenEarly
  <2> QED
    BY <2>1, <2>2, <2>3, <2>4 DEF PendingNext
<1> QED
  BY <1>1, <1>2, PTL DEF PendingSpec

\* connection.rs Pending::add: an id is forgotten only after its duration, or
\* when MaxResets other streams were reset after it.
THEOREM IdsNotForgottenEarly == PendingSpec => []NotForgottenEarly
<1>1. ResetInv => NotForgottenEarly
  BY DEF ResetInv
<1> QED
  BY <1>1, ResetInvariant, PTL

-----------------------------------------------------------------------------
(* The refinement. *)

\* A queue in good order has as many ids as entries.
LEMMA IdsWithinMax ==
    ASSUME NEW q \in Seq(Entry), NEW S, S = IdsOf(q)
    PROVE  IsFiniteSet(S) /\ Cardinality(S) <= Len(q)
<1> DEFINE f == [k \in 1 .. Len(q) |-> q[k].id]
<1>1. f \in Surjection(1 .. Len(q), S)
  BY DEF Surjection, IdsOf
<1>2. IsFiniteSet(1 .. Len(q)) /\ Cardinality(1 .. Len(q)) = Len(q)
  <2>1. Len(q) \in Nat
    OBVIOUS
  <2> DEFINE a == 1
             b == Len(q)
  <2>2. a \in Int /\ b \in Int /\ (IF a > b THEN 0 ELSE b - a + 1) = b
    BY <2>1
  <2> HIDE DEF a, b
  <2>3. IsFiniteSet(a .. b) /\ Cardinality(a .. b) = (IF a > b THEN 0 ELSE b - a + 1)
    BY <2>2, FS_Interval, ZenonT(30)
  <2> QED
    BY <2>2, <2>3 DEF a, b
<1> QED
  BY <1>1, <1>2, FS_Surjection

\* A step of add() is a step of the abstract set: the id is in, unless no id is
\* kept at all, what else is in was there before, and MaxResets is respected.
LEMMA AddImplements ==
    ASSUME ResetInv, ResetInv', NEW id \in StreamIds, Add(id)
    PROVE  Abstract!Add(id)
<1>1. IsFiniteSet(ids') /\ Cardinality(ids') <= Len(queue') /\ Len(queue') <= MaxResets
  <2>1. queue' \in Seq(Entry) /\ ids' = IdsOf(queue') /\ Len(queue') <= MaxResets
    BY DEF ResetInv, PendingTypeOK
  <2> QED
    BY <2>1, IdsWithinMax
<1>2. Cardinality(ids') \in Nat /\ Len(queue') \in Nat
  <2>1. queue' \in Seq(Entry)
    BY DEF ResetInv, PendingTypeOK
  <2> QED
    BY <1>1, <2>1, FS_CardinalityType
<1>3. ids' \subseteq ids \union {id}
  BY DEF Add
<1>4. Cardinality({id}) = 1
  BY FS_Singleton
<1>5. Abstract!Min({1, MaxResets}) = IF MaxResets = 0 THEN 0 ELSE 1
  <2>1. \E x \in {1, MaxResets} : \A y \in {1, MaxResets} : x <= y
    OBVIOUS
  <2>2. /\ Abstract!Min({1, MaxResets}) \in {1, MaxResets}
        /\ \A y \in {1, MaxResets} : Abstract!Min({1, MaxResets}) <= y
    BY <2>1 DEF Abstract!Min
  <2> QED
    BY <2>2
<1>6. Cardinality(ids' \intersect {id}) >= Abstract!Min({1, MaxResets})
  <2>1. CASE MaxResets = 0
    <3>1. ids' \intersect {id} = {}
      BY <2>1 DEF Add
    <3> QED
      BY <1>5, <2>1, <3>1, FS_EmptySet
  <2>2. CASE MaxResets # 0
    <3>1. ids' \intersect {id} = {id}
      BY <2>2 DEF Add
    <3> QED
      BY <1>4, <1>5, <2>2, <3>1
  <2> QED
    BY <2>1, <2>2
<1>7. Cardinality(ids') <= MaxResets
  BY <1>1, <1>2
<1>8. ids' \in Abstract!After(ids, {id})
  <2>1. \A S : Abstract!Cardinality(S) = Cardinality(S)
    BY DEF Abstract!Cardinality, Cardinality
  <2> QED
    BY <1>3, <1>4, <1>6, <1>7, <2>1 DEF Abstract!After
<1> QED
  BY <1>8 DEF Abstract!Add

\* The set with its queue and its clock implements the set that the connection
\* is modelled with: what Connection shows of PendingSet holds of Pending.
THEOREM PendingSetImplemented == PendingSpec => ImplementsPendingSet
<1>1. PendingInit => Abstract!Init
  BY DEF PendingInit, Abstract!Init
<1>2. ResetInv /\ ResetInv' /\ [PendingNext]_pendingVars => [Abstract!Next]_ids
  <2> SUFFICES ASSUME ResetInv, ResetInv', [PendingNext]_pendingVars PROVE [Abstract!Next]_ids
    OBVIOUS
  <2>1. CASE Tick
    BY <2>1 DEF Tick
  <2>2. ASSUME NEW id \in StreamIds, Add(id)
        PROVE  Abstract!Next
    BY <2>2, AddImplements DEF Abstract!Next
  <2>3. ASSUME NEW id \in StreamIds, Remove(id)
        PROVE  Abstract!Next
    BY <2>3 DEF Remove, Abstract!Next, Abstract!Remove
  <2>4. CASE UNCHANGED pendingVars
    BY <2>4 DEF pendingVars
  <2> QED
    BY <2>1, <2>2, <2>3, <2>4 DEF PendingNext
<1> QED
  BY <1>1, <1>2, ResetInvariant, PTL DEF PendingSpec, Abstract!Spec, ImplementsPendingSet
=============================================================================
