------------------------ MODULE RequestMetricsProofs ------------------------
(***************************************************************************)
(* What a request leaves in the metrics, for any set of requests and       *)
(* answers.  Streams: streams_active is an exact gauge, and every stream   *)
(* ends once.  Samples: a request is recorded once and its round trip at   *)
(* most once, under labels that agree with each other, with the answer and *)
(* with the bytes counted on both legs.                                    *)
(***************************************************************************)
EXTENDS RequestMetrics, TLAPS

Labels == {"idle", "passthrough", "copying", "closing", "cut", "upgrading",
           "upgraded", "audited", "sent", "replying", "deferred", "recorded"}
ByteLabels == [leg : {"client", "backend"}, direction : {"read", "write"}, streaming : BOOLEAN]
Outcomes == {"backend_close", "read_error", "client_cancel"}

----------------------------------------------------------------------------
(* What the helpers write has its type.                                    *)

(* Goto stays among the labels.                                            *)
LEMMA GotoType ==
    ASSUME TypeOK, NEW r \in Requests, NEW l \in Labels, Goto(r, l)
    PROVE  pc' \in [Requests -> Labels]
BY DEF TypeOK, Goto, Labels

(* metricResponseWriter.WriteHeader keeps status codes numbers.            *)
LEMMA WriteHeaderType ==
    ASSUME TypeOK, NEW r \in Requests, NEW code \in Nat, WriteHeader(r, code)
    PROVE  statusCode' \in [Requests -> Nat] /\ answer' \in [Requests -> Nat]
BY DEF TypeOK, WriteHeader

(* A label of the byte counters is one of eight.                           *)
LEMMA BytesType ==
    ASSUME NEW leg \in {"client", "backend"}, NEW direction \in {"read", "write"},
           NEW streaming \in BOOLEAN
    PROVE  Bytes(leg, direction, streaming) \in ByteLabels
BY DEF Bytes, ByteLabels

(* Counting more bytes keeps the labels.                                   *)
LEMMA AddBytesType ==
    ASSUME TypeOK, NEW r \in Requests, NEW more \in SUBSET ByteLabels, AddBytes(r, more)
    PROVE  bytes' \in [Requests -> SUBSET ByteLabels]
BY DEF TypeOK, AddBytes, ByteLabels

(* A metric state says whether its request streams.                        *)
LEMMA StreamingType ==
    ASSUME TypeOK, NEW r \in Requests PROVE state[r] \in MetricState /\ state[r].streaming \in BOOLEAN
BY DEF TypeOK, MetricState

(* http.Error writes a header and a body, both typed.                      *)
LEMMA HTTPErrorType ==
    ASSUME TypeOK, NEW r \in Requests, NEW code \in Nat, HTTPError(r, code)
    PROVE  /\ statusCode' \in [Requests -> Nat] /\ answer' \in [Requests -> Nat]
           /\ bytes' \in [Requests -> SUBSET ByteLabels]
<1>1. {Bytes("client", "write", state[r].streaming)} \in SUBSET ByteLabels
  BY StreamingType, BytesType
<1> QED BY <1>1, WriteHeaderType, AddBytesType DEF HTTPError

(* normalizeProto answers one of the known labels.                         *)
LEMMA NormalizeProtoType ==
    ASSUME NEW proto PROVE NormalizeProto(proto) \in Proto \cup {"unknown", "other"}
BY DEF NormalizeProto, Proto

(* An answer of the backend carries a known protocol.                      *)
LEMMA ProtoOfResponse ==
    ASSUME NEW resp \in Responses
    PROVE  /\ NormalizeProto(resp.proto) \in Proto
           /\ resp.proto \in {"HTTP/1.1", "HTTP/2.0"}
           /\ resp.stream \in BOOLEAN
           /\ resp.status \in Nat
           /\ resp # NoResponse
<1>1. resp \in [status : Nat \ 0 .. 100, stream : BOOLEAN, proto : {"HTTP/1.1", "HTTP/2.0"}]
  BY MetricsAssumption
<1>2. resp.status # 0
  BY <1>1
<1>3. NormalizeProto("HTTP/1.1") = "http1" /\ NormalizeProto("HTTP/2.0") = "http2"
  BY DEF NormalizeProto
<1>4. resp.proto \in {"HTTP/1.1", "HTTP/2.0"} /\ resp.stream \in BOOLEAN /\ resp.status \in Nat
  BY <1>1
<1>5. NoResponse.status = 0
  BY DEF NoResponse
<1> QED BY <1>2, <1>3, <1>4, <1>5 DEF Proto

(* recordBackendRoundTrip adds a typed sample.                             *)
LEMMA RecordBackendRoundTripType ==
    ASSUME TypeOK, NEW r \in Requests, NEW st \in MetricState, NEW outcome \in {"ok", "error"},
           RecordBackendRoundTrip(r, st, outcome)
    PROVE  state' \in [Requests -> MetricState] /\ roundTrips' \in [Requests -> Seq(RoundTripSample)]
<1>1. [st EXCEPT !.backendObserved = TRUE] \in MetricState
  BY DEF MetricState
<1>2. [verb |-> st.verb, streaming |-> st.streaming, outcome |-> outcome,
       backendProto |-> NormalizeProto(st.backendProto)] \in RoundTripSample
  BY NormalizeProtoType DEF RoundTripSample, MetricState
<1>3. state' \in [Requests -> MetricState]
  BY <1>1 DEF RecordBackendRoundTrip, TypeOK
<1>4. roundTrips \in [Requests -> Seq(RoundTripSample)]
  BY DEF TypeOK
<1> QED BY <1>2, <1>3, <1>4 DEF RecordBackendRoundTrip

(* setBackend keeps the metric state typed.                                *)
LEMMA SetBackendType ==
    ASSUME NEW st \in MetricState, NEW proto \in {"HTTP/1.1", "HTTP/2.0"}, NEW streaming \in BOOLEAN
    PROVE  SetBackend(st, proto, streaming) \in MetricState
BY DEF SetBackend, MetricState

(* StreamStarted keeps the gauge typed.                                    *)
LEMMA StreamStartedType ==
    ASSUME TypeOK, NEW r \in Requests, NEW resp \in Responses, StreamStarted(r, resp.proto)
    PROVE  streamsActive' \in [Proto -> Int] /\ onClose' \in [Requests -> BOOLEAN]
             /\ streamEnds' = streamEnds
BY ProtoOfResponse DEF TypeOK, StreamStarted

(* The onClose callback records a typed end and empties itself.            *)
LEMMA CallOnCloseType ==
    ASSUME TypeOK, NEW r \in Requests, onClose[r] => response[r] \in Responses,
           NEW outcome \in Outcomes, CallOnClose(r, outcome)
    PROVE  /\ streamsActive' \in [Proto -> Int] /\ onClose' \in [Requests -> BOOLEAN]
           /\ streamEnds' \in [Requests -> Seq(Outcomes)]
<1>1. CASE onClose[r]
  <2>1. NormalizeProto(response[r].proto) \in Proto
    BY <1>1, ProtoOfResponse
  <2>2. streamEnds \in [Requests -> Seq(Outcomes)]
    BY DEF TypeOK, Outcomes
  <2>3. /\ streamsActive' = [streamsActive EXCEPT ![NormalizeProto(response[r].proto)] = @ - 1]
        /\ streamEnds' = [streamEnds EXCEPT ![r] = Append(@, outcome)]
        /\ onClose' = [onClose EXCEPT ![r] = FALSE]
    BY <1>1 DEF CallOnClose
  <2>4. streamEnds' \in [Requests -> Seq(Outcomes)]
    BY <2>2, <2>3
  <2> QED BY <2>1, <2>3, <2>4 DEF TypeOK
<1>2. CASE ~onClose[r]
  BY <1>2 DEF TypeOK, CallOnClose, Outcomes, streamVars
<1> QED BY <1>1, <1>2

----------------------------------------------------------------------------
(* Where a request is decides what its stream looks like: whether there is *)
(* one, whether its callback is still set, and whether it has ended.       *)

Phase(r) ==
    /\ pc[r] \in {"idle", "passthrough", "audited", "sent"} => response[r] = NoResponse
    /\ pc[r] = "idle" => (state[r].streaming <=> request[r].watch)
    /\ pc[r] = "passthrough" =>
         /\ ~Audited(r)
         /\ state[r].streaming <=> request[r].watch \/ request[r].info = "watch"
    /\ pc[r] \in {"copying", "closing", "cut"} =>
         ~Audited(r) /\ response[r] \in Responses /\ response[r].status # SwitchingProtocols
    /\ pc[r] \in {"upgrading", "upgraded"} => response[r].status = SwitchingProtocols
    /\ pc[r] \in {"audited", "sent", "replying"} => Audited(r)
    /\ pc[r] = "cut" => r \in gone

Closing(r) == onClose[r] <=> Stream(r) /\ pc[r] \in {"copying", "cut"}

Ended(r) ==
    Len(streamEnds[r]) = IF Stream(r) /\ pc[r] \in {"closing", "deferred", "recorded"} THEN 1 ELSE 0

Happened(r, outcome) ==
    /\ outcome = "backend_close" => backend[r] = "ended"
    /\ outcome = "read_error" => r \in gone \/ backend[r] = "broken"
    /\ outcome = "client_cancel" => r \in gone

Truthful(r) == \A i \in DOMAIN streamEnds[r] : Happened(r, streamEnds[r][i])

Inv ==
    /\ TypeOK
    /\ \A r \in Requests : Phase(r) /\ Closing(r) /\ Ended(r) /\ Truthful(r)

(* The invariant holds before any request.                                 *)
LEMMA InitInv == Init => Inv
<1> SUFFICES ASSUME Init PROVE Inv
  OBVIOUS
<1>1. TypeOK
  <2>1. ASSUME NEW r \in Requests PROVE NewRequestMetricState(request[r]) \in MetricState
    <3>1. request[r] \in [method : {"get", "post"}, watch : BOOLEAN,
                          info : {"rejected", "unresolved", "get", "list", "watch", "create"}]
      BY MetricsAssumption DEF Init
    <3> QED BY <3>1 DEF NewRequestMetricState, MetricState, Verb
  <2> QED BY <2>1 DEF Init, TypeOK
<1>2. ASSUME NEW r \in Requests PROVE Phase(r) /\ Closing(r) /\ Ended(r) /\ Truthful(r)
  <2>1. ~Stream(r)
    BY DEF Init, Stream, Answered
  <2> QED BY <2>1 DEF Init, Phase, Closing, Ended, Truthful, NewRequestMetricState
<1> QED BY <1>1, <1>2 DEF Inv

----------------------------------------------------------------------------
(* Types are kept.                                                         *)

(* Every step keeps the types.                                             *)
LEMMA TypeStep == Inv /\ [Next]_vars => TypeOK'
<1> SUFFICES ASSUME Inv, [Next]_vars PROVE TypeOK'
  OBVIOUS
<1> USE DEF Inv, worldVars, handlerVars, streamVars, BadRequest, Unauthorized, BadGateway,
            SwitchingProtocols, EarlyHints
<1>0. ASSUME NEW r \in Requests
      PROVE  /\ state[r] \in MetricState
             /\ state[r].streaming \in BOOLEAN
             /\ request[r] \in [method : {"get", "post"}, watch : BOOLEAN,
                                info : {"rejected", "unresolved", "get", "list", "watch", "create"}]
             /\ onClose[r] => response[r] \in Responses
  BY MetricsAssumption DEF TypeOK, MetricState, Phase, Closing
<1>1. ASSUME NEW r \in Requests, Reject(r) PROVE TypeOK'
  <2>1. HTTPError(r, Unauthorized) /\ Unauthorized \in Nat /\ Goto(r, "deferred") /\ "deferred" \in Labels
    BY <1>1 DEF Reject, Unauthorized, Labels
  <2>2. /\ statusCode' \in [Requests -> Nat] /\ answer' \in [Requests -> Nat]
        /\ bytes' \in [Requests -> SUBSET ByteLabels]
    BY <2>1, HTTPErrorType
  <2>3. pc' \in [Requests -> Labels]
    BY <2>1, GotoType
  <2> QED BY <1>1, <2>2, <2>3 DEF Reject, TypeOK, Labels, ByteLabels
<1>2. ASSUME NEW r \in Requests, Dispatch(r) PROVE TypeOK'
  <2>1. request[r].info # "unresolved" =>
          SetRequestInfo(state[r], request[r].info, request[r].info = "create") \in MetricState
    BY <1>0, <1>2 DEF Dispatch, SetRequestInfo, MetricState, Verb
  <2>2. state' \in [Requests -> MetricState]
    BY <1>2, <2>1 DEF Dispatch, TypeOK
  <2>3. pc' \in [Requests -> Labels]
    BY <1>2 DEF Dispatch, Goto, TypeOK, Labels
  <2> QED BY <1>2, <2>2, <2>3 DEF Dispatch, TypeOK, Labels
<1>3. ASSUME NEW r \in Requests, ReadRequestBody(r) PROVE TypeOK'
  <2>1. bytes' \in [Requests -> SUBSET ByteLabels]
    BY <1>0, <1>3, BytesType, AddBytesType DEF ReadRequestBody
  <2> QED BY <1>3, <2>1 DEF ReadRequestBody, TypeOK, ByteLabels
<1>4. ASSUME NEW r \in Requests, Informational(r) PROVE TypeOK'
  BY <1>4, WriteHeaderType DEF Informational, TypeOK
<1>5. ASSUME NEW r \in Requests, NEW resp \in Responses, PassthroughResponse(r, resp) PROVE TypeOK'
  <2>1. SetBackend(state[r], resp.proto, Streaming(r, resp)) \in MetricState
    BY <1>0, ProtoOfResponse, SetBackendType DEF Streaming
  <2>2. /\ state' \in [Requests -> MetricState]
        /\ roundTrips' \in [Requests -> Seq(RoundTripSample)]
    BY <1>5, <2>1, RecordBackendRoundTripType DEF PassthroughResponse
  <2>3. /\ streamsActive' \in [Proto -> Int]
        /\ onClose' \in [Requests -> BOOLEAN]
        /\ streamEnds' = streamEnds
    BY <1>5, StreamStartedType DEF PassthroughResponse, TypeOK
  <2>4. /\ statusCode' \in [Requests -> Nat]
        /\ answer' \in [Requests -> Nat]
        /\ pc' \in [Requests -> Labels]
        /\ response' \in [Requests -> Responses \cup {NoResponse}]
    BY <1>5, ProtoOfResponse, WriteHeaderType, GotoType DEF PassthroughResponse, TypeOK, Labels
  <2> QED BY <1>5, <2>2, <2>3, <2>4 DEF PassthroughResponse, TypeOK, Labels
<1>6. ASSUME NEW r \in Requests, NEW resp \in Responses, SwitchProtocols(r, resp) PROVE TypeOK'
  <2>1. SetBackend(state[r], resp.proto, Streaming(r, resp)) \in MetricState
    BY <1>0, ProtoOfResponse, SetBackendType DEF Streaming
  <2>2. /\ state' \in [Requests -> MetricState]
        /\ roundTrips' \in [Requests -> Seq(RoundTripSample)]
    BY <1>6, <2>1, RecordBackendRoundTripType DEF SwitchProtocols
  <2>3. /\ pc' \in [Requests -> Labels]
        /\ response' \in [Requests -> Responses \cup {NoResponse}]
    BY <1>6, GotoType DEF SwitchProtocols, TypeOK, Labels
  <2> QED BY <1>6, <2>2, <2>3 DEF SwitchProtocols, TypeOK, Labels
<1>7. ASSUME NEW r \in Requests, NEW resp \in Responses, AuditedResponse(r, resp) PROVE TypeOK'
  <2>1. SetBackend(state[r], resp.proto, FALSE) \in MetricState
    BY <1>0, ProtoOfResponse, SetBackendType
  <2>2. /\ state' \in [Requests -> MetricState]
        /\ roundTrips' \in [Requests -> Seq(RoundTripSample)]
    BY <1>7, <2>1, RecordBackendRoundTripType DEF AuditedResponse
  <2>3. /\ pc' \in [Requests -> Labels]
        /\ response' \in [Requests -> Responses \cup {NoResponse}]
    BY <1>7, GotoType DEF AuditedResponse, TypeOK, Labels
  <2> QED BY <1>7, <2>2, <2>3 DEF AuditedResponse, TypeOK, Labels
<1>8. ASSUME NEW r \in Requests, CopyChunk(r) PROVE TypeOK'
  <2>1. bytes' \in [Requests -> SUBSET ByteLabels]
    BY <1>0, <1>8, BytesType, AddBytesType DEF CopyChunk
  <2> QED BY <1>8, <2>1 DEF CopyChunk, TypeOK, ByteLabels
<1>9. ASSUME NEW r \in Requests, ClientLeaves(r) PROVE TypeOK'
  BY <1>9 DEF ClientLeaves, TypeOK
<1>10. ASSUME NEW r \in Requests, NEW how \in {"ended", "broken"}, BackendStops(r, how) PROVE TypeOK'
  BY <1>10 DEF BackendStops, TypeOK
<1>11. ASSUME NEW r \in Requests, RoundTripFails(r) \/ UpgradeFails(r) PROVE TypeOK'
  <2>1. /\ state' \in [Requests -> MetricState]
        /\ roundTrips' \in [Requests -> Seq(RoundTripSample)]
    BY <1>0, <1>11, RecordBackendRoundTripType DEF RoundTripFails, UpgradeFails
  <2>2. /\ statusCode' \in [Requests -> Nat] /\ answer' \in [Requests -> Nat]
        /\ bytes' \in [Requests -> SUBSET ByteLabels]
        /\ pc' \in [Requests -> Labels]
    BY <1>11, HTTPErrorType, GotoType DEF RoundTripFails, UpgradeFails, Labels
  <2> QED BY <1>11, <2>1, <2>2 DEF RoundTripFails, UpgradeFails, TypeOK, Labels, ByteLabels
<1>12. ASSUME NEW r \in Requests, ReadEnds(r) \/ ReadFails(r) \/ CloseBody(r) PROVE TypeOK'
  <2>1. /\ streamsActive' \in [Proto -> Int] /\ onClose' \in [Requests -> BOOLEAN]
        /\ streamEnds' \in [Requests -> Seq(Outcomes)]
    BY <1>0, <1>12, CallOnCloseType DEF ReadEnds, ReadFails, CloseBody, Outcomes
  <2>2. pc' \in [Requests -> Labels]
    BY <1>12, GotoType DEF ReadEnds, ReadFails, CloseBody, Labels
  <2> QED BY <1>12, <2>1, <2>2 DEF ReadEnds, ReadFails, CloseBody, TypeOK, Labels, Outcomes
<1>13. ASSUME NEW r \in Requests, WriteFails(r) PROVE TypeOK'
  <2>1. bytes' \in [Requests -> SUBSET ByteLabels] /\ pc' \in [Requests -> Labels]
    BY <1>0, <1>13, BytesType, AddBytesType, GotoType DEF WriteFails, Labels
  <2> QED BY <1>13, <2>1 DEF WriteFails, TypeOK, Labels, ByteLabels
<1>14. ASSUME NEW r \in Requests, Upgraded(r) \/ UpgradeEnds(r) PROVE TypeOK'
  <2>1. pc' \in [Requests -> Labels]
    BY <1>14 DEF Upgraded, UpgradeEnds, Goto, TypeOK, Labels
  <2>2. answer' \in [Requests -> Nat]
    <3>1. answer \in [Requests -> Nat]
      BY DEF TypeOK
    <3>2. answer' = answer \/ answer' = [answer EXCEPT ![r] = 101]
      BY <1>14 DEF Upgraded, UpgradeEnds
    <3> QED BY <3>1, <3>2
  <2> QED BY <1>14, <2>1, <2>2 DEF Upgraded, UpgradeEnds, TypeOK, Labels
<1>15. ASSUME NEW r \in Requests, UpgradeReplyFails(r) PROVE TypeOK'
  <2>1. /\ state' \in [Requests -> MetricState]
        /\ roundTrips' \in [Requests -> Seq(RoundTripSample)]
    BY <1>0, <1>15, RecordBackendRoundTripType DEF UpgradeReplyFails
  <2>2. pc' \in [Requests -> Labels] /\ statusCode' \in [Requests -> Nat]
    BY <1>15, GotoType DEF UpgradeReplyFails, TypeOK, Labels
  <2> QED BY <1>15, <2>1, <2>2 DEF UpgradeReplyFails, TypeOK, Labels
<1>16. ASSUME NEW r \in Requests, SpoolFails(r) \/ AuditedReplyFails(r) PROVE TypeOK'
  <2>1. /\ statusCode' \in [Requests -> Nat] /\ answer' \in [Requests -> Nat]
        /\ bytes' \in [Requests -> SUBSET ByteLabels]
        /\ pc' \in [Requests -> Labels]
    BY <1>16, HTTPErrorType, GotoType DEF SpoolFails, AuditedReplyFails, Labels
  <2> QED BY <1>16, <2>1 DEF SpoolFails, AuditedReplyFails, TypeOK, Labels, ByteLabels
<1>17. ASSUME NEW r \in Requests, SendUpstream(r) PROVE TypeOK'
  <2>1. bytes' \in [Requests -> SUBSET ByteLabels] /\ pc' \in [Requests -> Labels]
    BY <1>17, BytesType, AddBytesType, GotoType DEF SendUpstream, Labels
  <2> QED BY <1>17, <2>1 DEF SendUpstream, TypeOK, Labels, ByteLabels
<1>18. ASSUME NEW r \in Requests, AuditedReply(r) PROVE TypeOK'
  <2>1. response[r].status \in Nat
    <3>1. response[r] \in Responses \/ response[r] = NoResponse
      BY DEF TypeOK
    <3>2. NoResponse.status \in Nat
      BY DEF NoResponse
    <3> QED BY <3>1, <3>2, ProtoOfResponse
  <2>2. statusCode' \in [Requests -> Nat] /\ answer' \in [Requests -> Nat]
    BY <1>18, <2>1, WriteHeaderType DEF AuditedReply
  <2>3. bytes' \in [Requests -> SUBSET ByteLabels]
    <3>1. PICK body \in BOOLEAN :
            AddBytes(r, IF body THEN {Bytes("backend", "read", FALSE),
                                      Bytes("client", "write", state[r].streaming)} ELSE {})
      BY <1>18 DEF AuditedReply
    <3>2. {Bytes("backend", "read", FALSE), Bytes("client", "write", state[r].streaming)}
            \in SUBSET ByteLabels
      BY <1>0, BytesType
    <3> QED BY <3>1, <3>2, AddBytesType
  <2>4. pc' \in [Requests -> Labels]
    BY <1>18, GotoType DEF AuditedReply, Labels
  <2> QED BY <1>18, <2>2, <2>3, <2>4 DEF AuditedReply, TypeOK, Labels, ByteLabels
<1>19. ASSUME NEW r \in Requests, RecordRequest(r) PROVE TypeOK'
  <2>1. statusCode[r] \in Nat /\ StatusClass(statusCode[r]) \in Nat
    BY DEF TypeOK, StatusClass
  <2>2. RequestOutcome(statusCode[r]) \in {"ok", "error", "unknown"}
    BY <2>1 DEF RequestOutcome
  <2>3. RequestLabels(state[r], statusCode[r]) \in RequestSample
    BY <1>0, <2>1, <2>2, NormalizeProtoType DEF RequestLabels, RequestSample, MetricState
  <2>4. requests' \in [Requests -> Seq(RequestSample)]
    BY <1>19, <2>3 DEF RecordRequest, TypeOK
  <2>5. pc' \in [Requests -> Labels]
    BY <1>19, GotoType DEF RecordRequest, Labels
  <2> QED BY <1>19, <2>4, <2>5 DEF RecordRequest, TypeOK, Labels
<1>20. CASE UNCHANGED vars
  BY <1>20 DEF vars, TypeOK
<1> QED
  BY <1>1, <1>2, <1>3, <1>4, <1>5, <1>6, <1>7, <1>8, <1>9, <1>10, <1>11, <1>12, <1>13, <1>14,
     <1>15, <1>16, <1>17, <1>18, <1>19, <1>20 DEF Next, Handler

----------------------------------------------------------------------------
(* Phases are kept.                                                        *)

(* What a step must leave to a request that it is not about.               *)
Undisturbed(q) ==
    /\ request' = request
    /\ pc'[q] = pc[q] /\ response'[q] = response[q] /\ state'[q] = state[q]
    /\ onClose'[q] = onClose[q] /\ streamEnds'[q] = streamEnds[q]
    /\ q \in gone => q \in gone'
    /\ backend[q] # "up" => backend'[q] = backend[q]

RequestInv(q) == Phase(q) /\ Closing(q) /\ Ended(q) /\ Truthful(q)

(* The invariant of a request that a step leaves alone is kept.            *)
LEMMA UndisturbedKeeps ==
    ASSUME NEW q \in Requests, RequestInv(q), Undisturbed(q) PROVE RequestInv(q)'
<1>1. Stream(q)' <=> Stream(q)
  BY DEF Undisturbed, Stream, Semantic, Answered, Audited
<1>2. Phase(q)'
  BY DEF RequestInv, Undisturbed, Phase, Audited
<1>3. Closing(q)' /\ Ended(q)'
  BY <1>1 DEF RequestInv, Undisturbed, Closing, Ended
<1>4. Truthful(q)'
  BY DEF RequestInv, Undisturbed, Truthful, Happened
<1> QED BY <1>2, <1>3, <1>4 DEF RequestInv

(* A step about r disturbs no other request.                               *)
Step(r) ==
    \/ Reject(r)
    \/ Dispatch(r)
    \/ ReadRequestBody(r)
    \/ Informational(r)
    \/ \E resp \in Responses :
         PassthroughResponse(r, resp) \/ SwitchProtocols(r, resp) \/ AuditedResponse(r, resp)
    \/ CopyChunk(r)
    \/ ClientLeaves(r)
    \/ \E how \in {"ended", "broken"} : BackendStops(r, how)
    \/ Handler(r)

(* A step is one request's and leaves the others alone.                    *)
LEMMA OthersUndisturbed ==
    ASSUME TypeOK, NEW r \in Requests, Step(r), NEW q \in Requests, q # r
    PROVE  Undisturbed(q)
<1> USE DEF Undisturbed, worldVars, handlerVars, streamVars, Goto, TypeOK
<1>1. CASE Reject(r) \/ Dispatch(r) \/ ReadRequestBody(r) \/ Informational(r)
  BY <1>1 DEF Reject, Dispatch, ReadRequestBody, Informational
<1>2. ASSUME NEW resp \in Responses, PassthroughResponse(r, resp) PROVE Undisturbed(q)
  BY <1>2 DEF PassthroughResponse, RecordBackendRoundTrip, StreamStarted
<1>3. ASSUME NEW resp \in Responses, SwitchProtocols(r, resp) \/ AuditedResponse(r, resp)
      PROVE  Undisturbed(q)
  BY <1>3 DEF SwitchProtocols, AuditedResponse, RecordBackendRoundTrip
<1>4. CASE CopyChunk(r) \/ ClientLeaves(r) \/ \E how \in {"ended", "broken"} : BackendStops(r, how)
  BY <1>4 DEF CopyChunk, ClientLeaves, BackendStops
<1>5. CASE RoundTripFails(r) \/ UpgradeFails(r) \/ UpgradeReplyFails(r)
  BY <1>5 DEF RoundTripFails, UpgradeFails, UpgradeReplyFails, RecordBackendRoundTrip
<1>6. CASE ReadEnds(r) \/ ReadFails(r) \/ CloseBody(r)
  BY <1>6 DEF ReadEnds, ReadFails, CloseBody, CallOnClose
<1>7. CASE WriteFails(r) \/ Upgraded(r) \/ UpgradeEnds(r) \/ SpoolFails(r) \/ SendUpstream(r)
             \/ AuditedReply(r) \/ AuditedReplyFails(r) \/ RecordRequest(r)
  BY <1>7 DEF WriteFails, Upgraded, UpgradeEnds, SpoolFails, SendUpstream, AuditedReply,
              AuditedReplyFails, RecordRequest
<1> QED BY <1>1, <1>2, <1>3, <1>4, <1>5, <1>6, <1>7 DEF Step, Handler

(* A step that moves r but neither its answer nor its stream.              *)
Moves(r, from, to) ==
    /\ pc[r] \in from
    /\ pc'[r] \in to
    /\ UNCHANGED <<request, gone, backend>>
    /\ response'[r] = response[r] /\ onClose'[r] = onClose[r] /\ streamEnds'[r] = streamEnds[r]

(* The stream of a request that is moved: it has none, or none that is     *)
(* open or has ended.                                                      *)
LEMMA MovedToEnd ==
    ASSUME TypeOK, NEW r \in Requests, RequestInv(r), ~Stream(r), Moves(r, Labels, {"deferred"})
    PROVE  RequestInv(r)'
<1>1. ~Stream(r)'
  BY DEF Moves, Stream, Semantic, Answered, Audited
<1>2. Phase(r)'
  BY DEF Moves, Phase
<1>3. Closing(r)' /\ Ended(r)' /\ Truthful(r)'
  BY <1>1 DEF RequestInv, Moves, Closing, Ended, Truthful, Happened
<1> QED BY <1>2, <1>3 DEF RequestInv

(* A step keeps the invariant of the request that takes it.                *)
LEMMA OwnStep ==
    ASSUME TypeOK, NEW r \in Requests, RequestInv(r), Step(r)
    PROVE  RequestInv(r)'
<1> USE DEF worldVars, handlerVars, streamVars
<1>1. CASE Reject(r) \/ SpoolFails(r) \/ RoundTripFails(r)
  <2>1. ~Stream(r)
    BY <1>1 DEF RequestInv, Phase, Reject, SpoolFails, RoundTripFails, At, Stream, Answered
  <2>2. Moves(r, Labels, {"deferred"})
    BY <1>1 DEF Reject, SpoolFails, RoundTripFails, Goto, Moves, TypeOK, Labels
  <2> QED BY <2>1, <2>2, MovedToEnd
<1>2. CASE UpgradeFails(r) \/ UpgradeReplyFails(r) \/ UpgradeEnds(r)
  <2>1. ~Stream(r)
    BY <1>2 DEF RequestInv, Phase, UpgradeFails, UpgradeReplyFails, UpgradeEnds, At, Stream
  <2>2. Moves(r, Labels, {"deferred"})
    BY <1>2 DEF UpgradeFails, UpgradeReplyFails, UpgradeEnds, Goto, Moves, TypeOK, Labels
  <2> QED BY <2>1, <2>2, MovedToEnd
<1>3. CASE AuditedReply(r) \/ AuditedReplyFails(r)
  <2>1. ~Stream(r)
    BY <1>3 DEF RequestInv, Phase, AuditedReply, AuditedReplyFails, At, Stream
  <2>2. Moves(r, Labels, {"deferred"})
    BY <1>3 DEF AuditedReply, AuditedReplyFails, Goto, Moves, TypeOK, Labels
  <2> QED BY <2>1, <2>2, MovedToEnd
<1>4. CASE Dispatch(r)
  <2>1. ~Stream(r) /\ ~Stream(r)'
    BY <1>4 DEF RequestInv, Phase, Dispatch, At, Stream, Answered
  <2>2. Phase(r)'
    <3>1. /\ pc[r] = "idle" /\ response'[r] = NoResponse /\ request' = request
          /\ request[r].info = "create" => pc'[r] = "audited"
          /\ request[r].info # "create" => pc'[r] = "passthrough"
      BY <1>4 DEF Dispatch, At, Goto, RequestInv, Phase, TypeOK
    <3>2. state'[r].streaming <=> request[r].watch \/ request[r].info = "watch"
      BY <1>4 DEF Dispatch, At, RequestInv, Phase, SetRequestInfo, TypeOK, MetricState
    <3> QED BY <3>1, <3>2 DEF Phase, Audited
  <2>3. Closing(r)' /\ Ended(r)' /\ Truthful(r)'
    BY <1>4, <2>1 DEF Dispatch, RequestInv, Closing, Ended, Truthful, Happened
  <2> QED BY <2>2, <2>3 DEF RequestInv
<1>5. CASE ReadRequestBody(r) \/ Informational(r) \/ CopyChunk(r)
  <2>1. Undisturbed(r)
    BY <1>5 DEF ReadRequestBody, Informational, CopyChunk, Undisturbed
  <2> QED BY <2>1, UndisturbedKeeps
<1>6. CASE ClientLeaves(r) \/ \E how \in {"ended", "broken"} : BackendStops(r, how)
  <2>1. Undisturbed(r)
    BY <1>6 DEF ClientLeaves, BackendStops, Undisturbed
  <2> QED BY <2>1, UndisturbedKeeps
<1>7. CASE SendUpstream(r)
  <2>1. /\ ~Stream(r) /\ ~Stream(r)' /\ pc[r] = "audited" /\ pc'[r] = "sent"
        /\ response'[r] = NoResponse /\ Audited(r) /\ Audited(r)'
    BY <1>7 DEF RequestInv, Phase, SendUpstream, At, Goto, Stream, Answered, Audited, TypeOK
  <2> QED BY <1>7, <2>1 DEF SendUpstream, RequestInv, Phase, Closing, Ended, Truthful, Happened
<1>8. ASSUME NEW resp \in Responses, AuditedResponse(r, resp) PROVE RequestInv(r)'
  <2>1. /\ ~Stream(r) /\ ~Stream(r)' /\ pc[r] = "sent" /\ pc'[r] = "replying" /\ Audited(r)'
    BY <1>8 DEF RequestInv, Phase, AuditedResponse, At, Goto, Stream, Audited, TypeOK
  <2> QED BY <1>8, <2>1 DEF AuditedResponse, RequestInv, Phase, Closing, Ended, Truthful, Happened
<1>9. ASSUME NEW resp \in Responses, SwitchProtocols(r, resp) PROVE RequestInv(r)'
  <2>1. /\ pc[r] = "passthrough" /\ pc'[r] = "upgrading" /\ response'[r] = resp
        /\ resp.status = SwitchingProtocols /\ response[r] = NoResponse
    BY <1>9 DEF RequestInv, Phase, SwitchProtocols, At, Goto, TypeOK
  <2>2. ~Stream(r) /\ ~Stream(r)'
    BY <2>1 DEF Stream, Answered
  <2> QED BY <1>9, <2>1, <2>2
          DEF SwitchProtocols, RequestInv, Phase, Closing, Ended, Truthful, Happened
<1>10. ASSUME NEW resp \in Responses, PassthroughResponse(r, resp) PROVE RequestInv(r)'
  <2>1. /\ pc[r] = "passthrough" /\ pc'[r] = "copying" /\ response'[r] = resp /\ request' = request
        /\ resp.status # SwitchingProtocols /\ response[r] = NoResponse /\ ~Audited(r)
        /\ state[r].streaming <=> request[r].watch \/ request[r].info = "watch"
        /\ streamEnds' = streamEnds /\ backend' = backend /\ gone' = gone
    BY <1>10 DEF RequestInv, Phase, PassthroughResponse, StreamStarted, At, Goto, TypeOK
  <2>2. resp # NoResponse
    BY ProtoOfResponse
  <2>3. ~Stream(r)
    BY <2>1 DEF Stream, Answered
  <2>4. Stream(r)' <=> Streaming(r, resp)
    BY <2>1, <2>2 DEF Stream, Answered, Semantic, Audited, Streaming
  <2>5. onClose'[r] <=> Streaming(r, resp)
    BY <1>10, <2>1, <2>3 DEF PassthroughResponse, StreamStarted, RequestInv, Closing, TypeOK
  <2>6. Phase(r)'
    BY <2>1 DEF Phase, Audited
  <2> QED BY <2>1, <2>3, <2>4, <2>5, <2>6 DEF RequestInv, Closing, Ended, Truthful, Happened
<1>11. CASE ReadEnds(r) \/ ReadFails(r)
  <2>1. PICK outcome \in {"backend_close", "read_error"} :
           CallOnClose(r, outcome) /\ Happened(r, outcome)
    BY <1>11 DEF ReadEnds, ReadFails, Happened
  <2>2. /\ pc[r] = "copying" /\ pc'[r] = "closing"
        /\ UNCHANGED <<request, response, gone, backend>>
    BY <1>11 DEF ReadEnds, ReadFails, At, Goto, TypeOK
  <2>3. Stream(r)' <=> Stream(r)
    BY <2>2 DEF Stream, Answered, Semantic, Audited
  <2>4. onClose[r] <=> Stream(r)
    BY <2>2 DEF RequestInv, Closing
  <2>5. streamEnds[r] = << >>
    BY <2>2 DEF RequestInv, Ended, TypeOK
  <2>6. ~onClose'[r] /\ streamEnds'[r] = IF Stream(r) THEN <<outcome>> ELSE << >>
    BY <2>1, <2>4, <2>5 DEF CallOnClose, TypeOK
  <2>7. Phase(r)'
    BY <2>2 DEF RequestInv, Phase, Audited
  <2> QED BY <2>1, <2>2, <2>3, <2>6, <2>7 DEF RequestInv, Closing, Ended, Truthful, Happened
<1>12. CASE WriteFails(r)
  <2>1. /\ pc[r] = "copying" /\ pc'[r] = "cut" /\ r \in gone
        /\ UNCHANGED <<request, response, gone, backend, onClose, streamEnds>>
    BY <1>12 DEF WriteFails, At, Goto, TypeOK
  <2>2. Stream(r)' <=> Stream(r)
    BY <2>1 DEF Stream, Answered, Semantic, Audited
  <2>3. Phase(r)'
    BY <2>1 DEF RequestInv, Phase, Audited
  <2> QED BY <2>1, <2>2, <2>3 DEF RequestInv, Closing, Ended, Truthful, Happened
<1>13. CASE CloseBody(r)
  <2>1. /\ pc[r] \in {"closing", "cut"} /\ pc'[r] = "deferred"
        /\ UNCHANGED <<request, response, gone, backend>>
        /\ CallOnClose(r, "client_cancel")
    BY <1>13 DEF CloseBody, Goto, TypeOK
  <2>2. Stream(r)' <=> Stream(r)
    BY <2>1 DEF Stream, Answered, Semantic, Audited
  <2>3. Phase(r)'
    BY <2>1 DEF Phase
  <2>4. CASE pc[r] = "closing"
    <3>1. ~onClose[r] /\ UNCHANGED <<onClose, streamEnds>>
      BY <2>1, <2>4 DEF RequestInv, Closing, CallOnClose
    <3> QED BY <2>1, <2>2, <2>3, <2>4, <3>1 DEF RequestInv, Closing, Ended, Truthful, Happened
  <2>5. CASE pc[r] = "cut"
    <3>1. r \in gone /\ (onClose[r] <=> Stream(r)) /\ streamEnds[r] = << >>
      BY <2>5 DEF RequestInv, Phase, Closing, Ended, TypeOK
    <3>2. ~onClose'[r] /\ streamEnds'[r] = IF Stream(r) THEN <<"client_cancel">> ELSE << >>
      BY <2>1, <3>1 DEF CallOnClose, TypeOK
    <3> QED BY <2>1, <2>2, <2>3, <3>1, <3>2 DEF RequestInv, Closing, Ended, Truthful, Happened
  <2> QED BY <2>1, <2>4, <2>5
<1>14. CASE Upgraded(r)
  <2>1. /\ pc[r] = "upgrading" /\ pc'[r] = "upgraded" /\ response[r].status = SwitchingProtocols
        /\ UNCHANGED <<request, response, gone, backend, onClose, streamEnds>>
    BY <1>14 DEF Upgraded, At, Goto, RequestInv, Phase, TypeOK
  <2>2. ~Stream(r) /\ ~Stream(r)'
    BY <2>1 DEF Stream
  <2> QED BY <2>1, <2>2 DEF RequestInv, Phase, Closing, Ended, Truthful, Happened
<1>15. CASE RecordRequest(r)
  <2>1. /\ pc[r] = "deferred" /\ pc'[r] = "recorded"
        /\ UNCHANGED <<request, response, gone, backend, onClose, streamEnds>>
    BY <1>15 DEF RecordRequest, At, Goto, TypeOK
  <2>2. Stream(r)' <=> Stream(r)
    BY <2>1 DEF Stream, Answered, Semantic, Audited
  <2> QED BY <2>1, <2>2 DEF RequestInv, Phase, Closing, Ended, Truthful, Happened
<1> QED
  BY <1>1, <1>2, <1>3, <1>4, <1>5, <1>6, <1>7, <1>8, <1>9, <1>10, <1>11, <1>12, <1>13, <1>14,
     <1>15 DEF Step, Handler

(* Hence every step keeps the invariant.                                   *)
LEMMA InvStep == Inv /\ [Next]_vars => Inv'
<1> SUFFICES ASSUME Inv, [Next]_vars PROVE Inv'
  OBVIOUS
<1>1. TypeOK'
  BY TypeStep
<1>2. ASSUME NEW q \in Requests PROVE RequestInv(q)'
  <2>1. RequestInv(q) /\ TypeOK
    BY DEF Inv, RequestInv
  <2>2. ASSUME NEW r \in Requests, Step(r) PROVE RequestInv(q)'
    BY <2>1, <2>2, OwnStep, OthersUndisturbed, UndisturbedKeeps
  <2>3. CASE UNCHANGED vars
    <3>1. Undisturbed(q)
      BY <2>3 DEF vars, worldVars, handlerVars, streamVars, Undisturbed
    <3> QED BY <2>1, <3>1, UndisturbedKeeps
  <2> QED BY <2>2, <2>3 DEF Next, Step
<1> QED BY <1>1, <1>2 DEF Inv, RequestInv

----------------------------------------------------------------------------
(* The gauge.                                                              *)

OpenStreams == [r \in Requests |-> OpenAs(r)]

(* A stream is open under a label exactly while its callback is set.       *)
LEMMA OpenLabel ==
    ASSUME Inv, NEW r \in Requests
    PROVE  /\ onClose[r] => OpenAs(r) = NormalizeProto(response[r].proto) /\ OpenAs(r) \in Proto
           /\ ~onClose[r] => OpenAs(r) = "none"
<1>1. Closing(r) /\ Phase(r)
  BY DEF Inv
<1>2. onClose[r] => NormalizeProto(response[r].proto) \in Proto
  BY <1>1, ProtoOfResponse DEF Closing, Phase
<1> QED BY <1>1, <1>2 DEF Closing, OpenAs

(* A step whose callbacks stay as they are leaves the open streams alone.  *)
LEMMA SameStreams ==
    ASSUME Inv, Inv', NEW q \in Requests, onClose'[q] = onClose[q],
           onClose[q] => response'[q] = response[q]
    PROVE  OpenAs(q)' = OpenAs(q)
<1>1. Closing(q) /\ Closing(q)'
  BY DEF Inv
<1> QED BY <1>1 DEF Closing, OpenAs

(* What a step does to the gauge: a join, a leave, or nothing.             *)
LEMMA GaugeStep ==
    ASSUME Inv, Inv', [Next]_vars
    PROVE  [Gauge!Next]_(Gauge!vars)
<1> USE DEF worldVars, handlerVars, streamVars
<1>0. TypeOK /\ TypeOK'
  BY DEF Inv
<1>1. ASSUME UNCHANGED <<onClose, streamsActive>>,
             \A q \in Requests : onClose[q] => response'[q] = response[q]
      PROVE  UNCHANGED Gauge!vars
  <2>1. \A q \in Requests : OpenAs(q)' = OpenAs(q)
    BY <1>1, SameStreams
  <2> QED BY <1>1, <2>1 DEF Gauge!vars
<1>2. ASSUME NEW r \in Requests, NEW outcome, CallOnClose(r, outcome), response' = response
      PROVE  Gauge!Next \/ UNCHANGED Gauge!vars
  <2>1. CASE ~onClose[r]
    BY <1>1, <1>2, <2>1 DEF CallOnClose
  <2>2. CASE onClose[r]
    <3>1. /\ streamsActive' = [streamsActive EXCEPT ![NormalizeProto(response[r].proto)] = @ - 1]
          /\ onClose' = [onClose EXCEPT ![r] = FALSE]
      BY <1>2, <2>2 DEF CallOnClose
    <3>2. OpenAs(r) = NormalizeProto(response[r].proto) /\ OpenAs(r) \in Proto
      BY <2>2, OpenLabel
    <3>3. ~onClose'[r]
      BY <1>0, <3>1 DEF TypeOK
    <3>4. OpenAs(r)' = "none"
      <4>1. Closing(r)'
        BY DEF Inv
      <4> QED BY <3>3, <4>1 DEF Closing, OpenAs
    <3>5. ASSUME NEW q \in Requests, q # r PROVE OpenAs(q)' = OpenAs(q)
      <4>1. onClose'[q] = onClose[q]
        BY <1>0, <3>1, <3>5 DEF TypeOK
      <4> QED BY <1>2, <4>1, SameStreams
    <3>6. OpenStreams' = [OpenStreams EXCEPT ![r] = "none"]
      BY <3>4, <3>5 DEF OpenStreams
    <3>7. OpenStreams[r] = OpenAs(r)
      BY DEF OpenStreams
    <3>8. Gauge!Leave(r)
      BY <3>1, <3>2, <3>6, <3>7 DEF Gauge!Leave, Gauge!NoLabel, OpenStreams
    <3> QED BY <3>8 DEF Gauge!Next
  <2> QED BY <2>1, <2>2
<1>3. ASSUME NEW r \in Requests, NEW resp \in Responses, PassthroughResponse(r, resp)
      PROVE  Gauge!Next \/ UNCHANGED Gauge!vars
  <2>1. ~onClose[r] /\ response' = [response EXCEPT ![r] = resp]
    <3>1. Closing(r)
      BY DEF Inv
    <3> QED BY <1>3, <3>1 DEF PassthroughResponse, At, Closing
  <2>2. \A q \in Requests : q # r => response'[q] = response[q]
    BY <1>0, <2>1 DEF TypeOK
  <2>3. CASE ~Streaming(r, resp)
    BY <1>1, <1>3, <2>1, <2>2, <2>3 DEF PassthroughResponse
  <2>4. CASE Streaming(r, resp)
    <3>1. /\ streamsActive' = [streamsActive EXCEPT ![NormalizeProto(resp.proto)] = @ + 1]
          /\ onClose' = [onClose EXCEPT ![r] = TRUE]
      BY <1>3, <2>4 DEF PassthroughResponse, StreamStarted
    <3>2. response'[r] = resp /\ onClose'[r]
      BY <1>0, <2>1, <3>1 DEF TypeOK
    <3>3. NormalizeProto(resp.proto) \in Proto
      BY ProtoOfResponse
    <3>4. OpenAs(r)' = NormalizeProto(resp.proto)
      <4>1. Closing(r)'
        BY DEF Inv
      <4> QED BY <3>2, <4>1 DEF Closing, OpenAs
    <3>5. OpenAs(r) = "none"
      BY <2>1, OpenLabel
    <3>6. ASSUME NEW q \in Requests, q # r PROVE OpenAs(q)' = OpenAs(q)
      <4>1. onClose'[q] = onClose[q]
        BY <1>0, <3>1, <3>6 DEF TypeOK
      <4> QED BY <2>2, <3>6, <4>1, SameStreams
    <3>7. OpenStreams' = [OpenStreams EXCEPT ![r] = NormalizeProto(resp.proto)]
      BY <3>4, <3>6 DEF OpenStreams
    <3>8. OpenStreams[r] = OpenAs(r)
      BY DEF OpenStreams
    <3>9. Gauge!Enter(r, NormalizeProto(resp.proto))
      BY <3>1, <3>5, <3>7, <3>8 DEF Gauge!Enter, Gauge!NoLabel, OpenStreams
    <3> QED BY <3>3, <3>9 DEF Gauge!Next
  <2> QED BY <2>3, <2>4
<1>4. ASSUME NEW r \in Requests, NEW resp \in Responses,
             SwitchProtocols(r, resp) \/ AuditedResponse(r, resp)
      PROVE  UNCHANGED Gauge!vars
  <2>1. ~onClose[r] /\ response' = [response EXCEPT ![r] = resp]
    <3>1. Closing(r)
      BY DEF Inv
    <3> QED BY <1>4, <3>1 DEF SwitchProtocols, AuditedResponse, At, Closing
  <2>2. \A q \in Requests : q # r => response'[q] = response[q]
    BY <1>0, <2>1 DEF TypeOK
  <2> QED BY <1>1, <1>4, <2>1, <2>2 DEF SwitchProtocols, AuditedResponse
<1>5. ASSUME NEW r \in Requests, ReadEnds(r) \/ ReadFails(r) \/ CloseBody(r)
      PROVE  Gauge!Next \/ UNCHANGED Gauge!vars
  BY <1>2, <1>5 DEF ReadEnds, ReadFails, CloseBody
<1>6. CASE UNCHANGED <<onClose, streamsActive, response>>
  BY <1>1, <1>6
<1> QED
  BY <1>3, <1>4, <1>5, <1>6 DEF Next, Handler, vars, Reject, Dispatch, ReadRequestBody,
     Informational, CopyChunk, ClientLeaves, BackendStops, RoundTripFails, WriteFails, Upgraded,
     UpgradeFails, UpgradeReplyFails, UpgradeEnds, SpoolFails, SendUpstream, AuditedReply,
     AuditedReplyFails, RecordRequest

----------------------------------------------------------------------------
(* The inductive invariant: the phase of a request determines its stream.  *)
THEOREM MetricsInvariant == Spec => []Inv
BY InitInv, InvStep, PTL DEF Spec

(* Type correctness, for any requests and answers.                         *)
THEOREM MetricsTypeCorrect == Spec => []TypeOK
<1>1. Inv => TypeOK
  BY DEF Inv
<1> QED BY <1>1, MetricsInvariant, PTL

(* streams_active is an exact gauge of the open streams: StreamStarted and *)
(* the callback it returns are its joins and leaves, however requests      *)
(* interleave and streams end.                                             *)
THEOREM StreamGaugeExact == Spec => StreamsCounted
<1>1. Init => Gauge!Init
  <2> SUFFICES ASSUME Init PROVE Gauge!Init
    OBVIOUS
  <2>1. \A r \in Requests : OpenAs(r) = "none"
    BY InitInv, OpenLabel DEF Init
  <2> QED BY <2>1 DEF Init, Gauge!Init, Gauge!NoLabel
<1>2. Inv /\ Inv' /\ [Next]_vars => [Gauge!Next]_(Gauge!vars)
  BY GaugeStep
<1> QED BY <1>1, <1>2, MetricsInvariant, PTL DEF Spec, StreamsCounted, Gauge!Spec

(* ActiveGauge counts as this module does.                                 *)
LEMMA SameCardinality == ASSUME NEW S PROVE Gauge!Cardinality(S) = Cardinality(S)
BY DEF Cardinality, Gauge!Cardinality

(* And finite means the same to both.                                      *)
LEMMA SameFinite == ASSUME NEW S PROVE Gauge!IsFiniteSet(S) = IsFiniteSet(S)
BY DEF IsFiniteSet, Gauge!IsFiniteSet

(* A scrape of streams_active sees, under each protocol, as many streams   *)
(* as are open at that moment.                                             *)
OpenStreamsShown ==
    \A p \in Proto : streamsActive[p] = Cardinality({ r \in Requests : OpenAs(r) = p })

(* streams_active never drifts and never goes below zero: because the      *)
(* callbacks of Read and Close implement an exact gauge, its value is at   *)
(* every moment the number of open streams.                                *)
THEOREM OpenStreamsCounted == Spec => []OpenStreamsShown
<1>1. Gauge!FiniteMembers
  BY MetricsAssumption, SameFinite DEF Gauge!FiniteMembers, Gauge!NoLabel, Proto
<1>2. Gauge!Spec => []Gauge!Exact
  BY <1>1, Gauge!GaugeExact
<1>3. Spec => Gauge!Spec
  BY StreamGaugeExact DEF StreamsCounted
<1>4. Gauge!Exact => OpenStreamsShown
  <2> SUFFICES ASSUME Gauge!Exact, NEW p \in Proto
               PROVE  streamsActive[p] = Cardinality({ r \in Requests : OpenAs(r) = p })
    BY DEF OpenStreamsShown
  <2>1. { m \in Requests : [r \in Requests |-> OpenAs(r)][m] = p }
          = { r \in Requests : OpenAs(r) = p }
    OBVIOUS
  <2> QED BY <2>1, SameCardinality DEF Gauge!Exact
<1> QED BY <1>2, <1>3, <1>4, PTL

(* Every stream leaves one sample, and its outcome names what happened.    *)
THEOREM StreamsEndExactlyOnce == Spec => []StreamsEndOnce
<1>1. Inv => StreamsEndOnce
  <2> SUFFICES ASSUME Inv, NEW r \in Requests
               PROVE  /\ Len(streamEnds[r]) <= 1
                      /\ Recorded(r) => (Len(streamEnds[r]) = 1 <=> Stream(r))
                      /\ \A i \in DOMAIN streamEnds[r] : Happened(r, streamEnds[r][i])
    BY DEF StreamsEndOnce, Happened
  <2>1. Ended(r) /\ Truthful(r)
    BY DEF Inv
  <2>2. Len(streamEnds[r]) <= 1
    BY <2>1 DEF Ended
  <2>3. Recorded(r) => (Len(streamEnds[r]) = 1 <=> Stream(r))
    BY <2>1 DEF Ended, Recorded, At
  <2> QED BY <2>1, <2>2, <2>3 DEF Truthful
<1> QED BY <1>1, MetricsInvariant, PTL

----------------------------------------------------------------------------
(* What the instruments say of a request, from the moment it arrives.      *)

(* The status the writer noted and the one the client was sent: they agree *)
(* unless an informational answer came first or an answer below 200 was    *)
(* never sent as a final one.                                              *)
Relayed(r) ==
    \/ statusCode[r] = EarlyHints
    \/ /\ statusCode[r] > 0
       /\ answer[r] = statusCode[r] \/ (answer[r] = 0 /\ statusCode[r] < 200)

Header(r) ==
    /\ pc[r] \in {"idle", "audited", "sent", "replying"} => statusCode[r] = 0 /\ answer[r] = 0
    /\ pc[r] \in {"passthrough", "upgrading"} =>
         statusCode[r] \in {0, EarlyHints} /\ answer[r] = 0
    /\ pc[r] = "upgraded" => statusCode[r] \in {0, EarlyHints} /\ answer[r] = SwitchingProtocols
    /\ pc[r] \in {"copying", "closing", "cut"} => Relayed(r)
    /\ pc[r] \in {"deferred", "recorded"} =>
         \/ Relayed(r)
         \/ statusCode[r] = 0 /\ answer[r] = SwitchingProtocols
         \/ statusCode[r] = BadGateway /\ answer[r] = 0 /\ r \in gone

(* The one sample of a round trip that has been observed.                  *)
RoundTrip(r) ==
    [verb |-> state[r].verb, streaming |-> state[r].streaming,
     outcome |-> IF Answered(r) THEN "ok" ELSE "error",
     backendProto |-> NormalizeProto(state[r].backendProto)]

(* The metric state has the labels of its request, and the round trip is   *)
(* observed when an answer arrives or none will.                           *)
Labelled(r) ==
    /\ pc[r] # "idle" => (state[r].audited <=> Audited(r)) /\ (state[r].streaming <=> Semantic(r))
    /\ pc[r] = "idle" => ~state[r].audited
    /\ state[r].backendProto = IF Answered(r) THEN response[r].proto ELSE "unknown"
    /\ roundTrips[r] = IF state[r].backendObserved THEN <<RoundTrip(r)>> ELSE << >>
    /\ pc[r] \in {"idle", "passthrough", "audited", "sent"} => ~state[r].backendObserved
    /\ pc[r] \in {"upgrading", "upgraded", "copying", "closing", "cut", "replying"} =>
         response[r] \in Responses
    /\ Answered(r) => state[r].backendObserved

(* A request is in requests_total once it has been recorded.               *)
Counted(r) ==
    requests[r] = IF Recorded(r) THEN <<RequestLabels(state[r], statusCode[r])>> ELSE << >>

(* The bytes of an answer come after its labels are known.                 *)
OfAnswer(b) ==
    \/ b.leg = "client" /\ b.direction = "write"
    \/ b.leg = "backend" /\ b.direction = "read"

Sized(r) ==
    \A b \in bytes[r] : OfAnswer(b) =>
        /\ pc[r] \notin {"idle", "passthrough", "audited", "sent"}
        /\ b.leg = "client" => b.streaming = state[r].streaming
        /\ b.leg = "backend" => b.streaming = (state[r].streaming /\ ~Audited(r))

SampleInv(r) == Header(r) /\ Labelled(r) /\ Counted(r) /\ Sized(r)

(* What a step must leave besides to a request that it is not about.       *)
Unsampled(q) ==
    /\ statusCode'[q] = statusCode[q] /\ answer'[q] = answer[q] /\ requests'[q] = requests[q]
    /\ roundTrips'[q] = roundTrips[q] /\ bytes'[q] = bytes[q]

(* The samples of a request that a step leaves alone stay true.            *)
LEMMA UnsampledKeeps ==
    ASSUME NEW q \in Requests, SampleInv(q), Undisturbed(q), Unsampled(q)
    PROVE  SampleInv(q)'
<1> USE DEF SampleInv, Undisturbed, Unsampled
<1>1. Header(q)'
  BY DEF Header, Relayed
<1>2. Labelled(q)'
  BY DEF Labelled, RoundTrip, Answered, Audited, Semantic
<1>3. Counted(q)' /\ Sized(q)'
  BY DEF Counted, Recorded, At, Sized, Audited
<1> QED BY <1>1, <1>2, <1>3

(* A step about r leaves no sample of another request.                     *)
LEMMA OthersUnsampled ==
    ASSUME TypeOK, NEW r \in Requests, Step(r), NEW q \in Requests, q # r
    PROVE  Unsampled(q)
<1> USE DEF Unsampled, worldVars, handlerVars, streamVars, TypeOK, HTTPError, WriteHeader,
            AddBytes, RecordBackendRoundTrip
<1>1. CASE Reject(r) \/ Dispatch(r) \/ ReadRequestBody(r) \/ Informational(r)
  BY <1>1 DEF Reject, Dispatch, ReadRequestBody, Informational
<1>2. ASSUME NEW resp \in Responses, PassthroughResponse(r, resp) PROVE Unsampled(q)
  BY <1>2 DEF PassthroughResponse
<1>3. ASSUME NEW resp \in Responses, SwitchProtocols(r, resp) \/ AuditedResponse(r, resp)
      PROVE  Unsampled(q)
  BY <1>3 DEF SwitchProtocols, AuditedResponse
<1>4. CASE CopyChunk(r) \/ ClientLeaves(r) \/ \E how \in {"ended", "broken"} : BackendStops(r, how)
  BY <1>4 DEF CopyChunk, ClientLeaves, BackendStops
<1>5. CASE RoundTripFails(r) \/ UpgradeFails(r) \/ UpgradeReplyFails(r)
  BY <1>5 DEF RoundTripFails, UpgradeFails, UpgradeReplyFails
<1>6. CASE ReadEnds(r) \/ ReadFails(r) \/ CloseBody(r) \/ WriteFails(r) \/ Upgraded(r)
             \/ UpgradeEnds(r) \/ SendUpstream(r) \/ RecordRequest(r)
  BY <1>6 DEF ReadEnds, ReadFails, CloseBody, WriteFails, Upgraded, UpgradeEnds, SendUpstream,
              RecordRequest
<1>7. CASE SpoolFails(r) \/ AuditedReply(r) \/ AuditedReplyFails(r)
  BY <1>7 DEF SpoolFails, AuditedReply, AuditedReplyFails
<1> QED BY <1>1, <1>2, <1>3, <1>4, <1>5, <1>6, <1>7 DEF Step, Handler

----------------------------------------------------------------------------
(* The status.                                                             *)

(* What WriteHeader makes of the first final code.                         *)
LEMMA FirstHeader ==
    ASSUME TypeOK, NEW r \in Requests, NEW code \in Nat \ {0}, WriteHeader(r, code),
           statusCode[r] \in {0, EarlyHints}, answer[r] = 0
    PROVE  Relayed(r)'
<1>1. statusCode'[r] = (IF statusCode[r] = 0 THEN code ELSE statusCode[r])
  BY DEF WriteHeader, TypeOK
<1>2. answer'[r] = IF code >= 200 THEN code ELSE 0
  BY DEF WriteHeader, TypeOK
<1> QED BY <1>1, <1>2 DEF Relayed, EarlyHints

(* A step keeps noted and sent status in step.                             *)
LEMMA HeaderStep ==
    ASSUME TypeOK, NEW r \in Requests, Labelled(r), Header(r), Step(r)
    PROVE  Header(r)'
<1> USE DEF worldVars, handlerVars, streamVars, Goto, At
<1>1. CASE Reject(r) \/ RoundTripFails(r) \/ UpgradeFails(r) \/ SpoolFails(r) \/ AuditedReplyFails(r)
  <2>1. PICK code \in Nat \ {0} : WriteHeader(r, code)
    BY <1>1 DEF Reject, RoundTripFails, UpgradeFails, SpoolFails, AuditedReplyFails, HTTPError,
                BadRequest, BadGateway, Unauthorized
  <2>2. statusCode[r] \in {0, EarlyHints} /\ answer[r] = 0 /\ pc'[r] = "deferred"
    BY <1>1 DEF Reject, RoundTripFails, UpgradeFails, SpoolFails, AuditedReplyFails, Header, TypeOK
  <2> QED BY <2>1, <2>2, FirstHeader DEF Header
<1>2. ASSUME NEW resp \in Responses, PassthroughResponse(r, resp) PROVE Header(r)'
  <2>1. WriteHeader(r, resp.status) /\ resp.status \in Nat \ {0}
    BY <1>2, MetricsAssumption DEF PassthroughResponse
  <2>2. statusCode[r] \in {0, EarlyHints} /\ answer[r] = 0 /\ pc'[r] = "copying"
    BY <1>2 DEF PassthroughResponse, Header, TypeOK
  <2> QED BY <2>1, <2>2, FirstHeader DEF Header
<1>3. CASE AuditedReply(r)
  <2>1. WriteHeader(r, response[r].status) /\ response[r].status \in Nat \ {0}
    BY <1>3, MetricsAssumption DEF AuditedReply, Labelled
  <2>2. statusCode[r] \in {0, EarlyHints} /\ answer[r] = 0 /\ pc'[r] = "deferred"
    BY <1>3 DEF AuditedReply, Header, TypeOK
  <2> QED BY <2>1, <2>2, FirstHeader DEF Header
<1>4. CASE Informational(r)
  BY <1>4 DEF Informational, WriteHeader, Header, TypeOK, EarlyHints
<1>5. CASE Upgraded(r)
  BY <1>5 DEF Upgraded, Header, TypeOK
<1>6. CASE UpgradeReplyFails(r)
  BY <1>6 DEF UpgradeReplyFails, Header, Relayed, TypeOK, EarlyHints, BadGateway
<1>7. CASE Dispatch(r) \/ ReadRequestBody(r) \/ CopyChunk(r) \/ ClientLeaves(r)
             \/ \E how \in {"ended", "broken"} : BackendStops(r, how)
  BY <1>7 DEF Dispatch, ReadRequestBody, CopyChunk, ClientLeaves, BackendStops, Header, Relayed,
              TypeOK
<1>8. CASE ReadEnds(r) \/ ReadFails(r) \/ WriteFails(r) \/ CloseBody(r) \/ RecordRequest(r)
  BY <1>8 DEF ReadEnds, ReadFails, WriteFails, CloseBody, RecordRequest, Header, Relayed, TypeOK
<1>9. CASE UpgradeEnds(r) \/ SendUpstream(r)
  BY <1>9 DEF UpgradeEnds, SendUpstream, Header, Relayed, TypeOK
<1>10. ASSUME NEW resp \in Responses, SwitchProtocols(r, resp) \/ AuditedResponse(r, resp)
       PROVE  Header(r)'
  BY <1>10 DEF SwitchProtocols, AuditedResponse, Header, TypeOK
<1> QED
  BY <1>1, <1>2, <1>3, <1>4, <1>5, <1>6, <1>7, <1>8, <1>9, <1>10 DEF Step, Handler

----------------------------------------------------------------------------
(* The labels.                                                             *)

Waiting == {"idle", "passthrough", "audited", "sent"}
Replying == {"upgrading", "upgraded", "copying", "closing", "cut", "replying"}

(* Before an answer there is no marker of a stream.                        *)
LEMMA NoStream == ~NoResponse.stream
BY DEF NoResponse

(* A step past the dispatch that touches neither answer nor metric state.  *)
LEMMA LabelsKept ==
    ASSUME NEW r \in Requests, Labelled(r),
           request' = request, response'[r] = response[r], state'[r] = state[r],
           roundTrips'[r] = roundTrips[r], pc[r] # "idle", pc'[r] # "idle",
           pc'[r] \in Waiting => pc[r] \in Waiting, pc'[r] \in Replying => pc[r] \in Replying
    PROVE  Labelled(r)'
<1>1. Answered(r)' = Answered(r) /\ Audited(r)' = Audited(r) /\ Semantic(r)' = Semantic(r)
  BY DEF Answered, Audited, Semantic
<1>2. RoundTrip(r)' = RoundTrip(r)
  BY <1>1 DEF RoundTrip
<1> QED BY <1>1, <1>2 DEF Labelled, Waiting, Replying

(* The first to observe the round trip leaves its sample.                  *)
ObservedFirst(r, st, outcome) ==
    /\ state'[r].verb = st.verb /\ state'[r].audited = st.audited
    /\ state'[r].streaming = st.streaming /\ state'[r].backendProto = st.backendProto
    /\ state'[r].backendObserved = TRUE
    /\ roundTrips'[r] = <<[verb |-> st.verb, streaming |-> st.streaming, outcome |-> outcome,
                           backendProto |-> NormalizeProto(st.backendProto)]>>

LEMMA FirstObserved ==
    ASSUME TypeOK, NEW r \in Requests, NEW st \in MetricState, NEW outcome,
           ~st.backendObserved, roundTrips[r] = << >>, RecordBackendRoundTrip(r, st, outcome)
    PROVE  ObservedFirst(r, st, outcome)
<1>1. state'[r] = [st EXCEPT !.backendObserved = TRUE]
  BY DEF RecordBackendRoundTrip, TypeOK
<1>2. roundTrips'[r] = Append(roundTrips[r],
         [verb |-> st.verb, streaming |-> st.streaming, outcome |-> outcome,
          backendProto |-> NormalizeProto(st.backendProto)])
  BY DEF RecordBackendRoundTrip, TypeOK
<1> QED BY <1>1, <1>2 DEF MetricState, ObservedFirst

(* Later ones leave nothing.                                               *)
LEMMA LaterObserved ==
    ASSUME TypeOK, NEW r \in Requests, NEW outcome, state[r].backendObserved,
           RecordBackendRoundTrip(r, state[r], outcome)
    PROVE  state'[r] = state[r] /\ roundTrips'[r] = roundTrips[r]
<1>1. state[r] \in MetricState
  BY DEF TypeOK
<1>2. state'[r] = [state[r] EXCEPT !.backendObserved = TRUE]
  BY DEF RecordBackendRoundTrip, TypeOK
<1>3. [state[r] EXCEPT !.backendObserved = TRUE] = state[r]
  BY <1>1 DEF MetricState
<1>4. roundTrips'[r] = roundTrips[r]
  BY DEF RecordBackendRoundTrip, TypeOK
<1> QED BY <1>2, <1>3, <1>4

(* An answer gives the request its final labels and its sample.            *)
LEMMA AnswerLabels ==
    ASSUME TypeOK, NEW r \in Requests, Labelled(r), pc[r] \in {"passthrough", "sent"},
           NEW resp \in Responses, NEW streaming \in BOOLEAN,
           RecordBackendRoundTrip(r, SetBackend(state[r], resp.proto, streaming), "ok"),
           response' = [response EXCEPT ![r] = resp], request' = request,
           response[r] = NoResponse, streaming => resp.stream \/ state[r].streaming,
           resp.stream /\ ~Audited(r) => streaming, Audited(r) => ~streaming,
           pc'[r] \in Replying
    PROVE  Labelled(r)'
<1> DEFINE st == SetBackend(state[r], resp.proto, streaming)
<1>1. /\ state[r] \in MetricState /\ ~state[r].backendObserved /\ roundTrips[r] = << >>
      /\ state[r].audited <=> Audited(r)
      /\ state[r].streaming <=> Semantic(r)
  BY DEF TypeOK, Labelled
<1>2. st \in MetricState
  BY <1>1, ProtoOfResponse, SetBackendType
<1>3. /\ st.verb = state[r].verb /\ st.audited = state[r].audited
      /\ st.streaming = (state[r].streaming \/ streaming)
      /\ st.backendProto = resp.proto /\ ~st.backendObserved
  BY <1>1 DEF SetBackend, MetricState
<1>0. RecordBackendRoundTrip(r, st, "ok") /\ ~st.backendObserved /\ roundTrips[r] = << >>
  BY <1>1, <1>3
<1> HIDE DEF st
<1>4. /\ state'[r].verb = st.verb /\ state'[r].audited = st.audited
      /\ state'[r].streaming = st.streaming /\ state'[r].backendProto = st.backendProto
      /\ state'[r].backendObserved = TRUE
      /\ roundTrips'[r] = <<[verb |-> st.verb, streaming |-> st.streaming, outcome |-> "ok",
                             backendProto |-> NormalizeProto(st.backendProto)]>>
  <2>1. ObservedFirst(r, st, "ok")
    BY <1>0, <1>2, FirstObserved
  <2> QED BY <2>1 DEF ObservedFirst
<1>5. response'[r] = resp /\ Answered(r)'
  BY ProtoOfResponse DEF TypeOK, Answered
<1>6. Audited(r)' = Audited(r)
  BY DEF Audited
<1>7. Semantic(r)' <=> st.streaming
  BY <1>1, <1>3, <1>5, <1>6, NoStream DEF Semantic
<1>8. roundTrips'[r] = <<RoundTrip(r)'>>
  BY <1>4, <1>5 DEF RoundTrip
<1> QED BY <1>1, <1>3, <1>4, <1>5, <1>6, <1>7, <1>8 DEF Labelled, Replying

(* A step keeps the labels of the request that takes it.                   *)
LEMMA LabelStep ==
    ASSUME TypeOK, NEW r \in Requests, RequestInv(r), Labelled(r), Step(r)
    PROVE  Labelled(r)'
<1> USE DEF worldVars, handlerVars, streamVars, Goto, At
<1>1. CASE Reject(r)
  <2>1. /\ pc[r] = "idle" /\ pc'[r] = "deferred" /\ UNCHANGED <<request, response, state, roundTrips>>
        /\ request[r].info = "rejected"
    BY <1>1 DEF Reject, TypeOK
  <2>2. response[r] = NoResponse /\ (state[r].streaming <=> request[r].watch)
    BY <2>1 DEF RequestInv, Phase
  <2>3. (state[r].streaming <=> Semantic(r)') /\ ~Audited(r)' /\ ~Answered(r) /\ ~Answered(r)'
    BY <2>1, <2>2, NoStream DEF Semantic, Audited, Answered
  <2>4. RoundTrip(r)' = RoundTrip(r)
    BY <2>1, <2>3 DEF RoundTrip
  <2> QED BY <2>1, <2>3, <2>4 DEF Labelled
<1>2. CASE Dispatch(r)
  <2>1. /\ pc[r] = "idle" /\ pc'[r] \in {"audited", "passthrough"}
        /\ UNCHANGED <<request, response, roundTrips>> /\ request[r].info # "rejected"
        /\ state'[r] = IF request[r].info = "unresolved" THEN state[r]
                       ELSE SetRequestInfo(state[r], request[r].info, request[r].info = "create")
    BY <1>2 DEF Dispatch, TypeOK
  <2>2. /\ response[r] = NoResponse /\ (state[r].streaming <=> request[r].watch)
        /\ ~state[r].audited /\ state[r] \in MetricState
        /\ ~state[r].backendObserved /\ roundTrips[r] = << >> /\ state[r].backendProto = "unknown"
    BY <2>1 DEF RequestInv, Phase, Labelled, TypeOK, Answered
  <2>3. /\ state'[r].audited <=> request[r].info = "create"
        /\ state'[r].streaming <=> request[r].watch \/ request[r].info = "watch"
        /\ ~state'[r].backendObserved /\ state'[r].backendProto = "unknown"
    BY <2>1, <2>2 DEF SetRequestInfo, MetricState
  <2>4. /\ Semantic(r)' <=> request[r].watch \/ request[r].info = "watch"
        /\ Audited(r)' <=> request[r].info = "create"
        /\ ~Answered(r)'
    BY <2>1, <2>2, NoStream DEF Semantic, Audited, Answered
  <2> QED BY <2>1, <2>2, <2>3, <2>4 DEF Labelled
<1>3. CASE RoundTripFails(r)
  <2>1. /\ pc[r] \in {"passthrough", "sent"} /\ pc'[r] = "deferred"
        /\ UNCHANGED <<request, response>> /\ RecordBackendRoundTrip(r, state[r], "error")
    BY <1>3 DEF RoundTripFails, TypeOK
  <2>2. /\ response[r] = NoResponse /\ state[r] \in MetricState
        /\ ~state[r].backendObserved /\ roundTrips[r] = << >> /\ state[r].backendProto = "unknown"
        /\ (state[r].audited <=> Audited(r)) /\ (state[r].streaming <=> Semantic(r))
    BY <2>1 DEF RequestInv, Phase, Labelled, TypeOK, Answered
  <2>3. /\ state'[r].verb = state[r].verb /\ state'[r].audited = state[r].audited
        /\ state'[r].streaming = state[r].streaming
        /\ state'[r].backendProto = state[r].backendProto
        /\ state'[r].backendObserved = TRUE
        /\ roundTrips'[r] = <<[verb |-> state[r].verb, streaming |-> state[r].streaming,
                               outcome |-> "error",
                               backendProto |-> NormalizeProto(state[r].backendProto)]>>
    <3>1. RecordBackendRoundTrip(r, state[r], "error")
      BY <2>1
    <3>2. state[r] \in MetricState /\ ~state[r].backendObserved /\ roundTrips[r] = << >>
      BY <2>2
    <3>3. ObservedFirst(r, state[r], "error")
      BY <3>1, <3>2, FirstObserved
    <3> QED BY <3>3 DEF ObservedFirst
  <2>4. ~Answered(r)' /\ Audited(r)' = Audited(r) /\ Semantic(r)' = Semantic(r)
    BY <2>1, <2>2 DEF Answered, Audited, Semantic
  <2>5. roundTrips'[r] = <<RoundTrip(r)'>>
    BY <2>3, <2>4 DEF RoundTrip
  <2> QED BY <2>1, <2>2, <2>3, <2>4, <2>5 DEF Labelled
<1>4. CASE UpgradeFails(r) \/ UpgradeReplyFails(r)
  <2>1. /\ pc[r] = "upgrading" /\ pc'[r] = "deferred"
        /\ UNCHANGED <<request, response>> /\ RecordBackendRoundTrip(r, state[r], "error")
    BY <1>4 DEF UpgradeFails, UpgradeReplyFails, TypeOK
  <2>2. Answered(r) /\ state[r].backendObserved
    BY <2>1, ProtoOfResponse DEF Labelled, Answered
  <2>3. state'[r] = state[r] /\ roundTrips'[r] = roundTrips[r]
    BY <2>1, <2>2, LaterObserved
  <2> QED BY <2>1, <2>3, LabelsKept DEF Waiting, Replying
<1>5. ASSUME NEW resp \in Responses, PassthroughResponse(r, resp) \/ SwitchProtocols(r, resp)
      PROVE  Labelled(r)'
  <2>1. /\ pc[r] = "passthrough" /\ pc'[r] \in {"copying", "upgrading"}
        /\ response' = [response EXCEPT ![r] = resp] /\ request' = request
        /\ RecordBackendRoundTrip(r, SetBackend(state[r], resp.proto, Streaming(r, resp)), "ok")
    BY <1>5 DEF PassthroughResponse, SwitchProtocols, TypeOK
  <2>2. response[r] = NoResponse /\ ~Audited(r)
    BY <2>1 DEF RequestInv, Phase
  <2>3. Streaming(r, resp) \in BOOLEAN /\ (Streaming(r, resp) <=> resp.stream \/ state[r].streaming)
    BY ProtoOfResponse, StreamingType DEF Streaming
  <2> QED BY <2>1, <2>2, <2>3, AnswerLabels DEF Replying
<1>6. ASSUME NEW resp \in Responses, AuditedResponse(r, resp) PROVE Labelled(r)'
  <2>1. /\ pc[r] = "sent" /\ pc'[r] = "replying"
        /\ response' = [response EXCEPT ![r] = resp] /\ request' = request
        /\ RecordBackendRoundTrip(r, SetBackend(state[r], resp.proto, FALSE), "ok")
    BY <1>6 DEF AuditedResponse, TypeOK
  <2>2. response[r] = NoResponse /\ Audited(r)
    BY <2>1 DEF RequestInv, Phase
  <2> QED BY <2>1, <2>2, AnswerLabels DEF Replying
<1>7. ASSUME UNCHANGED <<request, response, state, roundTrips>>,
             pc[r] # "idle", pc'[r] # "idle",
             pc'[r] \in Waiting => pc[r] \in Waiting, pc'[r] \in Replying => pc[r] \in Replying
      PROVE  Labelled(r)'
  BY <1>7, LabelsKept
<1>8. CASE ReadRequestBody(r) \/ Informational(r) \/ CopyChunk(r) \/ ReadEnds(r) \/ ReadFails(r)
             \/ WriteFails(r) \/ CloseBody(r)
  BY <1>7, <1>8 DEF ReadRequestBody, Informational, CopyChunk, ReadEnds, ReadFails, WriteFails,
                    CloseBody, TypeOK, Waiting, Replying
<1>9. CASE Upgraded(r) \/ UpgradeEnds(r) \/ SpoolFails(r) \/ SendUpstream(r) \/ AuditedReply(r)
             \/ AuditedReplyFails(r) \/ RecordRequest(r)
  BY <1>7, <1>9 DEF Upgraded, UpgradeEnds, SpoolFails, SendUpstream, AuditedReply,
                    AuditedReplyFails, RecordRequest, TypeOK, Waiting, Replying
<1>10. CASE ClientLeaves(r) \/ \E how \in {"ended", "broken"} : BackendStops(r, how)
  <2>1. UNCHANGED <<request, response, state, roundTrips, pc>> /\ pc[r] # "idle"
    BY <1>10 DEF ClientLeaves, Serving, BackendStops
  <2> QED BY <1>7, <2>1
<1> QED
  BY <1>1, <1>2, <1>3, <1>4, <1>5, <1>6, <1>8, <1>9, <1>10 DEF Step, Handler

----------------------------------------------------------------------------
(* The request's own sample, and the bytes.                                *)

(* Nothing about a request changes once it is recorded.                    *)
LEMMA CountedStep ==
    ASSUME TypeOK, NEW r \in Requests, Counted(r), Step(r)
    PROVE  Counted(r)'
<1> USE DEF worldVars, handlerVars, streamVars, Goto, At, Counted, Recorded, TypeOK
<1>1. CASE RecordRequest(r)
  BY <1>1 DEF RecordRequest
<1>2. CASE Reject(r) \/ Dispatch(r) \/ ReadRequestBody(r) \/ Informational(r) \/ CopyChunk(r)
  BY <1>2 DEF Reject, Dispatch, ReadRequestBody, Informational, CopyChunk
<1>3. ASSUME NEW resp \in Responses,
             \/ PassthroughResponse(r, resp) \/ SwitchProtocols(r, resp)
             \/ AuditedResponse(r, resp)
      PROVE  Counted(r)'
  BY <1>3 DEF PassthroughResponse, SwitchProtocols, AuditedResponse
<1>4. CASE ClientLeaves(r) \/ \E how \in {"ended", "broken"} : BackendStops(r, how)
  BY <1>4 DEF ClientLeaves, BackendStops
<1>5. CASE RoundTripFails(r) \/ UpgradeFails(r) \/ UpgradeReplyFails(r) \/ UpgradeEnds(r)
             \/ Upgraded(r)
  BY <1>5 DEF RoundTripFails, UpgradeFails, UpgradeReplyFails, UpgradeEnds, Upgraded
<1>6. CASE ReadEnds(r) \/ ReadFails(r) \/ WriteFails(r) \/ CloseBody(r)
  BY <1>6 DEF ReadEnds, ReadFails, WriteFails, CloseBody
<1>7. CASE SpoolFails(r) \/ SendUpstream(r) \/ AuditedReply(r) \/ AuditedReplyFails(r)
  BY <1>7 DEF SpoolFails, SendUpstream, AuditedReply, AuditedReplyFails
<1> QED BY <1>1, <1>2, <1>3, <1>4, <1>5, <1>6, <1>7 DEF Step, Handler

(* The labels that bytes of an answer must have, as things stand.          *)
Fits(r, b) ==
    /\ b.leg = "client" => b.streaming = state[r].streaming
    /\ b.leg = "backend" => b.streaming = (state[r].streaming /\ ~Audited(r))

(* How a step may add bytes: none that are of an answer, or such as carry  *)
(* the request's label, and then the answer's labels are final.            *)
LEMMA SizedKept ==
    ASSUME NEW r \in Requests, Sized(r),
           request' = request, state'[r].streaming = state[r].streaming,
           pc'[r] \in Waiting => pc[r] \in Waiting,
           \A b \in bytes'[r] :
              b \in bytes[r] \/ ~OfAnswer(b) \/ (pc'[r] \notin Waiting /\ Fits(r, b))
    PROVE  Sized(r)'
<1>1. Audited(r)' = Audited(r)
  BY DEF Audited
<1>2. SUFFICES ASSUME NEW b \in bytes'[r], OfAnswer(b)
               PROVE  /\ pc'[r] \notin Waiting
                      /\ b.leg = "client" => b.streaming = state[r].streaming
                      /\ b.leg = "backend" => b.streaming = (state[r].streaming /\ ~Audited(r))
  BY <1>1 DEF Sized, Waiting
<1>3. CASE b \in bytes[r]
  BY <1>2, <1>3 DEF Sized, Waiting
<1>4. CASE b \notin bytes[r]
  BY <1>2, <1>4 DEF Fits
<1> QED BY <1>3, <1>4

(* A request that waits for its answer has no bytes of one.                *)
LEMMA NoAnswerBytes ==
    ASSUME NEW r \in Requests, Sized(r), pc[r] \in Waiting, bytes'[r] = bytes[r]
    PROVE  Sized(r)'
BY DEF Sized, Waiting

(* What the labels of the byte counters are.                               *)
LEMMA BytesFields ==
    ASSUME NEW leg, NEW direction, NEW streaming
    PROVE  /\ Bytes(leg, direction, streaming).leg = leg
           /\ Bytes(leg, direction, streaming).direction = direction
           /\ Bytes(leg, direction, streaming).streaming = streaming
BY DEF Bytes

(* Bytes to the client, under the label of the moment, fit; so do bytes    *)
(* from the backend, whose label an audited answer lacks.                  *)
LEMMA BytesFit ==
    ASSUME NEW r \in Requests, state[r].streaming \in BOOLEAN
    PROVE  /\ Fits(r, Bytes("client", "write", state[r].streaming))
           /\ Audited(r) => Fits(r, Bytes("backend", "read", FALSE))
           /\ ~Audited(r) => Fits(r, Bytes("backend", "read", state[r].streaming))
<1>1. Fits(r, Bytes("client", "write", state[r].streaming))
  BY BytesFields DEF Fits
<1>2. ASSUME Audited(r) PROVE Fits(r, Bytes("backend", "read", FALSE))
  <2>1. FALSE = (state[r].streaming /\ ~Audited(r))
    BY <1>2
  <2>2. /\ Bytes("backend", "read", FALSE).leg = "backend"
        /\ Bytes("backend", "read", FALSE).streaming = FALSE
    BY DEF Bytes
  <2>3. Bytes("backend", "read", FALSE).streaming = (state[r].streaming /\ ~Audited(r))
    BY <2>1, <2>2
  <2>4. Bytes("backend", "read", FALSE).leg # "client"
    BY <2>2
  <2> QED BY <2>3, <2>4 DEF Fits
<1>3. ASSUME ~Audited(r) PROVE Fits(r, Bytes("backend", "read", state[r].streaming))
  <2>1. state[r].streaming = (state[r].streaming /\ ~Audited(r))
    BY <1>3
  <2> QED BY <2>1, BytesFields DEF Fits
<1> QED BY <1>1, <1>2, <1>3

(* Bytes of the request are not of the answer.                             *)
LEMMA RequestBytes ==
    ASSUME NEW streaming
    PROVE  /\ ~OfAnswer(Bytes("client", "read", streaming))
           /\ ~OfAnswer(Bytes("backend", "write", streaming))
BY BytesFields DEF OfAnswer

(* A step keeps the bytes of its request labelled.                         *)
LEMMA SizedStep ==
    ASSUME TypeOK, NEW r \in Requests, RequestInv(r), Labelled(r), Sized(r), Step(r)
    PROVE  Sized(r)'
<1> USE DEF worldVars, handlerVars, streamVars, Goto, At
<1>a. state[r].streaming \in BOOLEAN
  BY StreamingType
<1>0. ASSUME bytes' = bytes, request' = request, state'[r].streaming = state[r].streaming,
             pc'[r] \in Waiting => pc[r] \in Waiting
      PROVE  Sized(r)'
  <2>1. \A b \in bytes'[r] : b \in bytes[r]
    BY <1>0
  <2> QED BY <1>0, <2>1, SizedKept
<1>1. CASE Reject(r) \/ SpoolFails(r) \/ AuditedReplyFails(r)
  <2>1. /\ bytes'[r] = bytes[r] \cup {Bytes("client", "write", state[r].streaming)}
        /\ request' = request /\ state' = state /\ pc'[r] = "deferred"
    BY <1>1 DEF Reject, SpoolFails, AuditedReplyFails, HTTPError, AddBytes, TypeOK
  <2>2. \A b \in bytes'[r] : b \in bytes[r] \/ Fits(r, b)
    BY <1>a, <2>1, BytesFit
  <2>3. pc'[r] \notin Waiting
    BY <2>1 DEF Waiting
  <2> QED BY <2>1, <2>2, <2>3, SizedKept
<1>2. CASE RoundTripFails(r) \/ UpgradeFails(r)
  <2>1. /\ bytes'[r] = bytes[r] \cup {Bytes("client", "write", state[r].streaming)}
        /\ request' = request /\ state'[r] = [state[r] EXCEPT !.backendObserved = TRUE]
        /\ pc'[r] = "deferred"
    BY <1>2 DEF RoundTripFails, UpgradeFails, RecordBackendRoundTrip, HTTPError, AddBytes, TypeOK
  <2>2. state'[r].streaming = state[r].streaming
    BY <2>1 DEF TypeOK, MetricState
  <2>3. \A b \in bytes'[r] : b \in bytes[r] \/ Fits(r, b)
    BY <1>a, <2>1, BytesFit
  <2>4. pc'[r] \notin Waiting
    BY <2>1 DEF Waiting
  <2> QED BY <2>1, <2>2, <2>3, <2>4, SizedKept
<1>3. CASE UpgradeReplyFails(r)
  <2>1. /\ bytes' = bytes /\ request' = request /\ pc'[r] = "deferred"
        /\ state'[r] = [state[r] EXCEPT !.backendObserved = TRUE]
    BY <1>3 DEF UpgradeReplyFails, RecordBackendRoundTrip, TypeOK
  <2>2. state'[r].streaming = state[r].streaming
    BY <2>1 DEF TypeOK, MetricState
  <2> QED BY <1>0, <2>1, <2>2 DEF Waiting
<1>4. CASE Dispatch(r)
  BY <1>4, NoAnswerBytes DEF Dispatch, Waiting
<1>5. ASSUME NEW resp \in Responses,
             \/ PassthroughResponse(r, resp) \/ SwitchProtocols(r, resp)
             \/ AuditedResponse(r, resp)
      PROVE  Sized(r)'
  BY <1>5, NoAnswerBytes DEF PassthroughResponse, SwitchProtocols, AuditedResponse, Waiting
<1>6. CASE ReadRequestBody(r)
  <2>1. /\ bytes'[r] = bytes[r] \cup {Bytes("client", "read", state[r].streaming)}
        /\ UNCHANGED <<request, state, pc>>
    BY <1>6 DEF ReadRequestBody, AddBytes, TypeOK
  <2>2. \A b \in bytes'[r] : b \in bytes[r] \/ ~OfAnswer(b)
    BY <2>1, RequestBytes
  <2> QED BY <2>1, <2>2, SizedKept
<1>7. CASE SendUpstream(r)
  <2>1. PICK body \in BOOLEAN :
             bytes'[r] = bytes[r] \cup IF body THEN {Bytes("backend", "write", FALSE)} ELSE {}
    BY <1>7 DEF SendUpstream, AddBytes, TypeOK
  <2>2. UNCHANGED <<request, state>> /\ pc[r] \in Waiting
    BY <1>7 DEF SendUpstream, Waiting
  <2>3. \A b \in bytes'[r] : b \in bytes[r] \/ ~OfAnswer(b)
    BY <2>1, RequestBytes
  <2> QED BY <2>2, <2>3, SizedKept
<1>8. CASE CopyChunk(r) \/ WriteFails(r)
  <2>1. bytes'[r] \subseteq bytes[r] \cup {Bytes("backend", "read", state[r].streaming),
                                          Bytes("client", "write", state[r].streaming)}
    BY <1>8 DEF CopyChunk, WriteFails, AddBytes, TypeOK
  <2>2. UNCHANGED <<request, state>> /\ pc[r] = "copying" /\ pc'[r] \in {"copying", "cut"}
    BY <1>8 DEF CopyChunk, WriteFails, TypeOK
  <2>3. ~Audited(r)
    BY <2>2 DEF RequestInv, Phase
  <2>4. \A b \in bytes'[r] : b \in bytes[r] \/ Fits(r, b)
    BY <1>a, <2>1, <2>3, BytesFit
  <2>5. pc'[r] \notin Waiting
    BY <2>2 DEF Waiting
  <2> QED BY <2>2, <2>4, <2>5, SizedKept
<1>9. CASE AuditedReply(r)
  <2>1. PICK body \in BOOLEAN :
             AddBytes(r, IF body THEN {Bytes("backend", "read", FALSE),
                                       Bytes("client", "write", state[r].streaming)} ELSE {})
    BY <1>9 DEF AuditedReply
  <2>2. UNCHANGED <<request, state>> /\ pc[r] = "replying" /\ pc'[r] = "deferred"
    BY <1>9 DEF AuditedReply, TypeOK
  <2>3. Audited(r)
    BY <2>2 DEF RequestInv, Phase
  <2>4. \A b \in bytes'[r] : b \in bytes[r] \/ Fits(r, b)
    <3>1. CASE body
      BY <1>a, <2>1, <2>3, <3>1, BytesFit DEF AddBytes, TypeOK
    <3>2. CASE ~body
      BY <2>1, <3>2 DEF AddBytes, TypeOK
    <3> QED BY <3>1, <3>2
  <2>5. pc'[r] \notin Waiting
    BY <2>2 DEF Waiting
  <2> QED BY <2>2, <2>4, <2>5, SizedKept
<1>10. CASE Informational(r) \/ ReadEnds(r) \/ ReadFails(r) \/ CloseBody(r) \/ Upgraded(r)
              \/ UpgradeEnds(r) \/ RecordRequest(r)
  BY <1>0, <1>10 DEF Informational, ReadEnds, ReadFails, CloseBody, Upgraded, UpgradeEnds,
                     RecordRequest, TypeOK, Waiting
<1>11. CASE ClientLeaves(r) \/ \E how \in {"ended", "broken"} : BackendStops(r, how)
  <2>1. UNCHANGED <<request, state, pc, bytes>>
    BY <1>11 DEF ClientLeaves, BackendStops
  <2> QED BY <1>0, <2>1
<1> QED
  BY <1>1, <1>2, <1>3, <1>4, <1>5, <1>6, <1>7, <1>8, <1>9, <1>10, <1>11 DEF Step, Handler

----------------------------------------------------------------------------
SamplesInv == \A r \in Requests : SampleInv(r)

(* Every step keeps every request's samples true.                          *)
LEMMA SamplesStep == Inv /\ SamplesInv /\ [Next]_vars => SamplesInv'
<1> SUFFICES ASSUME Inv, SamplesInv, [Next]_vars, NEW q \in Requests PROVE SampleInv(q)'
  BY DEF SamplesInv
<1>1. RequestInv(q) /\ SampleInv(q) /\ TypeOK
  BY DEF Inv, RequestInv, SamplesInv
<1>2. CASE Step(q)
  BY <1>1, <1>2, HeaderStep, LabelStep, CountedStep, SizedStep DEF SampleInv
<1>3. ASSUME NEW r \in Requests, Step(r), r # q PROVE SampleInv(q)'
  BY <1>1, <1>3, OthersUndisturbed, OthersUnsampled, UnsampledKeeps
<1>4. CASE UNCHANGED vars
  <2>1. Undisturbed(q) /\ Unsampled(q)
    BY <1>4 DEF vars, worldVars, handlerVars, streamVars, Undisturbed, Unsampled
  <2> QED BY <1>1, <2>1, UnsampledKeeps
<1> QED BY <1>2, <1>3, <1>4 DEF Next, Step

(* The metric state of a request and what has been recorded of it agree in *)
(* every reachable state.                                                  *)
THEOREM SamplesInvariant == Spec => []SamplesInv
<1>1. Init => SamplesInv
  <2> SUFFICES ASSUME Init, NEW r \in Requests PROVE SampleInv(r)
    BY DEF SamplesInv
  <2>1. state[r] = NewRequestMetricState(request[r]) /\ response[r] = NoResponse
    BY DEF Init
  <2>2. /\ ~state[r].audited /\ state[r].backendProto = "unknown" /\ ~state[r].backendObserved
    BY <2>1 DEF NewRequestMetricState
  <2>3. Labelled(r)
    BY <2>1, <2>2 DEF Init, Labelled, Answered
  <2>4. Header(r) /\ Counted(r) /\ Sized(r)
    BY DEF Init, Header, Counted, Recorded, At, Sized
  <2> QED BY <2>3, <2>4 DEF SampleInv
<1> QED BY <1>1, SamplesStep, MetricsInvariant, PTL DEF Spec

(* A request is in requests_total exactly once, under the labels it really *)
(* had, and as an error only when it was one for its client.               *)
THEOREM EveryRequestRecordedOnce == Spec => []RequestsRecordedOnce
<1>1. Inv /\ SamplesInv => RequestsRecordedOnce
  <2> SUFFICES ASSUME Inv, SamplesInv, NEW r \in Requests
               PROVE  /\ Len(requests[r]) = IF Recorded(r) THEN 1 ELSE 0
                      /\ Recorded(r) =>
                           /\ requests[r][1].streaming = Semantic(r)
                           /\ requests[r][1].audited = Audited(r)
                           /\ requests[r][1].outcome = "error" => answer[r] >= 500 \/ r \in gone
                           /\ answer[r] >= 500 =>
                                requests[r][1].outcome = "error" \/ statusCode[r] = EarlyHints
                           /\ requests[r][1].outcome = "unknown" => answer[r] = SwitchingProtocols
    BY DEF RequestsRecordedOnce
  <2>1. TypeOK /\ Header(r) /\ Labelled(r) /\ Counted(r)
    BY DEF Inv, SamplesInv, SampleInv
  <2>2. Len(requests[r]) = IF Recorded(r) THEN 1 ELSE 0
    BY <2>1 DEF Counted
  <2>3. ASSUME Recorded(r)
        PROVE  /\ requests[r][1].streaming = state[r].streaming
               /\ requests[r][1].audited = state[r].audited
               /\ requests[r][1].outcome = RequestOutcome(statusCode[r])
    BY <2>1, <2>3 DEF Counted, RequestLabels
  <2>4. ASSUME Recorded(r)
        PROVE  state[r].streaming = Semantic(r) /\ state[r].audited = Audited(r)
    <3>1. state[r].streaming \in BOOLEAN /\ state[r].audited \in BOOLEAN
      BY <2>1 DEF TypeOK, MetricState
    <3>2. /\ Semantic(r) \in BOOLEAN /\ Audited(r) \in BOOLEAN
          /\ state[r].streaming <=> Semantic(r)
          /\ state[r].audited <=> Audited(r)
      BY <2>1, <2>4 DEF Labelled, Recorded, At, Semantic, Audited
    <3> QED BY <3>1, <3>2
  <2>5. ASSUME Recorded(r)
        PROVE  /\ RequestOutcome(statusCode[r]) = "error" => answer[r] >= 500 \/ r \in gone
               /\ answer[r] >= 500 =>
                    RequestOutcome(statusCode[r]) = "error" \/ statusCode[r] = EarlyHints
               /\ RequestOutcome(statusCode[r]) = "unknown" => answer[r] = SwitchingProtocols
    <3>1. statusCode[r] \in Nat /\ answer[r] \in Nat
      BY <2>1 DEF TypeOK
    <3>2. \/ Relayed(r)
          \/ statusCode[r] = 0 /\ answer[r] = SwitchingProtocols
          \/ statusCode[r] = BadGateway /\ answer[r] = 0 /\ r \in gone
      BY <2>1, <2>5 DEF Header, Recorded, At
    <3> QED BY <3>1, <3>2 DEF Relayed, RequestOutcome, EarlyHints, SwitchingProtocols, BadGateway
  <2> QED BY <2>2, <2>3, <2>4, <2>5
<1> QED BY <1>1, MetricsInvariant, SamplesInvariant, PTL

(* The round trip leaves at most one sample, "ok" only for an answer, and  *)
(* never under other labels than the request's own.                        *)
THEOREM RoundTripsTruthful == Spec => []RoundTripTruthful
<1>1. Inv /\ SamplesInv => RoundTripTruthful
  <2> SUFFICES ASSUME Inv, SamplesInv, NEW r \in Requests
               PROVE  /\ Len(roundTrips[r]) <= 1
                      /\ Recorded(r) /\ Answered(r) => Len(roundTrips[r]) = 1
                      /\ \A i \in DOMAIN roundTrips[r] :
                           /\ roundTrips[r][i].outcome = (IF Answered(r) THEN "ok" ELSE "error")
                           /\ roundTrips[r][i].backendProto \in Proto <=> Answered(r)
                           /\ Recorded(r) =>
                                /\ roundTrips[r][i].verb = requests[r][1].verb
                                /\ roundTrips[r][i].streaming = requests[r][1].streaming
                                /\ roundTrips[r][i].backendProto = requests[r][1].backendProto
    BY DEF RoundTripTruthful
  <2>1. TypeOK /\ Labelled(r) /\ Counted(r)
    BY DEF Inv, SamplesInv, SampleInv
  <2>2. /\ Len(roundTrips[r]) <= 1
        /\ Answered(r) => Len(roundTrips[r]) = 1
        /\ \A i \in DOMAIN roundTrips[r] : roundTrips[r][i] = RoundTrip(r)
    BY <2>1 DEF Labelled
  <2>3. NormalizeProto(state[r].backendProto) \in Proto <=> Answered(r)
    <3>1. CASE Answered(r)
      <4>1. response[r] \in Responses
        BY <2>1, <3>1 DEF TypeOK, Answered
      <4> QED BY <2>1, <3>1, <4>1, ProtoOfResponse DEF Labelled
    <3>2. CASE ~Answered(r)
      <4>1. state[r].backendProto = "unknown"
        BY <2>1, <3>2 DEF Labelled
      <4> QED BY <3>2, <4>1 DEF NormalizeProto, Proto
    <3> QED BY <3>1, <3>2
  <2>4. ASSUME Recorded(r)
        PROVE  /\ RoundTrip(r).verb = requests[r][1].verb
               /\ RoundTrip(r).streaming = requests[r][1].streaming
               /\ RoundTrip(r).backendProto = requests[r][1].backendProto
    BY <2>1, <2>4 DEF Counted, RequestLabels, RoundTrip
  <2>5. /\ RoundTrip(r).outcome = (IF Answered(r) THEN "ok" ELSE "error")
        /\ RoundTrip(r).backendProto = NormalizeProto(state[r].backendProto)
    BY DEF RoundTrip
  <2> QED BY <2>2, <2>3, <2>4, <2>5
<1> QED BY <1>1, MetricsInvariant, SamplesInvariant, PTL

(* The bytes of an answer carry the label of their request, on both legs.  *)
THEOREM AnswerBytesTruthful == Spec => []AnswerBytesLabelled
<1>1. Inv /\ SamplesInv => AnswerBytesLabelled
  <2> SUFFICES ASSUME Inv, SamplesInv, NEW r \in Requests, Recorded(r), NEW b \in bytes[r]
               PROVE  /\ b.leg = "client" /\ b.direction = "write" =>
                           b.streaming = requests[r][1].streaming
                      /\ b.leg = "backend" /\ b.direction = "read" =>
                           b.streaming = (requests[r][1].streaming /\ ~Audited(r))
    BY DEF AnswerBytesLabelled
  <2>1. Counted(r) /\ Sized(r)
    BY DEF SamplesInv, SampleInv
  <2>2. requests[r][1].streaming = state[r].streaming
    BY <2>1 DEF Counted, RequestLabels
  <2> QED BY <2>1, <2>2 DEF Sized, OfAnswer
<1> QED BY <1>1, MetricsInvariant, SamplesInvariant, PTL
=============================================================================
