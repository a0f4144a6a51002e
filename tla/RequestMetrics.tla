--------------------------- MODULE RequestMetrics ---------------------------
(***************************************************************************)
(* What a request leaves in the metrics: requestMetricState, the response  *)
(* writer and the body readers that ServeHTTP and the ReverseProxy's hooks *)
(* wrap around it (pkg/proxy/handler.go), and the instruments behind them  *)
(* (pkg/telemetry/observe.go).                                             *)
(*                                                                         *)
(* A request runs on its own goroutine; the instruments are shared, and    *)
(* the client, the backend and the request's body move at any moment.      *)
(* httputil.ReverseProxy and net/http are external: they relay 1xx answers *)
(* during the round trip, copy the response body until either side fails,  *)
(* close it, and take the connection over after a 101.  Durations are left *)
(* out: a histogram has one sample wherever it is recorded.  A byte        *)
(* counter is the set of label sets it has been raised under.              *)
(***************************************************************************)
EXTENDS Integers, FiniteSets, Sequences

CONSTANTS
    Requests,     \* the requests that may arrive
    Inbound,      \* what a request may be: [method, watch, info]
    Responses     \* what a backend may answer: [status, stream, proto]

ASSUME MetricsAssumption ==
    /\ IsFiniteSet(Requests)
    /\ Inbound \subseteq
         [method : {"get", "post"}, watch : BOOLEAN,
          info : {"rejected", "unresolved", "get", "list", "watch", "create"}]
    /\ Responses \subseteq
         [status : Nat \ 0 .. 100, stream : BOOLEAN, proto : {"HTTP/1.1", "HTTP/2.0"}]

VARIABLES
    (* the world outside *)
    request,        \* the request as it arrives
    gone,           \* requests whose client has left
    backend,        \* its backend: up, ended (the body is complete), broken
    response,       \* the backend's answer, NoResponse before
    answer,         \* the final status the client was sent, 0 before
    (* the handler *)
    pc,             \* where ServeHTTP is
    state,          \* requestMetricState
    statusCode,     \* metricResponseWriter.statusCode
    onClose,        \* observedReadCloser.onClose of the response body is set
    (* the instruments *)
    requests,       \* requests_total and request_duration_seconds, by request
    roundTrips,     \* backend_roundtrip_seconds, by request
    streamsActive,  \* streams_active, by backend_proto
    streamEnds,     \* stream_duration_seconds: the outcomes, by request
    bytes           \* transport_bytes_total, by request

worldVars == <<request, gone, backend, response, answer>>
handlerVars == <<pc, state, statusCode, onClose>>
streamVars == <<streamsActive, streamEnds>>
vars == <<worldVars, handlerVars, requests, roundTrips, streamVars, bytes>>

NoResponse == [status |-> 0, stream |-> FALSE, proto |-> ""]

BadRequest == 400
Unauthorized == 401
BadGateway == 502
SwitchingProtocols == 101
EarlyHints == 103

Proto == {"http1", "http2"}

----------------------------------------------------------------------------
(* pkg/telemetry/observe.go                                                *)

NormalizeProto(proto) ==
    CASE proto = "HTTP/2.0" -> "http2"
      [] proto = "HTTP/1.1" -> "http1"
      [] proto = ""         -> "unknown"
      [] OTHER              -> "other"

(* StatusClass and requestOutcome of a status code, 0 for none.            *)
StatusClass(code) == code \div 100

RequestOutcome(code) ==
    CASE code = 0   -> "unknown"
      [] code > 0 /\ code < 500 -> "ok"
      [] OTHER      -> "error"

----------------------------------------------------------------------------
(* requestMetricState                                                      *)

NewRequestMetricState(req) ==
    [verb |-> IF req.watch THEN "watch" ELSE req.method,
     audited |-> FALSE,
     streaming |-> req.watch,
     backendProto |-> "unknown",
     backendObserved |-> FALSE]

SetRequestInfo(st, info, audited) ==
    [st EXCEPT !.verb = info, !.audited = audited, !.streaming = @ \/ info = "watch"]

(* Mutant: the latest answer decides.                                      *)
MutantSetBackendOverwrites(st, proto, streaming) ==
    [st EXCEPT !.backendProto = proto, !.streaming = streaming]

SetBackend(st, proto, streaming) ==
    [st EXCEPT !.backendProto = proto, !.streaming = @ \/ streaming]

(* Mutant: every caller records.                                           *)
MutantRecordEveryTime(r, st, outcome) ==
    /\ state' = [state EXCEPT ![r] = [st EXCEPT !.backendObserved = TRUE]]
    /\ roundTrips' = [roundTrips EXCEPT ![r] =
           Append(@, [verb |-> st.verb, streaming |-> st.streaming, outcome |-> outcome,
                      backendProto |-> NormalizeProto(st.backendProto)])]

(* The first caller records the round trip, later ones do nothing.         *)
RecordBackendRoundTrip(r, st, outcome) ==
    /\ state' = [state EXCEPT ![r] = [st EXCEPT !.backendObserved = TRUE]]
    /\ roundTrips' = [roundTrips EXCEPT ![r] =
         IF st.backendObserved THEN @
         ELSE Append(@, [verb |-> st.verb, streaming |-> st.streaming, outcome |-> outcome,
                         backendProto |-> NormalizeProto(st.backendProto)])]

RequestLabels(st, code) ==
    [verb |-> st.verb, audited |-> st.audited, streaming |-> st.streaming,
     statusClass |-> StatusClass(code), outcome |-> RequestOutcome(code),
     backendProto |-> NormalizeProto(st.backendProto)]

----------------------------------------------------------------------------
(* The wrappers                                                            *)

(* metricResponseWriter.WriteHeader keeps the first code it is given; the  *)
(* writer below sends every 1xx but 101 on and waits for a final one.      *)
WriteHeader(r, code) ==
    /\ statusCode' = [statusCode EXCEPT ![r] = IF @ = 0 THEN code ELSE @]
    /\ answer' = [answer EXCEPT ![r] = IF @ = 0 /\ code >= 200 THEN code ELSE @]

(* AddTransportBytes.                                                      *)
Bytes(leg, direction, streaming) ==
    [leg |-> leg, direction |-> direction, streaming |-> streaming]

AddBytes(r, more) == bytes' = [bytes EXCEPT ![r] = @ \cup more]

(* http.Error: a header and a body.                                        *)
HTTPError(r, code) ==
    /\ WriteHeader(r, code)
    /\ AddBytes(r, {Bytes("client", "write", state[r].streaming)})

(* StreamStarted, and the function it returns as onClose.                  *)
StreamStarted(r, proto) ==
    /\ streamsActive' = [streamsActive EXCEPT ![NormalizeProto(proto)] = @ + 1]
    /\ onClose' = [onClose EXCEPT ![r] = TRUE]
    /\ UNCHANGED streamEnds

(* Mutant: the callback stays set after it has run.                        *)
MutantCallOnCloseKeepsIt(r, outcome) ==
    IF onClose[r]
      THEN /\ streamsActive' = [streamsActive EXCEPT ![NormalizeProto(response[r].proto)] = @ - 1]
           /\ streamEnds' = [streamEnds EXCEPT ![r] = Append(@, outcome)]
           /\ UNCHANGED onClose
      ELSE UNCHANGED <<streamVars, onClose>>

CallOnClose(r, outcome) ==
    IF onClose[r]
      THEN /\ streamsActive' = [streamsActive EXCEPT ![NormalizeProto(response[r].proto)] = @ - 1]
           /\ streamEnds' = [streamEnds EXCEPT ![r] = Append(@, outcome)]
           /\ onClose' = [onClose EXCEPT ![r] = FALSE]
      ELSE UNCHANGED <<streamVars, onClose>>

----------------------------------------------------------------------------
Init ==
    /\ request \in [Requests -> Inbound]
    /\ gone = {}
    /\ backend = [r \in Requests |-> "up"]
    /\ response = [r \in Requests |-> NoResponse]
    /\ answer = [r \in Requests |-> 0]
    /\ pc = [r \in Requests |-> "idle"]
    /\ state = [r \in Requests |-> NewRequestMetricState(request[r])]
    /\ statusCode = [r \in Requests |-> 0]
    /\ onClose = [r \in Requests |-> FALSE]
    /\ requests = [r \in Requests |-> << >>]
    /\ roundTrips = [r \in Requests |-> << >>]
    /\ streamsActive = [p \in Proto |-> 0]
    /\ streamEnds = [r \in Requests |-> << >>]
    /\ bytes = [r \in Requests |-> {}]

At(r, label) == pc[r] = label
Goto(r, label) == pc' = [pc EXCEPT ![r] = label]

Serving(r) == pc[r] \notin {"idle", "recorded"}

----------------------------------------------------------------------------
(* ServeHTTP                                                               *)

Reject(r) ==
    /\ At(r, "idle")
    /\ request[r].info = "rejected"
    /\ HTTPError(r, Unauthorized)
    /\ Goto(r, "deferred")
    /\ UNCHANGED <<request, gone, backend, response, state, onClose, requests,
                   roundTrips, streamVars>>

(* A request that cannot be resolved goes through without SetRequestInfo.  *)
Dispatch(r) ==
    LET info == request[r].info
        audited == info = "create"
    IN /\ At(r, "idle")
       /\ info # "rejected"
       /\ state' = [state EXCEPT ![r] =
                      IF info = "unresolved" THEN @ ELSE SetRequestInfo(@, info, audited)]
       /\ Goto(r, IF audited THEN "audited" ELSE "passthrough")
       /\ UNCHANGED <<worldVars, statusCode, onClose, requests, roundTrips, streamVars, bytes>>

(* The wrapped request body is read: by spoolBody, or by the transport,    *)
(* which may go on while the answer is already being copied.               *)
ReadRequestBody(r) ==
    /\ pc[r] \in {"audited", "passthrough", "copying"}
    /\ AddBytes(r, {Bytes("client", "read", state[r].streaming)})
    /\ UNCHANGED <<worldVars, handlerVars, requests, roundTrips, streamVars>>

(* The deferred RecordRequest, which a panic runs as well.                 *)
RecordRequest(r) ==
    /\ At(r, "deferred")
    /\ requests' = [requests EXCEPT ![r] = Append(@, RequestLabels(state[r], statusCode[r]))]
    /\ Goto(r, "recorded")
    /\ UNCHANGED <<worldVars, state, statusCode, onClose, roundTrips, streamVars, bytes>>

----------------------------------------------------------------------------
(* The passthrough path                                                    *)

(* The ReverseProxy relays an informational answer during the round trip.  *)
Informational(r) ==
    /\ At(r, "passthrough")
    /\ WriteHeader(r, EarlyHints)
    /\ UNCHANGED <<request, gone, backend, response, pc, state, onClose, requests,
                   roundTrips, streamVars, bytes>>

(* ErrorHandler, and the same lines of serveAudited.                       *)
RoundTripFails(r) ==
    /\ pc[r] \in {"passthrough", "sent"}
    /\ r \in gone \/ backend[r] = "broken"
    /\ RecordBackendRoundTrip(r, state[r], "error")
    /\ HTTPError(r, BadGateway)
    /\ Goto(r, "deferred")
    /\ UNCHANGED <<request, gone, backend, response, onClose, requests, streamVars>>

Streaming(r, resp) == resp.stream \/ state[r].streaming

(* Mutant: only the answer's type makes a stream, not the request.         *)
MutantPassthroughByTypeOnly(r, resp) ==
    /\ At(r, "passthrough")
    /\ backend[r] = "up"
    /\ resp.status # SwitchingProtocols
    /\ response' = [response EXCEPT ![r] = resp]
    /\ RecordBackendRoundTrip(r, SetBackend(state[r], resp.proto, resp.stream), "ok")
    /\ IF resp.stream THEN StreamStarted(r, resp.proto) ELSE UNCHANGED <<streamVars, onClose>>
    /\ WriteHeader(r, resp.status)
    /\ Goto(r, "copying")
    /\ UNCHANGED <<request, gone, backend, requests, bytes>>

(* ModifyResponse: observePassthroughResponse, then the header is written. *)
PassthroughResponse(r, resp) ==
    /\ At(r, "passthrough")
    /\ backend[r] = "up"
    /\ resp.status # SwitchingProtocols
    /\ response' = [response EXCEPT ![r] = resp]
    /\ RecordBackendRoundTrip(r, SetBackend(state[r], resp.proto, Streaming(r, resp)), "ok")
    /\ IF Streaming(r, resp) THEN StreamStarted(r, resp.proto)
                             ELSE UNCHANGED <<streamVars, onClose>>
    /\ WriteHeader(r, resp.status)
    /\ Goto(r, "copying")
    /\ UNCHANGED <<request, gone, backend, requests, bytes>>

(* Mutant: the backend leg is labelled by the answer's type.               *)
MutantCopyChunkByType(r) ==
    /\ At(r, "copying")
    /\ backend[r] = "up"
    /\ AddBytes(r, {Bytes("backend", "read", response[r].stream),
                    Bytes("client", "write", state[r].streaming)})
    /\ UNCHANGED <<worldVars, handlerVars, requests, roundTrips, streamVars>>

(* The copy loop hands on what it has read.                                *)
CopyChunk(r) ==
    /\ At(r, "copying")
    /\ backend[r] = "up"
    /\ AddBytes(r, {Bytes("backend", "read", state[r].streaming),
                    Bytes("client", "write", state[r].streaming)})
    /\ UNCHANGED <<worldVars, handlerVars, requests, roundTrips, streamVars>>

(* observedReadCloser.Read at the end of the body.                         *)
ReadEnds(r) ==
    /\ At(r, "copying")
    /\ backend[r] = "ended"
    /\ CallOnClose(r, "backend_close")
    /\ Goto(r, "closing")
    /\ UNCHANGED <<worldVars, state, statusCode, requests, roundTrips, bytes>>

(* Read with another error: the backend broke off, or the client's context *)
(* was cancelled under the read.                                           *)
ReadFails(r) ==
    /\ At(r, "copying")
    /\ r \in gone \/ backend[r] = "broken"
    /\ CallOnClose(r, "read_error")
    /\ Goto(r, "closing")
    /\ UNCHANGED <<worldVars, state, statusCode, requests, roundTrips, bytes>>

(* The read went well, the write to the client did not.                    *)
WriteFails(r) ==
    /\ At(r, "copying")
    /\ r \in gone
    /\ backend[r] = "up"
    /\ AddBytes(r, {Bytes("backend", "read", state[r].streaming)})
    /\ Goto(r, "cut")
    /\ UNCHANGED <<worldVars, state, statusCode, onClose, requests, roundTrips, streamVars>>

(* Mutant: Close leaves the stream to Read.                                *)
MutantCloseBodySilently(r) ==
    /\ pc[r] \in {"closing", "cut"}
    /\ Goto(r, "deferred")
    /\ UNCHANGED <<worldVars, state, statusCode, onClose, requests, roundTrips, streamVars, bytes>>

(* observedReadCloser.Close, after which the proxy returns or panics.      *)
CloseBody(r) ==
    /\ pc[r] \in {"closing", "cut"}
    /\ CallOnClose(r, "client_cancel")
    /\ Goto(r, "deferred")
    /\ UNCHANGED <<worldVars, state, statusCode, requests, roundTrips, bytes>>

(* A 101: the body is not wrapped and no header goes through the writer.   *)
SwitchProtocols(r, resp) ==
    /\ At(r, "passthrough")
    /\ backend[r] = "up"
    /\ resp.status = SwitchingProtocols
    /\ response' = [response EXCEPT ![r] = resp]
    /\ RecordBackendRoundTrip(r, SetBackend(state[r], resp.proto, Streaming(r, resp)), "ok")
    /\ Goto(r, "upgrading")
    /\ UNCHANGED <<request, gone, backend, answer, statusCode, onClose, requests,
                   streamVars, bytes>>

(* The proxy hijacks the connection and answers on it.                     *)
Upgraded(r) ==
    /\ At(r, "upgrading")
    /\ answer' = [answer EXCEPT ![r] = SwitchingProtocols]
    /\ Goto(r, "upgraded")
    /\ UNCHANGED <<request, gone, backend, response, state, statusCode, onClose, requests,
                   roundTrips, streamVars, bytes>>

(* It could not hijack it: ErrorHandler, after ModifyResponse.              *)
UpgradeFails(r) ==
    /\ At(r, "upgrading")
    /\ RecordBackendRoundTrip(r, state[r], "error")
    /\ HTTPError(r, BadGateway)
    /\ Goto(r, "deferred")
    /\ UNCHANGED <<request, gone, backend, response, onClose, requests, streamVars>>

(* It took the connection over, and the client was gone: ErrorHandler's    *)
(* 502 is noted and goes nowhere.                                          *)
UpgradeReplyFails(r) ==
    /\ At(r, "upgrading")
    /\ r \in gone
    /\ RecordBackendRoundTrip(r, state[r], "error")
    /\ statusCode' = [statusCode EXCEPT ![r] = IF @ = 0 THEN BadGateway ELSE @]
    /\ Goto(r, "deferred")
    /\ UNCHANGED <<worldVars, onClose, requests, streamVars, bytes>>

UpgradeEnds(r) ==
    /\ At(r, "upgraded")
    /\ r \in gone \/ backend[r] # "up"
    /\ Goto(r, "deferred")
    /\ UNCHANGED <<worldVars, state, statusCode, onClose, requests, roundTrips, streamVars, bytes>>

----------------------------------------------------------------------------
(* The audited path (AuditProxy has its steps)                             *)

SpoolFails(r) ==
    /\ At(r, "audited")
    /\ \E code \in {BadRequest, BadGateway} : HTTPError(r, code)
    /\ Goto(r, "deferred")
    /\ UNCHANGED <<request, gone, backend, response, state, onClose, requests,
                   roundTrips, streamVars>>

SendUpstream(r) ==
    /\ At(r, "audited")
    /\ \E body \in BOOLEAN :
          AddBytes(r, IF body THEN {Bytes("backend", "write", FALSE)} ELSE {})
    /\ Goto(r, "sent")
    /\ UNCHANGED <<worldVars, state, statusCode, onClose, requests, roundTrips, streamVars>>

(* observeAuditedBackendResponse; a request sent without Upgrade gets no   *)
(* 101.                                                                    *)
AuditedResponse(r, resp) ==
    /\ At(r, "sent")
    /\ backend[r] = "up"
    /\ resp.status # SwitchingProtocols
    /\ response' = [response EXCEPT ![r] = resp]
    /\ RecordBackendRoundTrip(r, SetBackend(state[r], resp.proto, FALSE), "ok")
    /\ Goto(r, "replying")
    /\ UNCHANGED <<request, gone, backend, answer, statusCode, onClose, requests,
                   streamVars, bytes>>

AuditedReply(r) ==
    /\ At(r, "replying")
    /\ WriteHeader(r, response[r].status)
    /\ \E body \in BOOLEAN :
          AddBytes(r, IF body THEN {Bytes("backend", "read", FALSE),
                                    Bytes("client", "write", state[r].streaming)} ELSE {})
    /\ Goto(r, "deferred")
    /\ UNCHANGED <<request, gone, backend, response, state, onClose, requests,
                   roundTrips, streamVars>>

(* The response cannot be read, or its copy not reopened.                  *)
AuditedReplyFails(r) ==
    /\ At(r, "replying")
    /\ HTTPError(r, BadGateway)
    /\ Goto(r, "deferred")
    /\ UNCHANGED <<request, gone, backend, response, state, onClose, requests,
                   roundTrips, streamVars>>

----------------------------------------------------------------------------
(* The client and the backend                                              *)

ClientLeaves(r) ==
    /\ Serving(r)
    /\ r \notin gone
    /\ gone' = gone \cup {r}
    /\ UNCHANGED <<request, backend, response, answer, handlerVars, requests, roundTrips,
                   streamVars, bytes>>

BackendStops(r, how) ==
    /\ backend[r] = "up"
    /\ pc[r] \in IF how = "ended" THEN {"copying", "upgraded"}
                                  ELSE {"passthrough", "sent", "copying", "upgraded"}
    /\ backend' = [backend EXCEPT ![r] = how]
    /\ UNCHANGED <<request, gone, response, answer, handlerVars, requests, roundTrips,
                   streamVars, bytes>>

----------------------------------------------------------------------------
(* The handler's own steps: those that wait for neither backend nor client *)
(* once the client has left.                                               *)
Handler(r) ==
    \/ RoundTripFails(r)
    \/ ReadEnds(r)
    \/ ReadFails(r)
    \/ WriteFails(r)
    \/ CloseBody(r)
    \/ Upgraded(r)
    \/ UpgradeFails(r)
    \/ UpgradeReplyFails(r)
    \/ UpgradeEnds(r)
    \/ SpoolFails(r)
    \/ SendUpstream(r)
    \/ AuditedReply(r)
    \/ AuditedReplyFails(r)
    \/ RecordRequest(r)

Next ==
    \E r \in Requests :
        \/ Reject(r)
        \/ Dispatch(r)
        \/ ReadRequestBody(r)
        \/ Informational(r)
        \/ \E resp \in Responses :
             PassthroughResponse(r, resp) \/ SwitchProtocols(r, resp) \/ AuditedResponse(r, resp)
        \/ CopyChunk(r)
        \/ ClientLeaves(r)
        \/ \E how \in {"ended", "broken"} : BackendStops(r, how)
        \/ Handler(r)

Spec == Init /\ [][Next]_vars

(* A client that has left cancels the request's context: every read and    *)
(* every write of the handler returns.  Of a client that stays and does    *)
(* not read nothing is assumed, for the server sets no WriteTimeout.       *)
Fairness == \A r \in Requests : WF_vars(r \in gone /\ Handler(r))

FairSpec == Spec /\ Fairness

----------------------------------------------------------------------------
(* Properties                                                              *)

Verb == {"get", "post", "list", "watch", "create"}

MetricState ==
    [verb : Verb, audited : BOOLEAN, streaming : BOOLEAN,
     backendProto : {"unknown", "HTTP/1.1", "HTTP/2.0"}, backendObserved : BOOLEAN]

RequestSample ==
    [verb : Verb, audited : BOOLEAN, streaming : BOOLEAN, statusClass : Nat,
     outcome : {"ok", "error", "unknown"}, backendProto : Proto \cup {"unknown", "other"}]

RoundTripSample ==
    [verb : Verb, streaming : BOOLEAN, outcome : {"ok", "error"},
     backendProto : Proto \cup {"unknown", "other"}]

TypeOK ==
    /\ request \in [Requests -> Inbound]
    /\ gone \subseteq Requests
    /\ backend \in [Requests -> {"up", "ended", "broken"}]
    /\ response \in [Requests -> Responses \cup {NoResponse}]
    /\ answer \in [Requests -> Nat]
    /\ pc \in [Requests -> {"idle", "passthrough", "copying", "closing", "cut", "upgrading",
                            "upgraded", "audited", "sent", "replying", "deferred", "recorded"}]
    /\ state \in [Requests -> MetricState]
    /\ statusCode \in [Requests -> Nat]
    /\ onClose \in [Requests -> BOOLEAN]
    /\ requests \in [Requests -> Seq(RequestSample)]
    /\ roundTrips \in [Requests -> Seq(RoundTripSample)]
    /\ streamsActive \in [Proto -> Int]
    /\ streamEnds \in [Requests -> Seq({"backend_close", "read_error", "client_cancel"})]
    /\ bytes \in [Requests -> SUBSET [leg : {"client", "backend"}, direction : {"read", "write"},
                                      streaming : BOOLEAN]]

Recorded(r) == At(r, "recorded")
Answered(r) == response[r] # NoResponse
Audited(r) == request[r].info = "create"

(* What docs/ARCHITECTURE.md calls semantic: the URL says watch=true, the  *)
(* request is a watch, or the answer that is passed through has the marker *)
(* of one; never the way the body is framed.                               *)
Semantic(r) ==
    \/ request[r].watch
    \/ request[r].info = "watch"
    \/ response[r].stream /\ ~Audited(r)

(* An answer whose body is relayed as a stream.                            *)
Stream(r) ==
    /\ Answered(r)
    /\ response[r].status # SwitchingProtocols
    /\ ~Audited(r)
    /\ Semantic(r)

(* The stream is open until a read ends it or, after a failed write, until *)
(* the body is closed.                                                     *)
OpenAs(r) ==
    IF Stream(r) /\ pc[r] \in {"copying", "cut"}
      THEN NormalizeProto(response[r].proto) ELSE "none"

Gauge == INSTANCE ActiveGauge WITH
    Members <- Requests, Labels <- Proto,
    at <- [r \in Requests |-> OpenAs(r)], gauge <- streamsActive

(* streams_active counts the open streams, no more and no fewer, under the *)
(* label each was opened with: read errors, ends, failed writes and Close  *)
(* take a stream out once, whichever of them come and in whatever order.   *)
StreamsCounted == Gauge!Spec

(* Every stream leaves one sample of stream_duration_seconds, no other     *)
(* request leaves one, and the outcome names something that happened.      *)
StreamsEndOnce ==
    \A r \in Requests :
        /\ Len(streamEnds[r]) <= 1
        /\ Recorded(r) => (Len(streamEnds[r]) = 1 <=> Stream(r))
        /\ \A i \in DOMAIN streamEnds[r] :
             /\ streamEnds[r][i] = "backend_close" => backend[r] = "ended"
             /\ streamEnds[r][i] = "read_error"    => r \in gone \/ backend[r] = "broken"
             /\ streamEnds[r][i] = "client_cancel" => r \in gone

(* A request that has ended, by an answer, an error, an upgrade or a panic *)
(* of the copy, is in requests_total once; its streaming and audited       *)
(* labels are those of the request.  What counts as an error is one, or    *)
(* could not be told to a client that had left; what was answered as an    *)
(* error counts as one, unless an informational answer came first, whose   *)
(* code the writer keeps.                                                  *)
RequestsRecordedOnce ==
    \A r \in Requests :
        /\ Len(requests[r]) = IF Recorded(r) THEN 1 ELSE 0
        /\ Recorded(r) =>
             /\ requests[r][1].streaming = Semantic(r)
             /\ requests[r][1].audited = Audited(r)
             /\ requests[r][1].outcome = "error" => answer[r] >= 500 \/ r \in gone
             /\ answer[r] >= 500 => requests[r][1].outcome = "error" \/ statusCode[r] = EarlyHints
             /\ requests[r][1].outcome = "unknown" => answer[r] = SwitchingProtocols

(* At most one sample of backend_roundtrip_seconds, and "ok" only when the *)
(* header of an answer arrived, even if an upgrade then fails; it agrees   *)
(* with the request's own sample on every label they share.                *)
RoundTripTruthful ==
    \A r \in Requests :
        /\ Len(roundTrips[r]) <= 1
        /\ Recorded(r) /\ Answered(r) => Len(roundTrips[r]) = 1
        /\ \A i \in DOMAIN roundTrips[r] :
             LET sample == roundTrips[r][i]
             IN /\ sample.outcome = (IF Answered(r) THEN "ok" ELSE "error")
                /\ sample.backendProto \in Proto <=> Answered(r)
                /\ Recorded(r) =>
                     /\ sample.verb = requests[r][1].verb
                     /\ sample.streaming = requests[r][1].streaming
                     /\ sample.backendProto = requests[r][1].backendProto

(* The bytes of an answer carry the streaming label of their request on    *)
(* both legs, though it is known only when the answer comes; an audited    *)
(* answer is spooled, so its backend leg is never labelled as a stream.    *)
AnswerBytesLabelled ==
    \A r \in Requests : Recorded(r) =>
        \A b \in bytes[r] :
            /\ b.leg = "client" /\ b.direction = "write" =>
                 b.streaming = requests[r][1].streaming
            /\ b.leg = "backend" /\ b.direction = "read" =>
                 b.streaming = (requests[r][1].streaming /\ ~Audited(r))

(* Once its client has left, a request is recorded and holds no place in   *)
(* streams_active, whatever the backend does: a watch that is idle ends.   *)
StreamsDrain ==
    \A r \in Requests : Serving(r) /\ r \in gone ~> Recorded(r) /\ ~onClose[r]

=============================================================================
