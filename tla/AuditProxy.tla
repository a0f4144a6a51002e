----------------------------- MODULE AuditProxy -----------------------------
(***************************************************************************)
(* The request pipeline of the proxy: Handler.ServeHTTP and serveAudited   *)
(* (pkg/proxy/handler.go), the audit goroutine each audited response       *)
(* spawns, the backend and the webhook receiver as the proxy uses them,    *)
(* and the life of the process (cmd/server/main.go).                       *)
(*                                                                         *)
(* Every request runs on a goroutine of its own, and its audit goroutine   *)
(* outlives it.  Client, backend, receiver and signals move at any moment. *)
(* Bodies are abstracted away here (BodySpool has them), and so is what    *)
(* Build makes of them (AuditBuilder): an event is the request it is about *)
(* and the HTTP status it was built from.                                  *)
(***************************************************************************)
EXTENDS Integers, FiniteSets

CONSTANTS
    Requests,          \* the requests that may arrive
    Inbound,           \* what a request may be: [identity, info]
    BackendStatus,     \* the status codes the backend may answer with
    RequiresVerified   \* Extractor.requiresVerifiedHeaders

ASSUME ProxyAssumption ==
    /\ Inbound \subseteq [identity : {"verified", "absent", "invalid"},
                          info : {"mutating", "other", "unresolved"}]
    /\ BackendStatus \subseteq Nat \ {0}
    /\ RequiresVerified \in BOOLEAN

(* A process has served finitely many requests at any moment of its life.  *)
ASSUME FiniteRequests == IsFiniteSet(Requests)

VARIABLES
    (* the handler's goroutine of each request *)
    inbound,           \* the request as it arrived
    pc,                \* where its handler is
    gone,              \* requests whose context is cancelled: the client left
    status,            \* response.StatusCode, 0 before RoundTrip returned
    sent,              \* who answered the client, and with which status
    files,             \* temporary files on disk: <<request, side>>
    cleanups,          \* files whose Cleanup is deferred by their handler
    removeFailed,      \* files an os.Remove failed on
    (* the audit goroutine of each request *)
    audit,             \* where it is
    event,             \* the statusCode its event was built from, 0 before
    (* the world outside *)
    backend,           \* the request at the backend: unsent, inFlight, lost, answered
    reply,             \* the status the backend answered with, 0 before
    post,              \* the webhook POST: unsent, inFlight, accepted, refused
    (* the process *)
    auditEvents,       \* the counter audit_events_total by result
    milestones,        \* the sync.Once milestones that have been logged
    process,           \* running, exited (main returned), crashed
    shutdown           \* none, signalled, closing, drained, timedOut

handlerVars == <<inbound, pc, gone, status, sent>>
fileVars == <<files, cleanups, removeFailed>>
auditVars == <<audit, event, auditEvents>>
backendVars == <<backend, reply>>
processVars == <<process, shutdown>>
vars == <<handlerVars, fileVars, auditVars, backendVars, post, milestones, processVars>>

Side == {"request", "response"}

BadRequest == 400
Unauthorized == 401
BadGateway == 502

Running == process = "running"

(* The listener is closed by server.Shutdown.                              *)
Accepting == Running /\ shutdown \in {"none", "signalled"}

InHandler(r) == pc[r] \notin {"idle", "returned"}

----------------------------------------------------------------------------
(* Steps shared by the handlers                                            *)

Goto(r, label) == pc' = [pc EXCEPT ![r] = label]

AnswerClient(r, who, code) ==
    sent' = [sent EXCEPT ![r] = [by |-> who, status |-> code]]

(* http.Error and a return, which runs the deferred functions.             *)
HTTPError(r, code) ==
    /\ AnswerClient(r, "proxy", code)
    /\ Goto(r, "deferred")

(* A milestone is a sync.Once: the first one logs, later ones are silent.  *)
Milestone(names) == milestones' = milestones \cup names

(* os.Remove of some files: whichever fail stay on disk.                   *)
RemoveFiles(own) ==
    \E failed \in SUBSET own :
        /\ files' = (files \ own) \cup failed
        /\ removeFailed' = removeFailed \cup failed

Deferred(r) == { f \in cleanups : f[1] = r }

----------------------------------------------------------------------------
Init ==
    /\ inbound \in [Requests -> Inbound]
    /\ pc = [r \in Requests |-> "idle"]
    /\ gone = {}
    /\ status = [r \in Requests |-> 0]
    /\ sent = [r \in Requests |-> [by |-> "nobody", status |-> 0]]
    /\ files = {}
    /\ cleanups = {}
    /\ removeFailed = {}
    /\ audit = [r \in Requests |-> "none"]
    /\ event = [r \in Requests |-> 0]
    /\ backend = [r \in Requests |-> "unsent"]
    /\ reply = [r \in Requests |-> 0]
    /\ post = [r \in Requests |-> "unsent"]
    /\ auditEvents = [built |-> 0, sent |-> 0, send_error |-> 0]
    /\ milestones = {}
    /\ process = "running"
    /\ shutdown = "none"

----------------------------------------------------------------------------
(* ServeHTTP: identity, request info, dispatch                             *)

(* h.identity.FromRequest and the RequiresVerifiedHeaders gate.            *)
IdentityAccepted(r) ==
    /\ inbound[r].identity # "invalid"
    /\ RequiresVerified => inbound[r].identity = "verified"

(* shouldAudit on a resolved request info.                                 *)
ShouldAudit(r) == inbound[r].info = "mutating"

Reject(r) ==
    /\ Accepting
    /\ pc[r] = "idle"
    /\ ~IdentityAccepted(r)
    /\ HTTPError(r, Unauthorized)
    /\ Milestone({"firstRequest"})
    /\ UNCHANGED <<inbound, gone, status, fileVars, auditVars, backendVars, post, processVars>>

ServePassthrough(r) ==
    /\ Accepting
    /\ pc[r] = "idle"
    /\ IdentityAccepted(r)
    /\ ~ShouldAudit(r)
    /\ Goto(r, "passthrough")
    /\ backend' = [backend EXCEPT ![r] = "inFlight"]
    /\ Milestone({"firstRequest", "firstVerifiedRequest"})
    /\ UNCHANGED <<inbound, gone, status, sent, fileVars, auditVars, reply, post, processVars>>

ServeAudited(r) ==
    /\ Accepting
    /\ pc[r] = "idle"
    /\ IdentityAccepted(r)
    /\ ShouldAudit(r)
    /\ Goto(r, "createRequest")
    /\ Milestone({"firstRequest", "firstVerifiedRequest"})
    /\ UNCHANGED <<inbound, gone, status, sent, fileVars, auditVars, backendVars, post,
                   processVars>>

----------------------------------------------------------------------------
(* The passthrough ReverseProxy: streams, never audits                     *)

PassthroughResponse(r) ==
    /\ Running
    /\ pc[r] = "passthrough"
    /\ backend[r] = "answered"
    /\ status' = [status EXCEPT ![r] = reply[r]]
    /\ AnswerClient(r, "backend", reply[r])
    /\ Goto(r, "streaming")
    /\ Milestone({"firstBackendOK"})
    /\ UNCHANGED <<inbound, gone, fileVars, auditVars, backendVars, post, processVars>>

(* ErrorHandler: the transport failed or the request was cancelled.        *)
PassthroughFails(r) ==
    /\ Running
    /\ pc[r] = "passthrough"
    /\ HTTPError(r, BadGateway)
    /\ UNCHANGED <<inbound, gone, status, fileVars, auditVars, backendVars, post, milestones,
                   processVars>>

(* The stream ends: backend EOF, read error, or the client went away.      *)
StreamEnds(r) ==
    /\ Running
    /\ pc[r] = "streaming"
    /\ Goto(r, "deferred")
    /\ UNCHANGED <<inbound, gone, status, sent, fileVars, auditVars, backendVars, post,
                   milestones, processVars>>

----------------------------------------------------------------------------
(* serveAudited: spool request, round trip, spool response, answer, spawn  *)

CreateAt == [request |-> "createRequest", response |-> "createResponse"]
CopyAt == [request |-> "copyRequest", response |-> "copyResponse"]
OpenAt == [request |-> "openRequest", response |-> "openResponse"]
SpoolErrorCode == [request |-> BadRequest, response |-> BadGateway]

CreateTemp(r, side) ==
    /\ Running
    /\ pc[r] = CreateAt[side]
    /\ files' = files \cup {<<r, side>>}
    /\ Goto(r, CopyAt[side])
    /\ UNCHANGED <<inbound, gone, status, sent, cleanups, removeFailed, auditVars, backendVars,
                   post, milestones, processVars>>

CreateTempFails(r, side) ==
    /\ Running
    /\ pc[r] = CreateAt[side]
    /\ HTTPError(r, SpoolErrorCode[side])
    /\ UNCHANGED <<inbound, gone, status, fileVars, auditVars, backendVars, post, milestones,
                   processVars>>

SpoolBody(r, side) ==
    /\ Running
    /\ pc[r] = CopyAt[side]
    /\ Goto(r, OpenAt[side])
    /\ cleanups' = cleanups \cup {<<r, side>>}
    /\ UNCHANGED <<inbound, gone, status, sent, files, removeFailed, auditVars, backendVars,
                   post, milestones, processVars>>

(* Mutant: spoolBody's error path leaves its file.                         *)
MutantSpoolFailsKeepsFile(r, side) ==
    /\ Running
    /\ pc[r] = CopyAt[side]
    /\ HTTPError(r, SpoolErrorCode[side])
    /\ UNCHANGED <<inbound, gone, status, fileVars, auditVars, backendVars, post, milestones,
                   processVars>>

(* Mutant: no return after http.Error.                                     *)
MutantSpoolFailsGoesOn(r, side) ==
    /\ Running
    /\ pc[r] = CopyAt[side]
    /\ RemoveFiles({<<r, side>>})
    /\ AnswerClient(r, "proxy", SpoolErrorCode[side])
    /\ Goto(r, OpenAt[side])
    /\ UNCHANGED <<inbound, gone, status, cleanups, auditVars, backendVars, post, milestones,
                   processVars>>

(* A read, write or close error: spoolBody removes its own file.           *)
SpoolBodyFails(r, side) ==
    /\ Running
    /\ pc[r] = CopyAt[side]
    /\ RemoveFiles({<<r, side>>})
    /\ HTTPError(r, SpoolErrorCode[side])
    /\ UNCHANGED <<inbound, gone, status, cleanups, auditVars, backendVars, post, milestones, processVars>>

(* Mutant: a response that cannot be reopened is still audited.            *)
MutantOpenFailsStillAudits(r, side) ==
    /\ Running
    /\ pc[r] = OpenAt[side]
    /\ AnswerClient(r, "proxy", BadGateway)
    /\ Goto(r, IF side = "request" THEN "deferred" ELSE "writing")
    /\ UNCHANGED <<inbound, gone, status, fileVars, auditVars, backendVars, post, milestones,
                   processVars>>

OpenFails(r, side) ==
    /\ Running
    /\ pc[r] = OpenAt[side]
    /\ HTTPError(r, BadGateway)
    /\ UNCHANGED <<inbound, gone, status, fileVars, auditVars, backendVars, post, milestones,
                   processVars>>

(* requestBody.Open, buildUpstreamRequest, and the call of RoundTrip.      *)
SendUpstream(r) ==
    /\ Running
    /\ pc[r] = "openRequest"
    /\ Goto(r, "roundTrip")
    /\ backend' = [backend EXCEPT ![r] = "inFlight"]
    /\ UNCHANGED <<inbound, gone, status, sent, fileVars, auditVars, reply, post, milestones,
                   processVars>>

RoundTripReturns(r) ==
    /\ Running
    /\ pc[r] = "roundTrip"
    /\ backend[r] = "answered"
    /\ status' = [status EXCEPT ![r] = reply[r]]
    /\ Goto(r, "createResponse")
    /\ Milestone({"firstBackendOK"})
    /\ UNCHANGED <<inbound, gone, sent, fileVars, auditVars, backendVars, post, processVars>>

(* Mutant: the backend milestone is logged before the error is checked.    *)
MutantMilestoneBeforeCheck(r) ==
    /\ Running
    /\ pc[r] = "roundTrip"
    /\ HTTPError(r, BadGateway)
    /\ Milestone({"firstBackendOK"})
    /\ UNCHANGED <<inbound, gone, status, fileVars, auditVars, backendVars, post, processVars>>

(* Mutant: a failed round trip is audited too.                             *)
MutantAuditFailedRoundTrip(r) ==
    /\ Running
    /\ pc[r] = "roundTrip"
    /\ HTTPError(r, BadGateway)
    /\ audit' = [audit EXCEPT ![r] = "spawned"]
    /\ UNCHANGED <<inbound, gone, status, fileVars, event, auditEvents, backendVars, post,
                   milestones, processVars>>

(* Mutant: the upstream request is not tied to the request's context.      *)
MutantRoundTripIgnoresContext(r) ==
    /\ Running
    /\ pc[r] = "roundTrip"
    /\ backend[r] = "lost"
    /\ HTTPError(r, BadGateway)
    /\ UNCHANGED <<inbound, gone, status, fileVars, auditVars, backendVars, post, milestones,
                   processVars>>

(* The connection failed, or the request's context was cancelled; what     *)
(* the backend does with the request is unaffected.                        *)
RoundTripFails(r) ==
    /\ Running
    /\ pc[r] = "roundTrip"
    /\ HTTPError(r, BadGateway)
    /\ UNCHANGED <<inbound, gone, status, fileVars, auditVars, backendVars, post, milestones,
                   processVars>>

(* responseBody.Open, copyHeaders, WriteHeader.                            *)
Respond(r) ==
    /\ Running
    /\ pc[r] = "openResponse"
    /\ AnswerClient(r, "backend", status[r])
    /\ Goto(r, "writing")
    /\ UNCHANGED <<inbound, gone, status, fileVars, auditVars, backendVars, post, milestones,
                   processVars>>

(* Mutant: a write error returns before the go statement.                  *)
MutantWriteErrorReturns(r) ==
    /\ Running
    /\ pc[r] = "writing"
    /\ Goto(r, "deferred")
    /\ audit' = [audit EXCEPT ![r] = IF r \in gone THEN "none" ELSE "spawned"]
    /\ UNCHANGED <<inbound, gone, status, sent, fileVars, event, auditEvents, backendVars, post,
                   milestones, processVars>>

(* io.Copy returned, a write error being only logged, and the go statement *)
(* started buildAndSendAuditEvent.                                         *)
SpawnAudit(r) ==
    /\ Running
    /\ pc[r] = "writing"
    /\ Goto(r, "deferred")
    /\ audit' = [audit EXCEPT ![r] = "spawned"]
    /\ UNCHANGED <<inbound, gone, status, sent, fileVars, event, auditEvents, backendVars, post,
                   milestones, processVars>>

(* The deferred Cleanups, and the handler is done.                         *)
Return(r) ==
    /\ Running
    /\ pc[r] = "deferred"
    /\ RemoveFiles(Deferred(r))
    /\ cleanups' = cleanups \ Deferred(r)
    /\ Goto(r, "returned")
    /\ UNCHANGED <<inbound, gone, status, sent, auditVars, backendVars, post, milestones,
                   processVars>>

----------------------------------------------------------------------------
(* buildAndSendAuditEvent and sendBestEffort, detached from the request    *)

CountEvent(outcome) == auditEvents' = [auditEvents EXCEPT ![outcome] = @ + 1]

(* Build cannot fail on a request that came this far.                      *)
BuildEvent(r) ==
    /\ Running
    /\ audit[r] = "spawned"
    /\ event' = [event EXCEPT ![r] = status[r]]
    /\ CountEvent("built")
    /\ audit' = [audit EXCEPT ![r] = "posting"]
    /\ post' = [post EXCEPT ![r] = "inFlight"]
    /\ UNCHANGED <<handlerVars, fileVars, backendVars, milestones, processVars>>

(* Mutant: Send does not look at the status code.                          *)
MutantSendIgnoresStatus(r) ==
    /\ Running
    /\ audit[r] = "posting"
    /\ post[r] \in {"accepted", "refused"}
    /\ CountEvent("sent")
    /\ audit' = [audit EXCEPT ![r] = "sent"]
    /\ Milestone({"firstWebhookOK"})
    /\ UNCHANGED <<handlerVars, fileVars, event, backendVars, post, processVars>>

(* Mutant: Send has no deadline.                                           *)
MutantSendWaitsForever(r) ==
    /\ Running
    /\ audit[r] = "posting"
    /\ post[r] = "refused"
    /\ CountEvent("send_error")
    /\ audit' = [audit EXCEPT ![r] = "send_error"]
    /\ UNCHANGED <<handlerVars, fileVars, event, backendVars, post, milestones, processVars>>

(* A 2xx answer reached Send.                                              *)
SendSucceeds(r) ==
    /\ Running
    /\ audit[r] = "posting"
    /\ post[r] = "accepted"
    /\ CountEvent("sent")
    /\ audit' = [audit EXCEPT ![r] = "sent"]
    /\ Milestone({"firstWebhookOK"})
    /\ UNCHANGED <<handlerVars, fileVars, event, backendVars, post, processVars>>

(* Another answer, a connection error, or the asyncSendTimeout: whichever  *)
(* it is, the POST may have been or may still be accepted.                 *)
SendFails(r) ==
    /\ Running
    /\ audit[r] = "posting"
    /\ CountEvent("send_error")
    /\ audit' = [audit EXCEPT ![r] = "send_error"]
    /\ UNCHANGED <<handlerVars, fileVars, event, backendVars, post, milestones, processVars>>

----------------------------------------------------------------------------
(* Outside: client, backend, receiver.  What is on the wire is handled     *)
(* even after the proxy gave up on it, or is gone itself.                  *)

ClientCancels(r) ==
    /\ InHandler(r)
    /\ r \notin gone
    /\ gone' = gone \cup {r}
    /\ UNCHANGED <<inbound, pc, status, sent, fileVars, auditVars, backendVars, post, milestones,
                   processVars>>

BackendAnswers(r) ==
    /\ backend[r] = "inFlight"
    /\ backend' = [backend EXCEPT ![r] = "answered"]
    /\ \E code \in BackendStatus : reply' = [reply EXCEPT ![r] = code]
    /\ UNCHANGED <<handlerVars, fileVars, auditVars, post, milestones, processVars>>

BackendUnreachable(r) ==
    /\ backend[r] = "inFlight"
    /\ backend' = [backend EXCEPT ![r] = "lost"]
    /\ UNCHANGED <<handlerVars, fileVars, auditVars, reply, post, milestones, processVars>>

ReceiverAnswers(r) ==
    /\ post[r] = "inFlight"
    /\ \E outcome \in {"accepted", "refused"} : post' = [post EXCEPT ![r] = outcome]
    /\ UNCHANGED <<handlerVars, fileVars, auditVars, backendVars, milestones, processVars>>

----------------------------------------------------------------------------
(* main: signal, shutdown goroutine, return; or the process is killed      *)

Signal ==
    /\ Running
    /\ shutdown = "none"
    /\ shutdown' = "signalled"
    /\ UNCHANGED <<handlerVars, fileVars, auditVars, backendVars, post, milestones, process>>

(* server.Shutdown closes the listeners, which makes serve return.         *)
BeginShutdown ==
    /\ Running
    /\ shutdown = "signalled"
    /\ shutdown' = "closing"
    /\ UNCHANGED <<handlerVars, fileVars, auditVars, backendVars, post, milestones, process>>

ShutdownReturns ==
    /\ Running
    /\ shutdown = "closing"
    /\ \/ (\A r \in Requests : ~InHandler(r)) /\ shutdown' = "drained"
       \/ shutdown' = "timedOut"
    /\ UNCHANGED <<handlerVars, fileVars, auditVars, backendVars, post, milestones, process>>

(* serve returned ErrServerClosed, so main returns: it waits for nothing.  *)
MainReturns ==
    /\ Running
    /\ shutdown \in {"closing", "drained", "timedOut"}
    /\ process' = "exited"
    /\ UNCHANGED <<handlerVars, fileVars, auditVars, backendVars, post, milestones, shutdown>>

Crash ==
    /\ Running
    /\ process' = "crashed"
    /\ UNCHANGED <<handlerVars, fileVars, auditVars, backendVars, post, milestones, shutdown>>

----------------------------------------------------------------------------
HandlerStep(r) ==
    \/ Reject(r) \/ ServePassthrough(r) \/ ServeAudited(r)
    \/ PassthroughResponse(r) \/ PassthroughFails(r) \/ StreamEnds(r)
    \/ \E side \in Side : \/ CreateTemp(r, side) \/ CreateTempFails(r, side)
                          \/ SpoolBody(r, side) \/ SpoolBodyFails(r, side)
                          \/ OpenFails(r, side)
    \/ SendUpstream(r) \/ RoundTripReturns(r) \/ RoundTripFails(r)
    \/ Respond(r) \/ SpawnAudit(r) \/ Return(r)

AuditStep(r) == BuildEvent(r) \/ SendSucceeds(r) \/ SendFails(r)

OutsideStep(r) ==
    \/ ClientCancels(r)
    \/ BackendAnswers(r) \/ BackendUnreachable(r)
    \/ ReceiverAnswers(r)

ProcessStep == Signal \/ BeginShutdown \/ ShutdownReturns \/ MainReturns \/ Crash

Next ==
    \/ \E r \in Requests : HandlerStep(r) \/ AuditStep(r) \/ OutsideStep(r)
    \/ ProcessStep

Spec == Init /\ [][Next]_vars

----------------------------------------------------------------------------
(* Fairness                                                                *)

(* Steps that wait for nobody outside the process.                         *)
LocalStep(r) ==
    \/ \E side \in Side : CreateTemp(r, side) \/ CreateTempFails(r, side) \/ OpenFails(r, side)
    \/ SendUpstream(r)
    \/ Respond(r)
    \/ Return(r)

(* A cancelled request context ends every wait on client and backend:      *)
(* body reads and writes fail, and RoundTrip returns its error.            *)
AbortStep(r) ==
    /\ r \in gone
    /\ \/ \E side \in Side : SpoolBodyFails(r, side)
       \/ RoundTripFails(r)
       \/ SpawnAudit(r)
       \/ PassthroughFails(r)
       \/ StreamEnds(r)

(* Nothing is assumed of the client, the backend or the receiver: the      *)
(* runtime schedules goroutines, a cancelled context is noticed, and the   *)
(* send timeout expires.                                                   *)
Fairness ==
    \A r \in Requests :
        /\ WF_vars(LocalStep(r))
        /\ WF_vars(AbortStep(r))
        /\ WF_vars(AuditStep(r))

FairSpec == Spec /\ Fairness

----------------------------------------------------------------------------
(* Properties                                                              *)

TypeOK ==
    /\ inbound \in [Requests -> Inbound]
    /\ pc \in [Requests -> {"idle", "passthrough", "streaming", "createRequest", "copyRequest",
                            "openRequest", "roundTrip", "createResponse", "copyResponse",
                            "openResponse", "writing", "deferred", "returned"}]
    /\ gone \subseteq Requests
    /\ status \in [Requests -> BackendStatus \cup {0}]
    /\ sent \in [Requests -> [by : {"nobody", "proxy", "backend"},
                             status : BackendStatus \cup {0, BadRequest, Unauthorized, BadGateway}]]
    /\ files \subseteq Requests \X Side
    /\ cleanups \subseteq files
    /\ removeFailed \subseteq files
    /\ audit \in [Requests -> {"none", "spawned", "posting", "sent", "send_error"}]
    /\ event \in [Requests -> BackendStatus \cup {0}]
    /\ backend \in [Requests -> {"unsent", "inFlight", "lost", "answered"}]
    /\ reply \in [Requests -> BackendStatus \cup {0}]
    /\ post \in [Requests -> {"unsent", "inFlight", "accepted", "refused"}]
    /\ auditEvents \in [built : Nat, sent : Nat, send_error : Nat]
    /\ milestones \subseteq {"firstRequest", "firstVerifiedRequest", "firstBackendOK",
                             "firstWebhookOK"}
    /\ process \in {"running", "exited", "crashed"}
    /\ shutdown \in {"none", "signalled", "closing", "drained", "timedOut"}

(* An audit goroutine only ever exists for a mutating request with an      *)
(* accepted identity whose client was given exactly what the backend       *)
(* answered, and its event is built from that status: no event is emitted  *)
(* for a 4xx or 502 of the proxy's own, whatever failed on the way.        *)
EventTruthful ==
    \A r \in Requests : audit[r] # "none" =>
        /\ ShouldAudit(r)
        /\ RequiresVerified => inbound[r].identity = "verified"
        /\ backend[r] = "answered"
        /\ sent[r] = [by |-> "backend", status |-> reply[r]]
        /\ event[r] \in {0, reply[r]}

(* The other direction: a handler that relayed the backend's answer to a   *)
(* mutating request has spawned its audit goroutine before it returned,    *)
(* also when the client left in the middle of the answer.                  *)
RelayedIsAudited ==
    \A r \in Requests :
        (pc[r] = "returned" /\ ShouldAudit(r) /\ sent[r].by = "backend") => audit[r] # "none"

(* While the process runs, a temporary file belongs to a handler that is   *)
(* still running, or is one that os.Remove failed on.                      *)
TempFilesOwned ==
    Running => \A f \in files : InHandler(f[1]) \/ f \in removeFailed

(* The delivery counters account for every event built, and "sent" never   *)
(* exceeds what the receiver accepted; "send_error" may well count events  *)
(* the receiver has.                                                       *)
CountersTruthful ==
    /\ auditEvents.built = auditEvents.sent + auditEvents.send_error
                             + Cardinality({ r \in Requests : audit[r] = "posting" })
    /\ auditEvents.sent <= Cardinality({ r \in Requests : post[r] = "accepted" })

(* A milestone in the log is evidence: an operator who reads "first audit  *)
(* event delivered" can rely on one having arrived.                        *)
MilestonesTruthful ==
    /\ "firstVerifiedRequest" \in milestones /\ RequiresVerified =>
          \E r \in Requests : pc[r] # "idle" /\ inbound[r].identity = "verified"
    /\ "firstBackendOK" \in milestones => \E r \in Requests : backend[r] = "answered"
    /\ "firstWebhookOK" \in milestones => \E r \in Requests : post[r] = "accepted"

(* What the proxy reports of its deliveries is what happened.              *)
TelemetryTruthful == CountersTruthful /\ MilestonesTruthful

(* No client is answered twice: every error path of the handlers returns.  *)
AnsweredOnce ==
    [][\A r \in Requests : sent[r].by # "nobody" => sent'[r] = sent[r]]_vars

(* A client that leaves releases its handler, even if the backend never    *)
(* answers and nothing else ever happens: RoundTrip has no timeout, so the *)
(* request's context is the only thing that bounds it.                     *)
CancelReleasesHandler ==
    \A r \in Requests : r \in gone ~> (pc[r] = "returned" \/ ~Running)

(* Every audit goroutine ends, even if the receiver never answers.         *)
AuditSettles ==
    \A r \in Requests : audit[r] = "spawned" ~>
        (audit[r] \in {"sent", "send_error"} \/ ~Running)

(* The proxy implements the abstract audit trail: the receiver's entries   *)
(* are the accepted POSTs.                                                 *)
Trail == INSTANCE AuditTrail WITH
    mutating <- [r \in Requests |-> ShouldAudit(r)],
    answer <- sent,
    trail <- { [request |-> r, status |-> event[r]] : r \in { q \in Requests : post[q] = "accepted" } },
    alive <- Running

ImplementsTrail == Trail!Spec

----------------------------------------------------------------------------
(* Statements of the repository that the code does not keep                *)

(* cmd/server/main.go:195-198 gives server.Shutdown ten seconds to drain   *)
(* the handlers in progress: the process should not exit before they are   *)
(* done unless that time is over.                                          *)
ExitIsGraceful ==
    process = "exited" /\ shutdown # "timedOut" => \A r \in Requests : ~InHandler(r)

(* docs/ARCHITECTURE.md:230: "one ResponseComplete event per supported     *)
(* mutating request", asked only of requests whose backend response the    *)
(* handler itself has received.                                            *)
EveryMutationAudited ==
    \A r \in Requests :
        (pc[r] = "returned" /\ ShouldAudit(r) /\ status[r] # 0) => audit[r] # "none"
=============================================================================
