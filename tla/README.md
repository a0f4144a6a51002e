# A TLA+ model of apiservice-audit-proxy

`apiservice-audit-proxy` sits between kube-apiserver and an aggregated API
server. It forwards every request, and for each mutating resource request whose
answer it relayed it posts one audit event to a webhook, on a best-effort basis.
This directory models that program, model-checks it with TLC on small instances,
and proves its main safety properties with TLAPS for all instances.

## 1. Inventory

| Component | Source | State it keeps | Operations | What makes it correct |
|---|---|---|---|---|
| Request pipeline | `pkg/proxy/handler.go` | per request: position of the handler, response status, deferred clean-ups; per process: four `sync.Once` milestones, delivery counters | `ServeHTTP`, `serveAudited`, the passthrough `ReverseProxy` hooks, `buildAndSendAuditEvent`, `sendBestEffort` | an event is about an answer the client got and the backend gave; a relayed answer gets an event; one answer per client; nothing waits for ever |
| Body spool | `pkg/proxy/body_spool.go` | temporary file, captured prefix, size, truncation flag | `spoolBody`, `Open`, `Cleanup` | bytes are resent exactly, the capture is exact, no file is left |
| Audit event builder | `pkg/audit/builder.go` | none | `Build` and its helpers, `Wrap` | a cut body never passes for an object; status and object reference come from the right source |
| Backend identity | `pkg/proxy/backend_identity.go` | configuration | the two `Apply`, header stripping, `headerKeyEscape` | the backend sees the user the event names |
| Request forwarding | `pkg/proxy/handler.go` | none | `buildUpstreamRequest`, `Rewrite`, `stripHopByHopHeaders`, `appendForwardedFor`, the copy of the answer | both paths send on the same end-to-end headers to the URL that was asked for, and bring the answer's back |
| Requestheader identity | `pkg/identity/requestheader.go` | the authenticator | `FromRequest`, `RequiresVerifiedHeaders` | unverified requests go nowhere; the request is left as it was |
| Requestheader trust | `pkg/identity/cluster.go`, `cmd/server/main.go` | CA and header names, reloaded by two controllers | `RunOnce`, `Run`, `Ready`, `startRequestHeaderTrust`, `waitForTrust` | no serving before usable trust; trust once had is kept; nobody is accepted on trust the cluster never gave; rotations arrive |
| Webhook client | `pkg/webhook/client.go` | endpoint | `Send` | success exactly on a 2xx answer |
| Process life cycle | `cmd/server/main.go` | signal context, server | start-up, shutdown goroutine, return of `main` | work in progress is drained |
| Request metrics | `handler.go`, `pkg/telemetry/observe.go` | `requestMetricState`, `metricResponseWriter`, `observedReadCloser`, five instruments | `record`, `recordBackendRoundTrip`, `StreamStarted`, `WriteHeader`, `Read`, `Close` | every request and stream is counted once, with labels that agree with each other and with what happened |
| Connection gauge | `cmd/server/main.go` | `connStateTracker` | `observe` | the gauge adds up to the open connections; the map does not grow |
| Configuration | `cmd/server/main.go` | the parsed flags | `parseFlags` and its validators, `buildBackendTransport`, the choice of identity and listeners | no accepted flag is without effect; how the backend is trusted is decided, never defaulted |
| Metrics exporter, test helpers | `pkg/telemetry/exporter.go`, `metricread.go` | none of its own | registration of instruments, reading them in tests | not modelled (section 5) |

**How they interact.** Each request has a goroutine of its own. It asks the
identity extractor, resolves the request info, and goes either to the
`ReverseProxy` (streaming, never audited) or to `serveAudited`, which spools the
request, calls the transport, spools the response, answers the client and starts
an audit goroutine with the two captured prefixes. That goroutine calls the
builder and the webhook client and outlives the handler, whose deferred functions
meanwhile remove the files. `main` owns a shutdown goroutine that acts on a
signal, and before it serves it starts two controllers that follow a ConfigMap
of the cluster; each verification reads what they hold, one part at a time.
Metrics are recorded from the handler, from the readers wrapped around bodies,
from the hooks of the `ReverseProxy` and from the server's connection callback.
Shared between goroutines are the milestones, the counters and gauges, the
temporary directory, the request's header map, the trust and the process itself.

**What is hard.** Eight error paths that answer and must return; a client,
backend or receiver that leaves, stalls or answers late at any of a dozen points;
an audit goroutine concurrent with the clean-up; a process that ends at any
moment; off-by-one at the capture limit; two header codecs in a row; a stream
that may end by EOF, an error, a failed write, `Close` or a panic, in any order;
a gauge updated outside the lock of the map it follows; two halves of one
ConfigMap that are reloaded apart while requests are verified. The list
with lines is under `hazards` in `PROJECT.json`.

## 2. Modules

| Module | What it is |
|---|---|
| `BodySpool` | one call of `spoolBody` and the life of its result, byte by byte |
| `BodySpoolProofs` | theorems about it |
| `AuditProxy` | the pipeline: handlers, audit goroutines, backend, receiver, process |
| `AuditTrail` | the abstract specification: what a reader of the trail may rely on |
| `AuditProxyProofs` | invariants of the pipeline; its telemetry is truthful; the pipeline implements the trail |
| `AuditBuilder`, `AuditBuilderProofs` | `Build` on captured bodies, as operators and one step |
| `RequestForwarding`, `RequestForwardingProofs` | URL and headers from kube-apiserver to the backend and back, on both paths, in both identity modes |
| `ActiveGauge` | the abstract specification of an up-down counter, lemmas on counting, and the proof that such a gauge is exact |
| `ConnectionGauge`, `ConnectionGaugeProofs` | `connStateTracker` and `connections_active`; it implements `ActiveGauge` |
| `RequestMetrics`, `RequestMetricsProofs` | what a request leaves in the instruments; `streams_active` implements `ActiveGauge` |
| `RequestHeaderTrust`, `RequestHeaderTrustProofs` | start-up gate, controllers, verifier; the second also has the theorems about `Configuration`, whose last step starts that gate |
| `Configuration` | what `main` makes of its command line |
| `MC...` | instances for TLC |

Definitions whose names start with `Mutant` are plausible bugs. No specification
uses them; each shows, put in place of the definition after it, that some
property notices. `PROJECT.json` pairs them.

### BodySpool
`pc` follows `spoolBody` (`create`, `copy`, `close`) to its result (`ok`,
`error`) and to `cleaned`. One iteration of the copy loop is one action:
`ReadMore`, `ReadEOF` and `ReadFails` read `n` bytes, any number up to the
buffer, and write, count and capture them; `WriteFails` is a short write. `disk`
is the content of the file and `named` its directory entry: an open reader goes
on after `Cleanup` removed the name, as on the platforms the container runs on.
`os.Remove` may fail, and `removeFailed` remembers it.

### AuditProxy
`pc[r]` names the blocking calls of `serveAudited` and of the passthrough path;
an action is what happens from one to the next, early return included. The two
uses of `spoolBody` are the actions with a `side`. `files` are temporary files on
disk, `cleanups` those a deferred `Cleanup` will remove; `Return` runs the
deferred functions. `audit[r]` is the detached goroutine. `backend`, `reply` and
`post` are outside the process: a backend or receiver answers what is on the wire
also when the proxy has given up or is gone. `RoundTripFails` and `SendFails` are
enabled whatever the other side did or will do. The resolver failing
(`info = "unresolved"`) leads to the passthrough path, as in the code. `Build`
has an error return only for a nil request or request info, which no caller
passes, so `build_error` is not a step. `shutdown` follows the shutdown
goroutine, `process` the process; after it ended only outside steps happen.
The number of clients is the constant `Requests`; each arrives at most once,
since a retry of kube-apiserver is a request of its own.

Not in this module: body bytes (`BodySpool`), event content (`AuditBuilder`),
headers (`RequestForwarding`), request metrics and 1xx and 101 answers
(`RequestMetrics`), how an identity is verified (`RequestHeaderTrust`).
`TelemetryTruthful` is about the audit counters and the milestones.

### AuditTrail
Variables `mutating`, `answer`, `trail`, `alive`; steps `Answer`, `Record`,
`Die`. `AuditProxy` maps its state to it: the answers are what clients were sent,
the trail is the accepted POSTs with the status of their events. An entry needs a
mutating request, a relayed backend answer and its status, and is the only one
about its request; best effort means that it may be missing.

### AuditBuilder
A body is white space, a document, white space; of the document the kind matters
(an object with its metadata, a number, something that is not JSON). A prefix of
an object is not JSON, a prefix of a number is: the case that makes the order of
the tests in `buildUnknown` matter. A document that is not JSON is taken to stay
so when it is cut; an object followed by something else, cut exactly behind the
object, is not among the kinds. `strings.TrimSpace` is the constant `Trim`.
That lengths are enough, and no bytes are needed here, is the theorem
`CaptureSpelled`: the lengths of a capture describe the bytes that `BodySpool`
captures.

### RequestForwarding
A header map is a function from names to sequences of values. The authenticator,
`url.PathUnescape`, the backend's impersonation filter, what `ReverseProxy` does
before and after it calls `Rewrite`, and the `User-Agent` of the transport are
modelled from how the code relies on them and marked external. Names are in lower
case, since `http.Header` canonicalises them and all readers fold them. The bytes
of a key, those that may not stand in a header name, the two hexadecimal digits of
each and the byte it is in lower case are the constants `Byte`, `Illegal`, `Hex`
and `Lower`; a key is a sequence of bytes, and a percent sign followed by anything
but the digits of a byte is an error of `url.PathUnescape`. A key with an escaped
upper-case letter (`%41`) is decoded to upper case on the first hop and, unescaped
in the next header name, to lower case on the second; two keys that fold to one
have their values appended in the order in which `Apply` walks the Go map, which
is any (`Walks`, `Gather`). Inbound extra headers are those kube-apiserver's own
escaping produces, one malformed spelling, that one, and an escape that nobody
needs (`%61`), so that two headers may spell one key.

`RemoteFamily` and `ImpersonateFamily` are all names with the prefixes
`X-Remote-` and `Impersonate-`: those somebody reads, the extra headers, and any
others. The values of `Connection` are header names of any kind, identity headers
too. `Restored` is what `ReverseProxy` puts back after it has stripped the
hop-by-hop headers: an upgrade, and `Te: trailers`. `NoDefaultAgent` and
`Transport` decide on the `User-Agent`. Every request here has passed
verification.

A URL is its path, the escaped path where it differs, and its query as a set of
parameters. `ResolveReference` of the audited path and `SetURL` of the other are
modelled on paths with and without an escaped slash and for backend URLs with
and without a path. The mux in front redirects dot segments, so none arrive. The
other path also drops parameters that do not parse (`cleanQueryParams`).
Answers carry end-to-end headers, hop-by-hop headers and names that `Connection`
lists. Trailers are left out.

### ActiveGauge and ConnectionGauge
`ActiveGauge` joins and leaves one label at a time and moves the counter of that
label with it. `ConnectionGauge` splits `observe` where the code releases its
lock: `conn` is what net/http knows of the connection, `states` the tracker's
map, `gauge` the instrument, and `callback` the call under way, which first takes
the old state out of the gauge and then adds the new one. A scrape may fall
between any two steps; the callbacks of one connection never overlap, since
net/http makes them on its goroutine.

### RequestMetrics
`pc[r]` follows `ServeHTTP` to the deferred `record`. The `ReverseProxy` is
external: it relays 1xx answers through the same writer, copies the body until
one side fails (`ReadEnds`, `ReadFails`, a failed write and its panic), closes
it, and hands the connection over after a 101, which may fail after
`ModifyResponse` has recorded the round trip. `onClose[r]` is the callback of
`observedReadCloser`, cleared by whichever of `Read` and `Close` runs it first;
both are called by the goroutine of the handler. `requests`, `roundTrips` and
`streamEnds` are samples by request; `streamsActive` is the gauge; a byte counter
is the set of labels it was raised under. Durations, resource labels and sizes are
left out.

### RequestHeaderTrust
`versions` is what the ConfigMap has held. `CheckConfigMap` and `RunOnce` are the
synchronous part of `startRequestHeaderTrust`, `ReadyFirst` and `ReadySecond` the
two questions of `Ready` as `waitForTrust` asks them, `WaitTick` and `GiveUp` the
two arms of its `select`. The controllers are Kubernetes' own. Of them the model
takes this: the CA controller's `RunOnce` reports no error before its informer
has synced; a bundle that does not parse leaves the old one; lists that are not
JSON are an error and leave the old ones, empty lists are adopted; a missing
ConfigMap changes nothing; every getter loads the current value anew. In each
controller an informer and a worker are apart: `ShowCA` and `ShowHeaders` move what
the informer shows, in order and possibly past some versions, and put the key in
the queue; `LoadCA` and `LoadHeaders` take it and load what is shown by then. A
resync, and the retry of a load that failed, repeat a load with the same outcome
until the informer moves, and are left out. The verifier is three steps, since it asks for the chain's
CA, the allowed names and the username headers separately.

### Configuration
A command line is the set of flags given, the scheme of the backend URL and the
identity mode; a flag is given with a value other than its default or it is not.
Reading files succeeds or fails.

## 3. Runs

| Run | Instance | Shows |
|---|---|---|
| `spool` | bodies of 0 to 5 distinct bytes, limit 3, buffer 2 | exact capture, size, flag and copy; no file left |
| `proxy` | 2 requests (symmetric), backend answers 201 or 409, verified identity required | `EventTruthful`, `RelayedIsAudited`, `TempFilesOwned`, `TelemetryTruthful`, `AnsweredOnce`, `ImplementsTrail` |
| `liveness` | 1 request of every kind, verified identity not required, fair | `CancelReleasesHandler`, `AuditSettles` |
| `builder` | 144 bodies on either side, limit 3; chains of up to 3 entries in five spellings | `NoPartialObject`, `TruncationVisible`, `RefFollowsResponse`, `StatusReported`, `SourceIPsFirstSeen` |
| `forwarding` | up to 2 of 7 extra headers, 3 users, with and without identity headers of the client's own, 3 chains, 5 kinds of connection (an upgrade, listed names, a listed identity header, `Te` with and without `trailers`, a `User-Agent`, none), 9 configurations; 16 URLs with and without a peer address, 4 backend URLs, 2 answers | `BackendDecodesUser`, `EndToEndHeadersArrive`, `PathsForwardAlike`, `TargetKeepsRequest`, `ReplyKeepsHeaders` |
| `connection_gauge` | 3 connections | `TrackerFollowsServer`, `ScrapeTruthful`, `ImplementsGauge` |
| `request_metrics` | 1 request of 8 kinds, 4 answers, fair | `StreamsEndOnce`, `RequestsRecordedOnce`, `RoundTripTruthful`, `AnswerBytesLabelled`, `StreamsCounted`, `StreamsDrain` |
| `header_trust` | 5 ConfigMaps (good, rotated, one half bad in either way, deleted) in sequences of up to 3, 2 CAs, 3 certificates, 1 request, fair | `AcceptedUnderPublishedTrust`, `TrustIsKept`, `GateOpensOnUsableTrust`, `StartupEnds`, `AdoptsLatest` |
| `configuration` | all sets of 17 flags, 3 schemes, 3 modes | `NoFlagIgnored`, `BackendTrustDecided` |
| `exit`, `every_mutation` | `AuditProxy` | statements that the code does not keep (section 6) |
| `upgrade` | `RequestForwarding` | the same |

**Why the bounds are enough.** In `spool` a body may end before, at and beyond
the limit and inside, at the edge of and beyond a chunk, and with distinct bytes
every loss, repetition or exchange shows. In `proxy`, requests meet only in the
counters, the milestones and the process; two of them give every pairing of
positions, and the theorems lift the bound. The two status codes keep a wrong
status apart from a right one. Liveness is a statement about one request at a
time; one request keeps the check without symmetry, which would be unsound there.
In `builder` the lengths fall on both sides of the limit in each part of a body.
Three connections let two be inside their callbacks while a third settles.
Requests share nothing in `RequestMetrics` but the instruments, of which only the
gauge does not keep them apart; the theorems about it hold for any number of
them. The inputs of `builder` and `forwarding` are a sample; the theorems hold
for every body, header map and URL. Three versions give a good one, a rotation and a
fault in between or after; the verifications of two requests do not touch each
other.

**Deadlock** is checked in `spool`. Elsewhere the system may stop: the process
exits or crashes, all connections are closed, `main` is past its start-up, and
`Build` and a forwarded request are over after one pass.

**Fairness.** `AuditProxy` assumes weak fairness of the steps of a goroutine that
wait for nobody, of the abort of a wait whose request context is cancelled, and
of the audit goroutine, whose POST has a deadline of five seconds. It is what the
Go runtime, `context` and `net/http` give. Nothing is assumed of client, backend
or receiver: they may never move. Hence `CancelReleasesHandler` is conditional on
the client leaving; that every request ends is not true of this code, since
`RoundTrip` has no timeout. `BodySpool` assumes no fairness and states no
liveness: the server sets no `ReadTimeout`, so a client that stalls holds up
`spoolBody` for as long as it likes. `RequestMetrics` assumes that a handler goes
on once its client has left, since the cancelled context makes every read and
write return. Of a client that stays and does not read nothing is assumed (there
is no `WriteTimeout`), so `StreamsDrain` is conditional on the client being gone;
a backend that stops does not end the request by itself. `RequestHeaderTrust`
assumes that `main` goes on and its timer fires; that a `select` does not pass
over a context that is done for ever (strong fairness of `GiveUp`: with a tick due
as well Go chooses at random); that an informer that may read the object gets to
its latest version, since it lists again when a watch ends; and that a worker
loads what is in its queue. That the listener fails is not assumed.

## 4. Proofs

Assumptions, each evaluated by TLC on the instances of the runs:

* `SpoolAssumption`: bodies are finite sequences, limit and buffer are positive
  (`parseFlags` refuses a limit below one).
* `ProxyAssumption`: the kinds of requests, and that status codes are positive.
  `FiniteRequests`: a process has served finitely many requests; only the
  counters need it. `ConnsAssumption` and `MetricsAssumption` say the same of
  connections and of the requests the metrics count.
* `TrustAssumption`: the fields of ConfigMaps and certificates; any number of
  versions.
* `BuilderAssumption` and `ExchangeAssumption`: the limit is positive, trimming
  twice is trimming once, a body has a shape and sizes, the backend's status code
  is not 0, and the addresses come from texts. The code of a `Status` body may be
  anything.
* `ForwardingAssumption`: a header map is finite, takes each of its names to one
  or more values (net/http never leaves a name without), and the part of a name
  after its prefix is a sequence of bytes; an `X-Forwarded-For` line is read as a
  list of hosts; a URL has path, escaped path and query. Which headers, and how
  many, is open.
* `CodecAssumption`: bytes have distinct pairs of digits, digits and `%` may stand
  in a header name, and no digit is `%`; lower case leaves digits, `%` and the bytes
  that must be escaped alone and makes none of the latter.
* `FlagAssumption`: the flags are flags of the program. Any subset of them, any
  schemes and any modes will do.

Results:

* **`SpoolInvariant`**, from which `SpoolTypeCorrect`, `SpoolCapturesPrefix`,
  `SpoolTruncationExact`, `SpoolCopyFaithful` and `SpoolLeavesNoFile` follow.
  The properties alone are not inductive: that the file holds the whole body at
  the end follows only if it holds the prefix up to the read position all along,
  and that `size` is that position. `SpoolInv` adds this and the file's name per
  position. The lemmas `ChunkExtendsPrefix`, `PrefixOfChunk` and
  `CaptureChunkExtends` say that appending a chunk extends a prefix, whole or cut
  at the limit, for every chunk size.
* **`ProxyInvariant`**: `ProxyInv` consists of `TypeOK`; `HandlerInv` (what each
  position of a handler implies about identity, answer and response), without
  which nothing ties the audit goroutine's status to the reply; `AuditInv` (what
  an audit goroutine rests on never changes again); `EventInv` (an event is built
  once, before its POST); and `FileInv` (each file is being written, awaits its
  clean-up, or could not be removed). `ProxyTypeCorrect`, `ProxyEventTruthful`,
  `ProxyRelayedIsAudited` and `ProxyTempFilesOwned` follow.
* **`ProxyTelemetryTruthful`** needs two more parts. `CountInv` ties the counters
  to the number of audit goroutines at each stage: an event built is sent, failed
  or being posted, and each one counted as sent has its accepted POST. The
  property compares two numbers and does not say which goroutines they count.
  `MilestoneInv` gives every logged milestone its evidence, which no later step
  takes away. `AuditMoves` counts what one goroutine's step does to each stage.
* **`ProxyImplementsTrail`**: `TrailStep` shows that each action answers a client
  that had no answer, records one entry, ends the process, or leaves the mapped
  state alone. `ReceiverAnswers` needs `EventInv` and `AuditInv` for the entry to
  carry the client's status and to be the first about its request.
  **`ProxyAnsweredOnce`** follows from the refinement step.
* **`GaugeExact`**: a gauge that moves by one with each join and leave equals the
  number of members under each label; its lemmas say how a
  cardinality changes when one member moves. **`TrackerImplementsGauge`** maps a
  connection to the label it is counted under, which is not its state while a
  callback is between its two updates; `TrackerTypeCorrect`, `TrackerCorrect` and
  `ScrapesTruthful` follow from the invariant and the counting lemmas. The
  refinements carry exactness over: **`ConnectionsCounted`** and
  **`OpenStreamsCounted`** say that the two gauges show the number of connections
  counted under a state and of streams open under a protocol.
* **`MetricsInvariant`**: `Phase` ties what is known of the answer and of
  `streaming` to the position of the handler, `Closing` says that the callback of
  a body is set exactly while its stream is copied, `Ended` that the stream has
  left one sample exactly afterwards. Without `Phase` the label a stream is taken
  out under need not be the one it came in with. `MetricsTypeCorrect`,
  `StreamsEndExactlyOnce` and, as a refinement of `ActiveGauge`,
  `StreamGaugeExact` follow. The step for one request and the frame for all
  others are separate lemmas.
* **`SamplesInvariant`** adds what the samples rest on. `Header`: what the client
  was told against the first status the writer was given, position by position
  (the only place where a 1xx answer and a hijacked connection differ from the
  rest). `Labelled`: the metric state has the labels of its request, and the
  round trip was observed if and only if its one sample is there. `Counted`: the
  sample of a request is computed from the state at the end and made once.
  `Sized`: bytes of an answer are counted only after `streaming` is settled; this
  is why the label on them is the final one. `EveryRequestRecordedOnce`,
  `RoundTripsTruthful` and `AnswerBytesTruthful` follow.
* **`TrustInvariant`**: `HeldInv` (what the halves hold was published), `GateInv`
  (after the first question of `Ready` the CA cannot go away, which is what makes
  the order of the questions right) and `VerdictInv` (what a verification has
  found so far). `TrustTypeCorrect`, `TrustKept`, `AcceptanceIsPublished` and
  `GateOpens` follow.
* **`FlagsCount`** and **`TrustDecided`** are about `Configuration`, through an
  instance `Config` of it. `ConfigInv` says which validators a command line has
  passed at each position of `main`, and that what has been built is what
  `buildBackendTransport` and the choice of identity make of it. `EffectTellsFlags`
  then goes flag by flag: where both command lines are accepted and build the same
  proxy, each flag of the larger is one of the smaller, except the certificate and
  key of metrics that are off, which stand or fall together.
* **`BuildInvariant`**: an event is what `BuildOf` makes of its exchange. The
  work is in lemmas about the operators, for every limit and every length of
  white space and document: a document that was cut never decodes
  (`CutNeverDecodes`; one of which only white space after it was cut does), and
  an embedded raw object is the whole body, a cut one the stub (`ObjectForms`).
  `ObjectsWhole`, `TruncationShows`, `StatusTruthful` and `RefIsResponses` follow.
* **`CaptureSpelled`** joins the builder to the spool. `SpoolCapturesPrefix` says
  which bytes are captured; this says that the lengths `CapturedPrefix` computes
  are those of the white space, the document and the white space in these bytes,
  wherever the limit falls.
* **`SourceIPsInOrder`**: `Listed` says what `sourceIPs` is after the first `n`
  entries of the chain: their trimmed addresses without blanks, no address twice,
  each before any address that first occurs later. `Collects` carries it along the
  recursive function, one entry at a time.
* **`FlowInvariant`**: each path has made of the request what `AuditedRequest` or
  `PassthroughRequest` makes of it, for a user the authenticator may have read and
  for some walk over that user's extra keys. From there
  the argument goes name by name: every operation on a header map is pointwise,
  `Same(g, h, n)` says that two maps agree at a name, and each operator has a
  lemma for the names it takes and one for those it leaves. `HeadersArrive`,
  `PathsAlike`, `RepliesWhole` and `TargetsKept` state the runs' properties for
  every header map and URL. **`IdentityNotClients`** says that under no
  configuration an identity header of the client's own gets past the proxy, and
  **`ForwardedUserDecoded`** that in forwarding mode the backend reads the same
  user from the request, provided the `Connection` header lists no
  `X-Remote-*` name; kube-apiserver lists none, and one that is listed is dropped
  as hop-by-hop.

* **`KeyCodec`**: for every key, `url.PathUnescape` after `headerKeyEscape` gives
  the key back, and what is between has no byte that a header name may not have.
  `EscapeAppend` says that escaping works byte by byte, `UnescapedAt` reads one
  byte or one escape; that a literal percent sign is itself escaped is what lets
  the two be told apart.
* **`BackendDecodes`**: on either path and in either mode the backend decodes the
  user that the audit event names, less the extras an allowlist withholds. In
  impersonation mode `ExtrasWritten` and `ExtraValues` give the headers that are
  sent. `EscapeLower` says that folding an escaped key gives the escaped form of the
  folded key, so that by `KeyCodec` two keys share a header exactly if they fold to
  one key, whose values are then gathered in the order of the walk. `ExtrasRead` and
  `FieldsWritten` say what the filter reads from them. In forwarding mode it is the
  theorem above, whose condition on `Connection` is part of the property.

**Induction over data.** The installed provers cannot instantiate the library's
induction theorems, whose parameter is an operator. The proofs about recursive
functions and folds use a set in its place: `LeastNatural` (a nonempty set of
naturals has a least element, from the theorem that `<` is well founded) gives
`InductionTo` and `InductionOnSeq`, and a statement to be proved by induction is
the set of the numbers or sequences it holds for. The lemmas on `FlattenSeq`
(`JoinsAgree` to `FlattenAppend`) unfold its recursive function the same way. The
two modules that need `LeastNatural` each have it, since neither extends the other.

Only model-checked is liveness, which is out of the prover's reach:
`CancelReleasesHandler`, `AuditSettles`, `StreamsDrain`,
`StartupEnds`, `AdoptsLatest`. Every safety invariant, action property and
refinement that a passing run checks is also a theorem.

## 5. Not modelled

The exporter registers instruments in a straight line of library calls at
start-up, and `metricread.go` reads them back in tests. Parsing certificates,
kubeconfigs and token files is I/O on constant input that succeeds or fails
(`Configuration` has both). The metrics and health listeners serve library
handlers. The Helm chart and the end-to-end tests carry no logic of the proxy.
Certificate verification, HTTP, JSON and the ConfigMap controllers are libraries,
modelled as far as the code relies on them and marked external.

## 6. Where code and text differ

1. `main` does not wait for `server.Shutdown` (`cmd/server/main.go:191-214`): the
   drain of ten seconds never takes place (`exit`).
2. A response that cannot be spooled leaves no event although the backend has
   answered (`handler.go:301-318`; `docs/ARCHITECTURE.md:230`) (`every_mutation`).
   What does hold is `RelayedIsAudited`.
3. An upgrade with an audited verb is not an upgrade at the backend
   (`handler.go:468`; `docs/ARCHITECTURE.md:118`) (`upgrade`).


The models also show the following, for which there is no run of its own:

* Delivery may come before the request is complete (`handler.go:330`;
  `docs/ARCHITECTURE.md:247`).
* A comment says that on the passthrough path `X-Forwarded-For` "matches the
  audited path exactly" (`handler.go:160-163`). It does not for a request that
  brings one: with a `Rewrite` hook the inbound header is gone before
  `appendForwardedFor` looks, so the audited path appends the peer to the chain and
  the other starts a new one. `PathsForwardAlike` states what each sends, and so
  contradicts the comment; it is checked and proved.
* The two paths also differ in `Forwarded`, `X-Forwarded-Host` and
  `X-Forwarded-Proto`, which only the audited path sends on; in `Te: trailers`,
  which only the other does; and for a client without a `User-Agent`, for which
  only the audited path sends Go's own. `PathsForwardAlike` names these
  differences and says that there are no others.
* An extra key with an upper-case letter reaches an impersonating backend in lower
  case, for `headerKeyEscape` does not escape letters and header names are folded
  (`backend_identity.go:98`); the audit event has it as it was.
  `BackendDecodesUser` is stated up to this.
* A `Connection` header that lists an `X-Remote-*` name takes that header from the
  request after it was verified, so that in forwarding mode the backend may see
  less of the user than the event names (`handler.go:779`). kube-apiserver lists
  none.
* A client that leaves a watch shows as `read_error` when the cancelled read is
  seen first, and not as `client_cancel` (`docs/WATCHES_AND_STREAMS.md:237`);
  `StreamsEndOnce` allows both.
* The writer keeps the first status it is given, so a 5xx after an informational
  answer is recorded with the informational code
  (`docs/WATCHES_AND_STREAMS.md:220`); `RequestsRecordedOnce` is stated up to this.
* A version with an empty list of username headers ends readiness after it was
  reached (`cluster.go:106`); `TrustIsKept` is stated up to this. Between two
  reloads a certificate may be accepted by the CA of one version and the names of
  another (`docs/ARCHITECTURE.md:198`); `AcceptedUnderPublishedTrust` says what
  still holds.
* An upgrade is recorded with status and outcome `unknown`; a backend protocol
  that was never seen as `other`; `streams_active` carries a constant outcome.
* An oversized body that starts with a whole capture of white space leaves neither
  stub nor annotation (`builder.go:137`); further `X-Forwarded-For` lines are
  dropped on the audited path (`handler.go:803-809`); a path prefix of
  `--backend-url` is replaced on the audited path and joined on the other
  (`handler.go:456`, `:159`); query parameters that do not parse are dropped on
  the other path only; the webhook timeout flag is capped by the constant five
  seconds (`handler.go:28`); certificate flags of a metrics listener that is off
  are accepted for nothing, and so is an allowlist of blank keys.

## 7. Plan

Done, in this order: `BodySpool` and its proofs, `AuditProxy`, `AuditTrail` and
the refinement proof, `AuditBuilder`, `RequestForwarding`; then `ActiveGauge`,
`ConnectionGauge` and their proofs, `RequestMetrics`, `RequestHeaderTrust` and
theirs, `Configuration`, URLs and answers in `RequestForwarding`.

Then the proofs about the remaining safety properties: telemetry, samples and
gauges, the event builder, forwarding; and those that take an induction: the
impersonation codec, the order of `sourceIPs`, the link from the spool to the
builder, and the command line.

Left: nothing among the safety properties. Liveness stays with TLC.

## Running

    tlc -workers 2 -config MCAuditProxy.cfg MCAuditProxy
    tlapm AuditProxyProofs.tla
