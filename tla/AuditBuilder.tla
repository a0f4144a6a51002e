---------------------------- MODULE AuditBuilder ----------------------------
(***************************************************************************)
(* audit.Builder.Build (pkg/audit/builder.go) on what spoolBody captured:  *)
(* which of a body becomes requestObject or responseObject, what an object *)
(* reference is made of, and which source addresses are listed.            *)
(*                                                                         *)
(* A body is white space, a document and white space again; of its bytes   *)
(* only their number matters, and of the document what JSON makes of it:   *)
(*   object    decodes, with the metadata and status fields it carries     *)
(*   digits    a JSON number: it decodes into no struct, and every proper  *)
(*             prefix of it is a valid JSON document again                 *)
(*   garbage   not JSON (protobuf, or an object that was cut)              *)
(***************************************************************************)
EXTENDS Integers, Sequences, SequencesExt

CONSTANTS
    MaxBodyBytes,    \* the capture limit
    Text,            \* header values, names, addresses, in any spelling
    Trim,            \* strings.TrimSpace on them
    Bodies,          \* bodies as sent
    Infos,           \* request infos
    Headers,         \* what Build reads of the headers and of the connection
    StatusCodes      \* HTTP status codes of the backend

ASSUME BuilderAssumption ==
    /\ MaxBodyBytes \in Nat \ {0}
    /\ "" \in Text
    /\ Trim \in [Text -> Text]
    /\ \A t \in Text : Trim[Trim[t]] = Trim[t]

(* What a body carries, of the exchanges that reach Build: a status code   *)
(* of net/http is never 0, the code of a Status body may be.               *)
Meta == [name : Text, namespace : Text, uid : Text, resourceVersion : Text]

Body ==
    [lead : Nat, doc : Nat, tail : Nat, json : {"object", "digits", "garbage"},
     kind : {"Status", "other"}, code : Int, meta : Meta]

ASSUME ExchangeAssumption ==
    /\ Bodies \subseteq Body
    /\ Infos \subseteq [name : Text, namespace : Text]
    /\ Headers \subseteq [auditID : Text, forwardedFor : Seq(Text), realIP : Text, remote : Text]
    /\ StatusCodes \subseteq Nat \ {0}

VARIABLES
    input,           \* the exchange: bodies as sent, info, headers, code
    event            \* the event built of it

vars == <<input, event>>

----------------------------------------------------------------------------
(* Bodies                                                                  *)

Blank(text) == Trim[text] = ""

SizeOf(body) == body.lead + body.doc + body.tail

Least(a, b) == IF a <= b THEN a ELSE b

(* The first n bytes of a body, as BodySpool's capture has them.  What is  *)
(* no JSON stays so: an object with something behind it, cut where the     *)
(* object ends, is not among the bodies.                                   *)
CapturedPrefix(body, n) ==
    LET lead == Least(body.lead, n)
        doc == Least(body.doc, n - lead)
    IN [body EXCEPT !.lead = lead,
                    !.doc = doc,
                    !.tail = Least(body.tail, n - lead - doc),
                    !.json = IF @ = "object" /\ doc < body.doc THEN "garbage" ELSE @]

Truncated(body) == SizeOf(body) > MaxBodyBytes

(* len(bytes.TrimSpace(body)) == 0                                         *)
IsBlank(body) == body.doc = 0

ValidJSON(body) == ~IsBlank(body) /\ body.json # "garbage"

(* json.Unmarshal into a struct succeeds.                                  *)
Decodes(body) == ~IsBlank(body) /\ body.json = "object"

----------------------------------------------------------------------------
(* The parts of an event                                                   *)

NoObject == [form |-> "none", size |-> 0, captured |-> 0]

(* Mutant: a capture that is valid JSON is taken for the object.           *)
MutantValidFirst(body, originalSize, truncated) ==
    CASE IsBlank(body) -> NoObject
      [] ValidJSON(body) -> [form |-> "raw", size |-> SizeOf(body), captured |-> SizeOf(body)]
      [] truncated -> [form |-> "stub", size |-> originalSize, captured |-> SizeOf(body)]
      [] OTHER -> NoObject

(* Mutant: the stub reports what was captured as the original size.        *)
MutantStubSize(body, originalSize, truncated) ==
    CASE IsBlank(body) -> NoObject
      [] truncated -> [form |-> "stub", size |-> SizeOf(body), captured |-> SizeOf(body)]
      [] ValidJSON(body) -> [form |-> "raw", size |-> SizeOf(body), captured |-> SizeOf(body)]
      [] OTHER -> NoObject

(* The runtime.Unknown of a captured body: a stub if it was truncated, the *)
(* bytes themselves if they are JSON, nothing otherwise.                   *)
BuildUnknown(body, originalSize, truncated) ==
    CASE IsBlank(body) -> NoObject
      [] ~IsBlank(body) /\ truncated ->
            [form |-> "stub", size |-> originalSize, captured |-> SizeOf(body)]
      [] ~truncated /\ ValidJSON(body) ->
            [form |-> "raw", size |-> SizeOf(body), captured |-> SizeOf(body)]
      [] OTHER -> NoObject

(* Mutant: the code of a Status body is always taken, also when it is 0.   *)
MutantStatusCode(code, body) ==
    IF Decodes(body) /\ body.kind = "Status" THEN body.code ELSE code

(* responseStatus.code: a Status body's own code, if it has one.           *)
BuildResponseStatus(code, body) ==
    IF Decodes(body) /\ body.kind = "Status" /\ body.code # 0 THEN body.code ELSE code

EmptyMeta == [name |-> "", namespace |-> "", uid |-> "", resourceVersion |-> ""]

DecodeObjectMeta(body) == IF Decodes(body) THEN body.meta ELSE EmptyMeta

FirstNonEmpty(values) ==
    LET filled == { i \in DOMAIN values : ~Blank(values[i]) }
    IN IF filled = {} THEN "" ELSE values[Min(filled)]

(* Mutant: the request's uid and resourceVersion win, as its name does.    *)
MutantRefPrefersRequest(info, requestMeta, responseMeta) ==
    [name |-> FirstNonEmpty(<<info.name, requestMeta.name, responseMeta.name>>),
     namespace |-> FirstNonEmpty(<<info.namespace, requestMeta.namespace, responseMeta.namespace>>),
     uid |-> FirstNonEmpty(<<requestMeta.uid, responseMeta.uid>>),
     resourceVersion |->
        FirstNonEmpty(<<requestMeta.resourceVersion, responseMeta.resourceVersion>>)]

(* The URL names the object before the bodies do; its identity and version *)
(* after the change come from the response first.                          *)
BuildObjectReference(info, requestMeta, responseMeta) ==
    [name |-> FirstNonEmpty(<<info.name, requestMeta.name, responseMeta.name>>),
     namespace |-> FirstNonEmpty(<<info.namespace, requestMeta.namespace, responseMeta.namespace>>),
     uid |-> FirstNonEmpty(<<responseMeta.uid, requestMeta.uid>>),
     resourceVersion |->
        FirstNonEmpty(<<responseMeta.resourceVersion, requestMeta.resourceVersion>>)]

(* Mutant: an address is compared before it is trimmed.                    *)
MutantAppendUntrimmed(ips, value) ==
    IF Blank(value) \/ value \in ToSet(ips) THEN ips ELSE Append(ips, Trim[value])

AppendIP(ips, value) ==
    IF Blank(value) \/ Trim[value] \in ToSet(ips) THEN ips ELSE Append(ips, Trim[value])

(* X-Forwarded-For split at its commas, X-Real-IP, and the peer.           *)
AddressChain(h) == h.forwardedFor \o <<h.realIP, h.remote>>

CollectSourceIPs(h) ==
    LET chain == AddressChain(h)
        collected[n \in 0 .. Len(chain)] ==
            IF n = 0 THEN << >> ELSE AppendIP(collected[n - 1], chain[n])
    IN collected[Len(chain)]

(* uuid.NewUUID returns an ID nobody else has.                             *)
NewUUID == "fresh"

AuditIDFromRequest(h) == IF Blank(h.auditID) THEN NewUUID ELSE Trim[h.auditID]

(* The event of one exchange.                                              *)
BuildOf(in) ==
    LET request == CapturedPrefix(in.request, MaxBodyBytes)
        response == CapturedPrefix(in.response, MaxBodyBytes)
        requestObject == BuildUnknown(request, SizeOf(in.request), Truncated(in.request))
        responseObject == BuildUnknown(response, SizeOf(in.response), Truncated(in.response))
    IN [auditID |-> AuditIDFromRequest(in.headers),
        sourceIPs |-> CollectSourceIPs(in.headers),
        status |-> BuildResponseStatus(in.code, response),
        objectRef |-> BuildObjectReference(in.info, DecodeObjectMeta(request),
                                           DecodeObjectMeta(response)),
        requestObject |-> requestObject,
        responseObject |-> responseObject,
        annotations |-> { side \in {"request", "response"} :
            (IF side = "request" THEN requestObject ELSE responseObject).form = "stub" }]

----------------------------------------------------------------------------
NoEvent == << >>

Init ==
    /\ input \in [request : Bodies, response : Bodies, info : Infos, headers : Headers,
                  code : StatusCodes]
    /\ event = NoEvent

Build ==
    /\ event = NoEvent
    /\ event' = BuildOf(input)
    /\ UNCHANGED input

Spec == Init /\ [][Build]_vars

----------------------------------------------------------------------------
(* Properties                                                              *)

Built == event # NoEvent

(* An object in an event is never a part of what was sent: a raw object is *)
(* the whole body, byte for byte, even where a cut body happens to be a    *)
(* valid JSON document of its own.                                         *)
NoPartialObject ==
    Built =>
        /\ event.requestObject.form = "raw" =>
              event.requestObject.size = SizeOf(input.request)
        /\ event.responseObject.form = "raw" =>
              event.responseObject.size = SizeOf(input.response)

(* Truncation shows: an oversized body whose captured part is not blank    *)
(* leaves a stub with the original size, and its annotation; a body within *)
(* the limit never does.  (An oversized body that starts with MaxBodyBytes *)
(* of white space leaves no trace at all: builder.go:137 comes first.)     *)
TruncationVisible ==
    Built =>
        /\ Truncated(input.request) /\ input.request.lead < MaxBodyBytes /\ input.request.doc > 0 =>
              /\ event.requestObject =
                    [form |-> "stub", size |-> SizeOf(input.request), captured |-> MaxBodyBytes]
              /\ "request" \in event.annotations
        /\ ~Truncated(input.request) =>
              "request" \notin event.annotations /\ event.requestObject.form # "stub"

(* What the event says about the object after the change is what the       *)
(* response said, whatever stale uid or version the client sent along; and *)
(* a create without a name in URL or request finds it in the response.     *)
RefFollowsResponse ==
    Built /\ ~Truncated(input.response) /\ Decodes(input.response) =>
        LET meta == input.response.meta IN
        /\ ~Blank(meta.uid) => event.objectRef.uid = meta.uid
        /\ ~Blank(meta.resourceVersion) => event.objectRef.resourceVersion = meta.resourceVersion
        /\ ~Blank(meta.name) => ~Blank(event.objectRef.name)

(* A failed request is recorded as failed: a status is never 0, and is the *)
(* HTTP status unless a Status body that was captured whole says another.  *)
StatusReported ==
    Built =>
        /\ event.status # 0
        /\ Truncated(input.response) /\ input.response.tail = 0 => event.status = input.code

(* sourceIPs lists every address of the chain once, in the order in which  *)
(* the proxies added them, however they are padded.                        *)
SourceIPsFirstSeen ==
    Built =>
        LET chain == AddressChain(input.headers)
            first(v) == CHOOSE i \in DOMAIN chain :
                            Trim[chain[i]] = v /\ \A j \in 1 .. i - 1 : Trim[chain[j]] # v
        IN /\ ToSet(event.sourceIPs) = { Trim[value] : value \in ToSet(chain) } \ {""}
           /\ \A i, j \in DOMAIN event.sourceIPs :
                 i < j => first(event.sourceIPs[i]) < first(event.sourceIPs[j])
=============================================================================
