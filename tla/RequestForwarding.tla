-------------------------- MODULE RequestForwarding --------------------------
(***************************************************************************)
(* One request on its way from kube-apiserver to the backend, its URL and  *)
(* its headers, and the headers of the answer on their way back:           *)
(* Extractor.FromRequest (pkg/identity/requestheader.go), the two ways a   *)
(* request is sent on and answered (buildUpstreamRequest and serveAudited, *)
(* the ReverseProxy and its Rewrite; pkg/proxy/handler.go), and the two    *)
(* backend identities (pkg/proxy/backend_identity.go).                     *)
(*                                                                         *)
(* A header map is a function from names to sequences of values.  A name   *)
(* is <<fixed part, suffix>>.  The suffix is the bytes an extra key is     *)
(* written with; <<"x-remote-", s>> and <<"impersonate-", s>> are any      *)
(* other names with these prefixes; and it is empty otherwise.  Names are  *)
(* kept in lower case: http.Header canonicalises them, and every reader    *)
(* folds them.  The values of Connection are the names that it lists.      *)
(*                                                                         *)
(* A URL is [path, rawPath, query] as net/url keeps it: a path is a        *)
(* sequence of bytes, in which "%2f" is an escaped slash; rawPath is empty *)
(* when path encodes to it; a query is a set of parameters, for their      *)
(* order is not kept.  The mux redirects a path with dot segments.         *)
(***************************************************************************)
EXTENDS Integers, Sequences, FiniteSets, SequencesExt, Functions, TLC

CONSTANTS
    Inbound,      \* requests that pass verification: [header, remote, url]
    Backends,     \* URLs --backend-url may give
    Answers,      \* what the backend may answer: [status, header]
    Identities,   \* configurations: [mode, forwardAllExtras, extraKeys, forwardUID]
    Byte,         \* the bytes of extra keys
    Illegal,      \* those that no header name may have
    Hex,          \* the two hex digits of each
    Lower         \* each in lower case

(* A byte has digits of its own, and they may stand in a header name.      *)
(* Lower case changes letters into letters, and no digit.                  *)
ASSUME CodecAssumption ==
    /\ Illegal \subseteq Byte /\ "%" \in Byte \ Illegal
    /\ \A b \in Byte :
          \E d, e \in Byte \ (Illegal \cup {"%"}) :
              Hex[b] = <<d, e>> /\ Lower[d] = d /\ Lower[e] = e
    /\ \A b, c \in Byte : Hex[b] = Hex[c] => b = c
    /\ \A b \in Illegal \cup {"%"} : Lower[b] = b
    /\ \A b \in Byte \ (Illegal \cup {"%"}) : Lower[b] \in Byte \ (Illegal \cup {"%"})

ToLower(s) == [i \in DOMAIN s |-> Lower[s[i]]]

(* A header map as it is read off a connection: every name has lines.      *)
IsHeader(h) ==
    /\ h = [n \in DOMAIN h |-> h[n]]
    /\ IsFiniteSet(DOMAIN h)
    /\ DOMAIN h \subseteq STRING \X Seq(Byte)
    /\ \A n \in DOMAIN h : h[n] \in Seq(ToSet(h[n])) /\ h[n] # << >> /\ ToLower(n[2]) = n[2]

IsURL(u) == u \in [path : Seq(STRING), rawPath : Seq(STRING), query : SUBSET STRING]

(* X-Forwarded-For lines are read as lists of hosts.                       *)
ASSUME ForwardingAssumption ==
    /\ \A r \in Inbound :
          /\ IsHeader(r.header)
          /\ IsURL(r.url)
          /\ r.remote \in STRING
          /\ \A n \in DOMAIN r.header : n[1] = "x-forwarded-for" =>
               \A line \in ToSet(r.header[n]) : line \in Seq(STRING)
    /\ \A url \in Backends : IsURL(url)
    /\ \A a \in Answers : IsHeader(a.header)

VARIABLES
    pc,           \* arrived, authenticated, forwarded, answered, relayed
    identity,     \* the configured BackendIdentity
    backendURL,   \* the configured backend
    inbound,      \* the request as it arrived
    header,       \* the handler's own r.Header, which the audit event reads later
    user,         \* the verified user, the one the audit event names
    via,          \* the path taken: audited or passthrough
    outbound,     \* the headers the backend receives
    target,       \* the URL the backend receives
    answer,       \* what the backend answers
    reply         \* the headers the client receives

inputVars == <<identity, backendURL, inbound>>
vars == <<pc, inputVars, header, user, via, outbound, target, answer, reply>>

----------------------------------------------------------------------------
(* http.Header                                                             *)

Plain(name) == <<name, << >>>>

Del(h, names) == Restrict(h, DOMAIN h \ names)

Values(h, name) == IF name \in DOMAIN h THEN h[name] ELSE << >>

Get(h, name) == IF Values(h, name) = << >> THEN "" ELSE h[name][1]

(* The lines of more replace those of h under the same names.              *)
SetHeaders(h, more) ==
    [n \in DOMAIN h \cup DOMAIN more |-> IF n \in DOMAIN more THEN more[n] ELSE h[n]]

SetHeader(h, name, values) == SetHeaders(h, [n \in {name} |-> values])

WithPrefix(h, prefix) == { n \in DOMAIN h : n[1] = prefix }

----------------------------------------------------------------------------
(* Extra keys in header names                                              *)

LegalHeaderKeyByte(b) == b \notin Illegal

(* Mutant: a literal "%" is legal, so it is not escaped.                   *)
MutantEscapeIllegalOnly(b) == ~LegalHeaderKeyByte(b)

ShouldEscapeHeaderKeyByte(b) == ~LegalHeaderKeyByte(b) \/ b = "%"

EscapedByte(b) == IF ShouldEscapeHeaderKeyByte(b) THEN <<"%">> \o Hex[b] ELSE <<b>>

HeaderKeyEscape(key) == FlattenSeq([i \in DOMAIN key |-> EscapedByte(key[i])])

(* url.PathUnescape as the requestheader and impersonation filters use it: *)
(* a malformed escape leaves the whole suffix as it is.                    *)
DigitsAt(s, i) == <<s[i + 1], s[i + 2]>>

WellEscaped(s) ==
    \A i \in DOMAIN s : s[i] = "%" =>
        i + 2 <= Len(s) /\ \E b \in Byte : Hex[b] = DigitsAt(s, i)

IsHexDigitOf(s, i) == (i > 1 /\ s[i - 1] = "%") \/ (i > 2 /\ s[i - 2] = "%")

UnescapedAt(s, i) ==
    CASE s[i] = "%" -> <<CHOOSE b \in Byte : Hex[b] = DigitsAt(s, i)>>
      [] s[i] # "%" /\ IsHexDigitOf(s, i) -> << >>
      [] OTHER -> <<s[i]>>

UnescapeExtraKey(s) ==
    IF WellEscaped(s) THEN FlattenSeq([i \in DOMAIN s |-> UnescapedAt(s, i)]) ELSE s

----------------------------------------------------------------------------
(* Identities in headers                                                   *)

RemoteExtra == "x-remote-extra-"
ImpersonateExtra == "impersonate-extra-"

(* The names with prefix X-Remote- and those with prefix Impersonate-.     *)
RemoteFamily == {RemoteExtra, "x-remote-user", "x-remote-uid", "x-remote-group", "x-remote-"}
ImpersonateFamily ==
    {ImpersonateExtra, "impersonate-user", "impersonate-uid", "impersonate-group", "impersonate-"}

Authorization == Plain("authorization")
RemoteNames(h) == { n \in DOMAIN h : n[1] \in RemoteFamily }
ImpersonateNames(h) == { n \in DOMAIN h : n[1] \in ImpersonateFamily }

(* A Go map walked in some order: the lines of each entry are appended     *)
(* under the entry's new name, which several entries may have.             *)
Gather(lines, order, names) ==
    [name \in { names[i] : i \in DOMAIN order } |->
       FlattenSeq([i \in DOMAIN order |-> IF names[i] = name THEN lines[order[i]] ELSE << >>])]

(* The extra keys that the extra headers h decode to, with their values.   *)
Extras(h, order) == Gather(h, order, [i \in DOMAIN order |-> UnescapeExtraKey(order[i][2])])

(* The users that headers of the given family may be decoded to.           *)
Decode(h, name, uid, group, prefix) ==
    { [username |-> Get(h, Plain(name)),
       uid |-> Get(h, Plain(uid)),
       groups |-> Values(h, Plain(group)),
       extra |-> Extras(Restrict(h, WithPrefix(h, prefix)), order)] :
        order \in SetToSeqs(WithPrefix(h, prefix)) }

RemoteUsers(h) ==
    Decode(h, "x-remote-user", "x-remote-uid", "x-remote-group", RemoteExtra)

ImpersonatedUsers(h) ==
    Decode(h, "impersonate-user", "impersonate-uid", "impersonate-group", ImpersonateExtra)

----------------------------------------------------------------------------
(* BackendIdentity.Apply                                                   *)

StripImpersonationHeaders(h) == Del(h, {Authorization} \cup ImpersonateNames(h))

(* Mutant: a fixed list of names, which no prefix is part of.              *)
MutantStripFixedNames(h) ==
    Del(h, {Authorization} \cup { n \in RemoteNames(h) \cup ImpersonateNames(h) : n[2] = << >> })

StripInboundIdentityHeaders(h) ==
    Del(h, {Authorization} \cup RemoteNames(h) \cup ImpersonateNames(h))

Forwarded(config, key) == config.forwardAllExtras \/ key \in config.extraKeys

(* The extra keys that reach the backend: those let through, with values.  *)
ForwardedKeys(u, config) ==
    { key \in DOMAIN u.extra : Forwarded(config, key) /\ u.extra[key] # << >> }

(* Header.Add folds the name, so that two keys may come under one.         *)
ImpersonateExtras(u, order) ==
    Gather(u.extra, order,
           [i \in DOMAIN order |-> <<ImpersonateExtra, ToLower(HeaderKeyEscape(order[i]))>>])

ImpersonateUser(h, u, config, order) ==
    LET named == SetHeader(h, Plain("impersonate-user"), <<u.username>>)
        grouped == IF u.groups = << >> THEN named
                   ELSE SetHeader(named, Plain("impersonate-group"), u.groups)
        identified == IF config.forwardUID /\ u.uid # ""
                        THEN SetHeader(grouped, Plain("impersonate-uid"), <<u.uid>>)
                        ELSE grouped
    IN SetHeaders(identified, ImpersonateExtras(u, order))

(* The orders in which Apply may walk user.Extra.                          *)
Walks(u, config) == SetToSeqs(ForwardedKeys(u, config))

Apply(h, u, config, order) ==
    IF config.mode = "impersonation"
      THEN ImpersonateUser(StripInboundIdentityHeaders(h), u, config, order)
      ELSE StripImpersonationHeaders(h)

----------------------------------------------------------------------------
(* Hop-by-hop and forwarding headers                                       *)

Connection == Plain("connection")
Upgrade == Plain("upgrade")
TE == Plain("te")
UserAgent == Plain("user-agent")
ForwardedFor == Plain("x-forwarded-for")
ForwardingHeaders ==
    {ForwardedFor, Plain("forwarded"), Plain("x-forwarded-host"), Plain("x-forwarded-proto")}

(* Of the nine names of hopByHop(), these stand for all.                   *)
HopByHop == {Connection, Upgrade, TE, Plain("keep-alive")}

(* The names the Connection header lists, whichever they are.              *)
ConnectionTokens(h) == ToSet(Values(h, Connection))

(* Mutant: Connection is deleted before its tokens are read.               *)
MutantStripReadsLate(h) == Del(h, HopByHop)

StripHopByHopHeaders(h) == Del(h, HopByHop \cup ConnectionTokens(h))

(* header.Get sees the first line only, and header.Set replaces them all.  *)
AppendForwardedFor(h, host) ==
    IF host = "" THEN h
    ELSE SetHeader(h, ForwardedFor,
           IF Values(h, ForwardedFor) = << >> THEN << <<host>> >>
           ELSE << Append(h[ForwardedFor][1], host) >>)

(* Mutant: nobody names the peer.                                          *)
MutantBuildNamesNoPeer(h, remote, u, config, order) ==
    Apply(StripHopByHopHeaders(h), u, config, order)

(* buildUpstreamRequest                                                    *)
BuildUpstreamRequest(h, remote, u, config, order) ==
    Apply(AppendForwardedFor(StripHopByHopHeaders(h), remote), u, config, order)

(* httputil.ReverseProxy: before it calls Rewrite, it gives its clone back *)
(* what a backend must know of trailers and of an upgrade.                 *)
IsUpgrade(h) == Upgrade \in ConnectionTokens(h) /\ Get(h, Upgrade) # ""

WantsTrailers(h) == "trailers" \in ToSet(Values(h, TE))

Restored(h) ==
    [n \in (IF WantsTrailers(h) THEN {TE} ELSE {})
             \cup (IF IsUpgrade(h) THEN {Connection, Upgrade} ELSE {}) |->
       CASE n = TE -> <<"trailers">>
         [] n = Connection -> <<Upgrade>>
         [] n = Upgrade -> <<Get(h, Upgrade)>>]

ReverseProxyOut(h) == Del(SetHeaders(StripHopByHopHeaders(h), Restored(h)), ForwardingHeaders)

(* Rewrite                                                                 *)
Rewrite(h, remote, u, config, order) ==
    Apply(AppendForwardedFor(ReverseProxyOut(h), remote), u, config, order)

(* httputil.ReverseProxy, after Rewrite: an empty User-Agent keeps the     *)
(* transport from adding its own.                                          *)
NoDefaultAgent(h) == IF UserAgent \in DOMAIN h THEN h ELSE SetHeader(h, UserAgent, <<"">>)

DefaultAgent == "Go-http-client"

(* net/http's transport writes one User-Agent: the first line of the map,  *)
(* none if that is empty, and its own if the map has none.                 *)
Transport(h) ==
    LET agent == IF UserAgent \in DOMAIN h THEN Get(h, UserAgent) ELSE DefaultAgent
    IN IF agent = "" THEN Del(h, {UserAgent}) ELSE SetHeader(h, UserAgent, <<agent>>)

(* What each path has the backend receive.                                 *)
AuditedRequest(h, remote, u, config, order) ==
    Transport(BuildUpstreamRequest(h, remote, u, config, order))

PassthroughRequest(h, remote, u, config, order) ==
    Transport(NoDefaultAgent(Rewrite(h, remote, u, config, order)))

----------------------------------------------------------------------------
(* The target URL                                                          *)

EscapedPath(u) == IF u.rawPath = << >> THEN u.path ELSE u.rawPath

Unescape(path) == [i \in DOMAIN path |-> IF path[i] = "%2f" THEN "/" ELSE path[i]]

(* A parsed URL: url.Parse, and setPath wherever a URL is put together.    *)
URL(escaped, query) ==
    LET path == Unescape(escaped)
    IN [path |-> path, rawPath |-> IF path = escaped THEN << >> ELSE escaped, query |-> query]

(* URL.ResolveReference of an absolute path.                               *)
ResolveReference(base, ref) == URL(EscapedPath(ref), ref.query)

(* Mutant: the reference is built from the decoded path.                   *)
MutantUpstreamURLDecoded(base, u) ==
    ResolveReference(base, [path |-> u.path, rawPath |-> << >>, query |-> u.query])

UpstreamURL(base, u) ==
    ResolveReference(base, [path |-> u.path, rawPath |-> u.rawPath, query |-> u.query])

Parsable(query) == { param \in query : param # "%zz" }

(* ProxyRequest.SetURL, after the ReverseProxy has dropped the parameters  *)
(* that do not parse.                                                      *)
SetURL(base, u) ==
    LET prefix == EscapedPath(base)
        joined == IF prefix # << >> /\ Last(prefix) = "/" THEN Front(prefix) ELSE prefix
    IN URL(joined \o EscapedPath(u), base.query \cup Parsable(u.query))

----------------------------------------------------------------------------
(* The answer's headers                                                    *)

SwitchingProtocols == 101

(* Mutant: Set for Add.                                                    *)
MutantCopyHeadersSets(dst, src) ==
    SetHeaders(dst, [n \in DOMAIN src |-> <<Last(src[n])>>])

CopyHeaders(dst, src) == SetHeaders(dst, [n \in DOMAIN src |-> Values(dst, n) \o src[n]])

(* httputil.ReverseProxy: a 101 is handed on as it is.                     *)
ReverseProxyReply(a) ==
    IF a.status = SwitchingProtocols THEN a.header ELSE StripHopByHopHeaders(a.header)

----------------------------------------------------------------------------
NoUser == [username |-> "", uid |-> "", groups |-> << >>, extra |-> << >>]
NoURL == [path |-> << >>, rawPath |-> << >>, query |-> {}]
NoAnswer == [status |-> 0, header |-> << >>]

Init ==
    /\ pc = "arrived"
    /\ identity \in Identities
    /\ backendURL \in Backends
    /\ inbound \in Inbound
    /\ header = inbound.header
    /\ user = NoUser
    /\ via = "none"
    /\ outbound = << >>
    /\ target = NoURL
    /\ answer = NoAnswer
    /\ reply = << >>

(* Mutant: the authenticator is given r itself, and it deletes the headers *)
(* it has read.                                                            *)
MutantFromRequestNoClone ==
    /\ pc = "arrived"
    /\ pc' = "authenticated"
    /\ user' \in RemoteUsers(header)
    /\ header' = Del(header, RemoteNames(header))
    /\ UNCHANGED <<inputVars, via, outbound, target, answer, reply>>

(* FromRequest: the authenticator works, and deletes, on a clone.          *)
FromRequest ==
    /\ pc = "arrived"
    /\ pc' = "authenticated"
    /\ user' \in RemoteUsers(header)
    /\ UNCHANGED <<inputVars, header, via, outbound, target, answer, reply>>

ForwardAudited ==
    /\ pc = "authenticated"
    /\ pc' = "forwarded"
    /\ via' = "audited"
    /\ \E order \in Walks(user, identity) :
         outbound' = AuditedRequest(header, inbound.remote, user, identity, order)
    /\ target' = UpstreamURL(backendURL, inbound.url)
    /\ UNCHANGED <<inputVars, header, user, answer, reply>>

ForwardPassthrough ==
    /\ pc = "authenticated"
    /\ pc' = "forwarded"
    /\ via' = "passthrough"
    /\ \E order \in Walks(user, identity) :
         outbound' = PassthroughRequest(header, inbound.remote, user, identity, order)
    /\ target' = SetURL(backendURL, inbound.url)
    /\ UNCHANGED <<inputVars, header, user, answer, reply>>

(* The backend switches protocols only where it was asked to.              *)
BackendAnswers(a) ==
    /\ pc = "forwarded"
    /\ a.status = SwitchingProtocols => IsUpgrade(outbound)
    /\ pc' = "answered"
    /\ answer' = a
    /\ UNCHANGED <<inputVars, header, user, via, outbound, target, reply>>

(* serveAudited relays a clone of the answer's header.                     *)
RelayAudited ==
    /\ pc = "answered"
    /\ via = "audited"
    /\ pc' = "relayed"
    /\ reply' = CopyHeaders(reply, StripHopByHopHeaders(answer.header))
    /\ UNCHANGED <<inputVars, header, user, via, outbound, target, answer>>

RelayPassthrough ==
    /\ pc = "answered"
    /\ via = "passthrough"
    /\ pc' = "relayed"
    /\ reply' = ReverseProxyReply(answer)
    /\ UNCHANGED <<inputVars, header, user, via, outbound, target, answer>>

Next ==
    \/ FromRequest
    \/ ForwardAudited
    \/ ForwardPassthrough
    \/ \E a \in Answers : BackendAnswers(a)
    \/ RelayAudited
    \/ RelayPassthrough

Spec == Init /\ [][Next]_vars

----------------------------------------------------------------------------
(* Properties                                                              *)

Done == pc \in {"forwarded", "answered", "relayed"}

(* The user as the configured impersonation may present it, its extra keys *)
(* in lower case and the values of those that fold together appended.      *)
Presented(u, config, order) ==
    [u EXCEPT !.uid = IF config.forwardUID THEN @ ELSE "",
              !.extra = Gather(@, order, [i \in DOMAIN order |-> ToLower(order[i])])]

(* The user as it should be presented.                                     *)
Projected(u, config) ==
    [u EXCEPT !.uid = IF config.forwardUID THEN @ ELSE "",
              !.extra = Restrict(@, ForwardedKeys(u, config))]

(* The connection lists none of the headers the front proxy signs for.     *)
ListsNoIdentity(h) == ConnectionTokens(h) \cap RemoteNames(h) = {}

(* On either path, and after both header codecs, the backend decodes the   *)
(* very user the audit event will name, and nobody else.  In impersonation *)
(* mode it does as far as the configuration lets the user through, with    *)
(* every extra key intact but for its case, and no X-Remote-* header of    *)
(* any name gets past; in forwarding mode the X-Remote-* headers still     *)
(* decode to that user, unless the connection listed one of them, and no   *)
(* Impersonate-* header gets past.  No Authorization does in either.       *)
BackendDecodesUser ==
    Done =>
        /\ Authorization \notin DOMAIN outbound
        /\ IF identity.mode = "impersonation"
             THEN /\ \E order \in Walks(user, identity) :
                       ImpersonatedUsers(outbound) = {Presented(user, identity, order)}
                  /\ (\A key \in ForwardedKeys(user, identity) : ToLower(key) = key) =>
                       ImpersonatedUsers(outbound) = {Projected(user, identity)}
                  /\ RemoteNames(outbound) = {}
             ELSE /\ ListsNoIdentity(inbound.header) => user \in RemoteUsers(outbound)
                  /\ ImpersonateNames(outbound) = {}

(* Nothing else is lost or added: every header that is neither about       *)
(* identity nor about the connection arrives with its values, and no       *)
(* header of the inbound connection does, but that the passthrough path    *)
(* hands on an upgrade and the wish for trailers.  The client's User-Agent *)
(* arrives; for a client without one only the audited path adds its own.   *)
EndToEndHeadersArrive ==
    Done =>
        LET h == inbound.header
            hop == HopByHop \cup ConnectionTokens(h)
            sentOn(g) == DOMAIN g \ ({Authorization, UserAgent} \cup ForwardingHeaders
                                       \cup RemoteNames(g) \cup ImpersonateNames(g))
            upgrade == IF IsUpgrade(h) THEN {Connection, Upgrade} ELSE {}
            trailers == IF WantsTrailers(h) THEN {TE} ELSE {}
            restored == IF via = "passthrough" THEN upgrade \cup trailers ELSE {}
            expected == (sentOn(h) \ hop) \cup restored
        IN /\ sentOn(outbound) = expected
           /\ \A n \in expected \ restored : outbound[n] = h[n]
           /\ TE \in restored => outbound[TE] = <<"trailers">>
           /\ Upgrade \in restored => IsUpgrade(outbound) /\ Get(outbound, Upgrade) = Get(h, Upgrade)
           /\ Get(outbound, UserAgent) =
                IF UserAgent \in DOMAIN h \ hop THEN Get(h, UserAgent)
                ELSE IF via = "audited" THEN DefaultAgent ELSE ""

(* The backend is asked for what the client asked for, on either path: the *)
(* path arrives to the byte, escaped slashes too, behind nothing but the   *)
(* backend URL's own path, and every parameter that parses arrives; no     *)
(* parameter is added but the backend URL's own.                           *)
TargetKeepsRequest ==
    Done =>
        LET asked == EscapedPath(inbound.url)
            sent == EscapedPath(target)
            added == Len(sent) - Len(asked)
        IN /\ added >= 0
           /\ SubSeq(sent, added + 1, Len(sent)) = asked
           /\ SubSeq(sent, 1, added) = SubSeq(EscapedPath(backendURL), 1, added)
           /\ Parsable(inbound.url.query) \subseteq target.query
           /\ target.query \subseteq inbound.url.query \cup backendURL.query

(* The client gets the headers of the answer, each with all its values,    *)
(* and nothing about the proxy's own connection to the backend; after an   *)
(* upgrade it gets the handshake as it is.  Both paths answer alike.       *)
ReplyKeepsHeaders ==
    pc = "relayed" =>
        LET h == answer.header
            expected == IF answer.status = SwitchingProtocols THEN DOMAIN h
                        ELSE DOMAIN h \ (HopByHop \cup ConnectionTokens(h))
        IN reply = [n \in expected |-> h[n]]

(* Which path a request takes makes no difference to the headers the       *)
(* backend sees, written by hand on one and by the library on the other,   *)
(* but for these: an upgrade and the wish for trailers, which only the     *)
(* passthrough path hands on; the User-Agent of a request that names none; *)
(* and the forwarding headers the request brought along.  Of those only    *)
(* the audited path sends on any, and appends the peer to the first line   *)
(* of X-Forwarded-For, where the passthrough path names the peer alone:    *)
(* the two match "exactly", as Rewrite has it (handler.go:160-163), only   *)
(* for a request that brings none.                                         *)
PathsForwardAlike ==
    pc = "authenticated" =>
        \A order \in Walks(user, identity) :
            LET audited == AuditedRequest(header, inbound.remote, user, identity, order)
                passed == PassthroughRequest(header, inbound.remote, user, identity, order)
                differing == (ForwardingHeaders \cap DOMAIN header) \cup DOMAIN Restored(header)
                               \cup ({UserAgent} \ (DOMAIN header \ ConnectionTokens(header)))
                brought == StripHopByHopHeaders(header)
                chain == IF Values(brought, ForwardedFor) = << >> THEN << >>
                         ELSE brought[ForwardedFor][1]
                peer == inbound.remote
            IN /\ Del(audited, differing) = Del(passed, differing)
               /\ \A n \in ForwardingHeaders : n # ForwardedFor \/ peer = "" =>
                    Values(audited, n) = Values(brought, n) /\ Values(passed, n) = << >>
               /\ peer # "" =>
                    /\ Values(audited, ForwardedFor) = << Append(chain, peer) >>
                    /\ Values(passed, ForwardedFor) = << <<peer>> >>

----------------------------------------------------------------------------
(* A statement of the repository that the code does not keep               *)



(* docs/ARCHITECTURE.md:118: "HTTP upgrade requests reach the backend      *)
(* unchanged".                                                             *)
UpgradeReachesBackend ==
    Done /\ IsUpgrade(inbound.header) => IsUpgrade(outbound)
=============================================================================
