----------------------- MODULE RequestForwardingProofs -----------------------
(***************************************************************************)
(* What reaches the backend and what comes back, for any headers, URLs,    *)
(* users and configurations: nothing end to end is lost, no identity of    *)
(* the client gets past, both paths forward alike, and the backend is      *)
(* asked for what the client asked for.                                    *)
(*                                                                         *)
(* The argument goes name by name.  Every operation on a header map is     *)
(* pointwise: what it leaves under a name depends on what was there under  *)
(* that name, and Same says that two maps have the same there.             *)
(***************************************************************************)
EXTENDS RequestForwarding, SequenceTheorems, FiniteSetTheorems, WellFoundedInduction, TLAPS

Same(g, h, n) == (n \in DOMAIN g <=> n \in DOMAIN h) /\ (n \in DOMAIN h => g[n] = h[n])

(* Del takes the names out.                                                *)
LEMMA DelDomain == ASSUME NEW h, NEW S PROVE DOMAIN Del(h, S) = DOMAIN h \ S
BY DEF Del, Restrict

(* Away from the names it is given, Del changes nothing.                   *)
LEMMA DelSame ==
    ASSUME NEW h, NEW S, NEW n, n \notin S PROVE Same(Del(h, S), h, n)
BY DEF Del, Restrict, Same

(* Away from the new names SetHeaders changes nothing, and it keeps two    *)
(* maps the same wherever they are.                                        *)
LEMMA SetSame ==
    ASSUME NEW g, NEW h, NEW more, NEW n
    PROVE  /\ n \notin DOMAIN more => Same(SetHeaders(h, more), h, n)
           /\ Same(g, h, n) => Same(SetHeaders(g, more), SetHeaders(h, more), n)
<1>1. ASSUME n \notin DOMAIN more PROVE Same(SetHeaders(h, more), h, n)
  BY <1>1 DEF SetHeaders, Same
<1>2. ASSUME Same(g, h, n) PROVE Same(SetHeaders(g, more), SetHeaders(h, more), n)
  BY <1>2 DEF SetHeaders, Same
<1> QED BY <1>1, <1>2

(* The same for one line.                                                  *)
LEMMA SetHeaderSame ==
    ASSUME NEW g, NEW h, NEW name, NEW values, NEW n
    PROVE  /\ DOMAIN SetHeader(h, name, values) = DOMAIN h \cup {name}
           /\ SetHeader(h, name, values)[name] = values
           /\ n # name => Same(SetHeader(h, name, values), h, n)
           /\ Same(g, h, n) => Same(SetHeader(g, name, values), SetHeader(h, name, values), n)
<1> DEFINE more == [m \in {name} |-> values]
<1>1. DOMAIN more = {name} /\ more[name] = values
  OBVIOUS
<1>2. \A x : SetHeader(x, name, values) = SetHeaders(x, more)
  BY DEF SetHeader
<1> HIDE DEF more
<1>3. /\ DOMAIN SetHeaders(h, more) = DOMAIN h \cup {name}
      /\ SetHeaders(h, more)[name] = values
  BY <1>1 DEF SetHeaders
<1>4. n # name => Same(SetHeaders(h, more), h, n)
  BY <1>1, SetSame
<1>5. Same(g, h, n) => Same(SetHeaders(g, more), SetHeaders(h, more), n)
  BY SetSame
<1> QED BY <1>2, <1>3, <1>4, <1>5

(* The parts of it.                                                        *)
LEMMA SetHeaderAt ==
    ASSUME NEW h, NEW name, NEW values
    PROVE  name \in DOMAIN SetHeader(h, name, values) /\ SetHeader(h, name, values)[name] = values
BY DEF SetHeader, SetHeaders

(* Two maps that are the same under a name are so with one more line.      *)
LEMMA SetHeaderBoth ==
    ASSUME NEW g, NEW h, NEW name, NEW values, NEW n, Same(g, h, n)
    PROVE  Same(SetHeader(g, name, values), SetHeader(h, name, values), n)
BY SetHeaderSame

(* Same is an equivalence.                                                 *)
LEMMA SameTransitive ==
    ASSUME NEW f, NEW g, NEW h, NEW n, Same(f, g, n), Same(g, h, n) PROVE Same(f, h, n)
BY DEF Same

----------------------------------------------------------------------------
(* BackendIdentity.Apply                                                   *)

IsIdentity(n) == n = Authorization \/ n[1] \in RemoteFamily \/ n[1] \in ImpersonateFamily

(* The families of identity headers, by their names alone.                 *)
LEMMA Families ==
    ASSUME NEW h
    PROVE  /\ RemoteNames(h) = { n \in DOMAIN h : n[1] \in RemoteFamily }
           /\ ImpersonateNames(h) = { n \in DOMAIN h : n[1] \in ImpersonateFamily }
BY DEF RemoteNames, ImpersonateNames

(* What ImpersonateUser writes is under the names of its own family, and   *)
(* depends on the user and the configuration alone.                        *)
LEMMA ImpersonateSame ==
    ASSUME NEW g, NEW h, NEW u, NEW config, NEW order, NEW n
    PROVE  /\ n[1] \notin ImpersonateFamily => Same(ImpersonateUser(h, u, config, order), h, n)
           /\ Same(g, h, n) => Same(ImpersonateUser(g, u, config, order), ImpersonateUser(h, u, config, order), n)
<1> DEFINE named(x) == SetHeader(x, Plain("impersonate-user"), <<u.username>>)
           grouped(x) == IF u.groups = << >> THEN named(x)
                         ELSE SetHeader(named(x), Plain("impersonate-group"), u.groups)
           identified(x) == IF config.forwardUID /\ u.uid # ""
                              THEN SetHeader(grouped(x), Plain("impersonate-uid"), <<u.uid>>)
                              ELSE grouped(x)
           extras == ImpersonateExtras(u, order)
<1>1. \A x : ImpersonateUser(x, u, config, order) = SetHeaders(identified(x), extras)
  BY DEF ImpersonateUser
<1>2. \A m \in DOMAIN extras : m[1] \in ImpersonateFamily
  BY DEF ImpersonateFamily, ImpersonateExtras, Gather
<1>3. /\ Plain("impersonate-user")[1] \in ImpersonateFamily
      /\ Plain("impersonate-group")[1] \in ImpersonateFamily
      /\ Plain("impersonate-uid")[1] \in ImpersonateFamily
  BY DEF Plain, ImpersonateFamily
<1> HIDE DEF extras
<1>4. ASSUME n[1] \notin ImpersonateFamily PROVE Same(ImpersonateUser(h, u, config, order), h, n)
  <2>1. Same(named(h), h, n)
    BY <1>3, <1>4, SetHeaderSame
  <2> HIDE DEF named
  <2>2. Same(grouped(h), h, n)
    BY <1>3, <1>4, <2>1, SetHeaderSame, SameTransitive
  <2> HIDE DEF grouped
  <2>3. Same(identified(h), h, n)
    BY <1>3, <1>4, <2>2, SetHeaderSame, SameTransitive
  <2> HIDE DEF identified
  <2>4. Same(SetHeaders(identified(h), extras), identified(h), n)
    BY <1>2, <1>4, SetSame
  <2> QED BY <1>1, <2>3, <2>4, SameTransitive
<1>5. ASSUME Same(g, h, n)
      PROVE  Same(ImpersonateUser(g, u, config, order), ImpersonateUser(h, u, config, order), n)
  <2>1. Same(named(g), named(h), n)
    BY <1>5, SetHeaderSame
  <2> HIDE DEF named
  <2>2. Same(grouped(g), grouped(h), n)
    BY <2>1, SetHeaderSame
  <2> HIDE DEF grouped
  <2>3. Same(identified(g), identified(h), n)
    BY <2>2, SetHeaderSame
  <2> HIDE DEF identified
  <2> QED BY <1>1, <2>3, SetSame
<1> QED BY <1>4, <1>5

(* Headers that are about no identity pass Apply as they are.              *)
LEMMA ApplyOther ==
    ASSUME NEW h, NEW u, NEW config, NEW order, NEW n, ~IsIdentity(n)
    PROVE  Same(Apply(h, u, config, order), h, n)
<1>1. /\ Same(StripInboundIdentityHeaders(h), h, n)
      /\ Same(StripImpersonationHeaders(h), h, n)
  BY Families, DelSame DEF StripInboundIdentityHeaders, StripImpersonationHeaders, IsIdentity
<1>2. Same(ImpersonateUser(StripInboundIdentityHeaders(h), u, config, order),
           StripInboundIdentityHeaders(h), n)
  BY ImpersonateSame DEF IsIdentity
<1> QED BY <1>1, <1>2, SameTransitive DEF Apply

(* Apply leaves under a name what depends on that name alone.              *)
LEMMA ApplySame ==
    ASSUME NEW g, NEW h, NEW u, NEW config, NEW order, NEW n, Same(g, h, n)
    PROVE  Same(Apply(g, u, config, order), Apply(h, u, config, order), n)
<1>1. ASSUME NEW S, NEW T, n \in S <=> n \in T PROVE Same(Del(g, S), Del(h, T), n)
  <2>1. CASE n \in S
    BY <1>1, <2>1 DEF Del, Restrict, Same
  <2>2. CASE n \notin S
    <3>1. Same(Del(g, S), g, n) /\ Same(Del(h, T), h, n)
      BY <1>1, <2>2, DelSame
    <3> QED BY <3>1 DEF Same
  <2> QED BY <2>1, <2>2
<1>2. CASE n \in DOMAIN h
  <2>1. n \in DOMAIN g
    BY <1>2 DEF Same
  <2>2. /\ n \in RemoteNames(g) <=> n \in RemoteNames(h)
        /\ n \in ImpersonateNames(g) <=> n \in ImpersonateNames(h)
    BY <1>2, <2>1, Families
  <2>3. /\ Same(StripInboundIdentityHeaders(g), StripInboundIdentityHeaders(h), n)
        /\ Same(StripImpersonationHeaders(g), StripImpersonationHeaders(h), n)
    BY <1>1, <2>2 DEF StripInboundIdentityHeaders, StripImpersonationHeaders
  <2> QED BY <2>3, ImpersonateSame DEF Apply
<1>3. CASE n \notin DOMAIN h
  <2>1. n \notin DOMAIN g
    BY <1>3 DEF Same
  <2>2. /\ Same(StripInboundIdentityHeaders(g), StripInboundIdentityHeaders(h), n)
        /\ Same(StripImpersonationHeaders(g), StripImpersonationHeaders(h), n)
    BY <1>3, <2>1 DEF StripInboundIdentityHeaders, StripImpersonationHeaders, Del, Restrict, Same
  <2> QED BY <2>2, ImpersonateSame DEF Apply
<1> QED BY <1>2, <1>3

(* No credential and no identity header but the mode's own comes out of    *)
(* Apply, whatever went in; what impersonation says is the same for every  *)
(* header map it is given.                                                 *)
LEMMA ApplyClean ==
    ASSUME NEW h, NEW u, NEW config, NEW order
    PROVE  /\ Authorization \notin DOMAIN Apply(h, u, config, order)
           /\ config.mode = "impersonation" =>
                /\ RemoteNames(Apply(h, u, config, order)) = {}
                /\ \A n : n[1] \in ImpersonateFamily =>
                     Same(Apply(h, u, config, order), ImpersonateUser(<< >>, u, config, order), n)
           /\ config.mode # "impersonation" => ImpersonateNames(Apply(h, u, config, order)) = {}
<1>1. Authorization[1] \notin ImpersonateFamily /\ RemoteFamily \cap ImpersonateFamily = {}
  BY DEF Authorization, Plain, RemoteFamily, ImpersonateFamily, RemoteExtra, ImpersonateExtra
<1>2. CASE config.mode = "impersonation"
  <2> DEFINE stripped == StripInboundIdentityHeaders(h)
             out == ImpersonateUser(stripped, u, config, order)
  <2>1. Apply(h, u, config, order) = out
    BY <1>2 DEF Apply
  <2>2. DOMAIN stripped = DOMAIN h \ ({Authorization} \cup RemoteNames(h) \cup ImpersonateNames(h))
    BY DelDomain DEF StripInboundIdentityHeaders
  <2> HIDE DEF stripped
  <2>3. Authorization \notin DOMAIN out
    BY <1>1, <2>2, ImpersonateSame DEF Same
  <2>4. ASSUME NEW n \in DOMAIN out, n[1] \in RemoteFamily PROVE FALSE
    <3>1. n \in DOMAIN stripped
      BY <1>1, <2>4, ImpersonateSame DEF Same
    <3> QED BY <2>2, <2>4, <3>1, Families
  <2>5. ASSUME NEW n, n[1] \in ImpersonateFamily
        PROVE  Same(out, ImpersonateUser(<< >>, u, config, order), n)
    <3>1. n \notin DOMAIN stripped
      BY <2>2, <2>5, Families
    <3>2. Same(stripped, << >>, n)
      BY <3>1 DEF Same
    <3> QED BY <3>2, ImpersonateSame
  <2>6. RemoteNames(out) = {}
    BY <2>4, Families
  <2> QED BY <1>2, <2>1, <2>3, <2>5, <2>6
<1>3. CASE config.mode # "impersonation"
  <2>1. Apply(h, u, config, order) = StripImpersonationHeaders(h)
    BY <1>3 DEF Apply
  <2>2. DOMAIN StripImpersonationHeaders(h) = DOMAIN h \ ({Authorization} \cup ImpersonateNames(h))
    BY DelDomain DEF StripImpersonationHeaders
  <2> QED BY <1>3, <2>1, <2>2, Families
<1> QED BY <1>2, <1>3

----------------------------------------------------------------------------
(* The two paths                                                           *)

(* The headers of a connection: the fixed ones and those it lists.         *)
Hop(h) == HopByHop \cup ConnectionTokens(h)

(* Stripping leaves what is not of the connection.                         *)
LEMMA StripDomain ==
    ASSUME NEW h, NEW n
    PROVE  /\ n \in DOMAIN StripHopByHopHeaders(h) <=> n \in DOMAIN h /\ n \notin Hop(h)
           /\ n \in DOMAIN StripHopByHopHeaders(h) => StripHopByHopHeaders(h)[n] = h[n]
BY DEF StripHopByHopHeaders, Hop, Del, Restrict

(* appendForwardedFor touches nothing but X-Forwarded-For.                 *)
LEMMA AppendSame ==
    ASSUME NEW h, NEW host, NEW n, n # ForwardedFor
    PROVE  Same(AppendForwardedFor(h, host), h, n)
<1>1. Same(h, h, n)
  BY DEF Same
<1> QED BY <1>1, SetHeaderSame DEF AppendForwardedFor

(* The names the two paths have their own ways with are about no identity, *)
(* and apart.                                                              *)
LEMMA OtherNames ==
    /\ \A n \in HopByHop \cup ForwardingHeaders \cup {UserAgent} : ~IsIdentity(n)
    /\ HopByHop \cap ForwardingHeaders = {}
    /\ Connection \in HopByHop /\ Upgrade \in HopByHop /\ TE \in HopByHop
    /\ Connection # Upgrade /\ Connection # TE /\ Upgrade # TE
    /\ ForwardedFor \in ForwardingHeaders
    /\ UserAgent \notin HopByHop \cup ForwardingHeaders
<1> USE DEF HopByHop, ForwardingHeaders, ForwardedFor, Connection, Upgrade, TE, UserAgent, Plain
<1>1. \A n \in HopByHop \cup ForwardingHeaders \cup {UserAgent} : ~IsIdentity(n)
  BY DEF IsIdentity, Authorization, RemoteFamily, ImpersonateFamily, RemoteExtra, ImpersonateExtra
<1> QED BY <1>1

(* An identity header is none of them.                                     *)
LEMMA IdentityNames ==
    ASSUME NEW n, n[1] \in RemoteFamily \/ n[1] \in ImpersonateFamily
    PROVE  n \notin HopByHop /\ n \notin ForwardingHeaders /\ n # UserAgent /\ n # Authorization
<1>1. IsIdentity(n)
  BY DEF IsIdentity
<1>2. n # Authorization
  BY DEF Authorization, Plain, RemoteFamily, ImpersonateFamily, RemoteExtra, ImpersonateExtra
<1> QED BY <1>1, <1>2, OtherNames

(* Headers that are the same under a name are so after appendForwardedFor. *)
LEMMA AppendBoth ==
    ASSUME NEW g, NEW h, NEW host, NEW n, Same(g, h, n)
    PROVE  Same(AppendForwardedFor(g, host), AppendForwardedFor(h, host), n)
<1>1. CASE n # ForwardedFor
  <2>1. Same(AppendForwardedFor(g, host), g, n) /\ Same(AppendForwardedFor(h, host), h, n)
    BY <1>1, AppendSame
  <2> QED BY <2>1 DEF Same
<1>2. CASE n = ForwardedFor
  <2>1. CASE host = ""
    BY <2>1 DEF AppendForwardedFor
  <2>2. CASE host # ""
    <3> DEFINE lines(x) == IF Values(x, ForwardedFor) = << >> THEN << <<host>> >>
                           ELSE << Append(x[ForwardedFor][1], host) >>
    <3>1. \A x : AppendForwardedFor(x, host) = SetHeader(x, ForwardedFor, lines(x))
      BY <2>2 DEF AppendForwardedFor
    <3>2. lines(g) = lines(h)
      BY <1>2 DEF Same, Values
    <3> HIDE DEF lines
    <3>3. /\ AppendForwardedFor(g, host) = SetHeader(g, ForwardedFor, lines(h))
          /\ AppendForwardedFor(h, host) = SetHeader(h, ForwardedFor, lines(h))
      BY <3>1, <3>2
    <3> DEFINE value == lines(h)
    <3>4. Same(SetHeader(g, ForwardedFor, value), SetHeader(h, ForwardedFor, value), n)
      BY SetHeaderBoth
    <3> QED BY <3>3, <3>4
  <2> QED BY <2>1, <2>2
<1> QED BY <1>1, <1>2

(* The transport writes a User-Agent and leaves the other headers alone,   *)
LEMMA TransportSame ==
    ASSUME NEW g, NEW h, NEW n
    PROVE  /\ n # UserAgent => Same(Transport(h), h, n)
           /\ Same(g, h, n) => Same(Transport(g), Transport(h), n)
<1> DEFINE agent(x) == IF UserAgent \in DOMAIN x THEN Get(x, UserAgent) ELSE DefaultAgent
<1>1. \A x : Transport(x) = IF agent(x) = "" THEN Del(x, {UserAgent})
                            ELSE SetHeader(x, UserAgent, <<agent(x)>>)
  BY DEF Transport
<1>2. Same(g, h, UserAgent) => agent(g) = agent(h)
  BY DEF Same, Get, Values
<1> HIDE DEF agent
<1>3. ASSUME NEW x, n # UserAgent PROVE Same(Transport(x), x, n)
  <2>1. Same(Del(x, {UserAgent}), x, n)
    BY <1>3, DelSame
  <2>2. Same(SetHeader(x, UserAgent, <<agent(x)>>), x, n)
    BY <1>3, SetHeaderSame
  <2> QED BY <1>1, <2>1, <2>2
<1>4. ASSUME Same(g, h, n), n # UserAgent PROVE Same(Transport(g), Transport(h), n)
  <2>1. Same(Transport(g), g, n) /\ Same(Transport(h), h, n)
    BY <1>3, <1>4
  <2> QED BY <1>4, <2>1 DEF Same
<1>5. ASSUME Same(g, h, n), n = UserAgent PROVE Same(Transport(g), Transport(h), n)
  <2>1. agent(g) = agent(h)
    BY <1>2, <1>5
  <2>2. CASE agent(h) = ""
    BY <1>1, <1>5, <2>1, <2>2 DEF Same, Del, Restrict
  <2>3. CASE agent(h) # ""
    <3> DEFINE value == <<agent(h)>>
    <3>1. /\ Transport(g) = SetHeader(g, UserAgent, value)
          /\ Transport(h) = SetHeader(h, UserAgent, value)
      BY <1>1, <2>1, <2>3
    <3> HIDE DEF value
    <3> QED BY <1>5, <3>1, SetHeaderBoth
  <2> QED BY <2>2, <2>3
<1> QED BY <1>3, <1>4, <1>5

(* namely the client's if it has one and its own if it has none.           *)
LEMMA TransportAgent ==
    ASSUME NEW h
    PROVE  Get(Transport(h), UserAgent) =
             IF UserAgent \in DOMAIN h THEN Get(h, UserAgent) ELSE DefaultAgent
<1> DEFINE agent == IF UserAgent \in DOMAIN h THEN Get(h, UserAgent) ELSE DefaultAgent
<1>1. Transport(h) = IF agent = "" THEN Del(h, {UserAgent}) ELSE SetHeader(h, UserAgent, <<agent>>)
  BY DEF Transport
<1> HIDE DEF agent
<1>2. CASE agent = ""
  <2>0. Transport(h) = Del(h, {UserAgent})
    BY <1>1, <1>2
  <2>1. UserAgent \notin DOMAIN Transport(h)
    BY <2>0 DEF Del, Restrict
  <2> QED BY <1>2, <2>1 DEF Get, Values, agent
<1>3. CASE agent # ""
  <2> DEFINE value == <<agent>>
  <2>0. Transport(h) = SetHeader(h, UserAgent, value)
    BY <1>1, <1>3
  <2>2. value # << >> /\ value[1] = agent
    OBVIOUS
  <2> HIDE DEF value
  <2>1. UserAgent \in DOMAIN Transport(h) /\ Transport(h)[UserAgent] = value
    BY <2>0, SetHeaderAt
  <2>3. Get(Transport(h), UserAgent) = agent
    BY <2>1, <2>2 DEF Get, Values
  <2> QED BY <2>3 DEF agent
<1> QED BY <1>2, <1>3

(* The ReverseProxy keeps it from writing its own.                         *)
LEMMA NoDefaultSame ==
    ASSUME NEW h, NEW n
    PROVE  /\ n # UserAgent => Same(NoDefaultAgent(h), h, n)
           /\ UserAgent \in DOMAIN h => NoDefaultAgent(h) = h
           /\ Get(Transport(NoDefaultAgent(h)), UserAgent) =
                IF UserAgent \in DOMAIN h THEN Get(h, UserAgent) ELSE ""
<1>1. n # UserAgent => Same(NoDefaultAgent(h), h, n)
  <2>1. Same(h, h, n)
    BY DEF Same
  <2> QED BY <2>1, SetHeaderSame DEF NoDefaultAgent
<1>2. CASE UserAgent \in DOMAIN h
  <2>1. NoDefaultAgent(h) = h
    BY <1>2 DEF NoDefaultAgent
  <2> QED BY <1>1, <1>2, <2>1, TransportAgent
<1>3. CASE UserAgent \notin DOMAIN h
  <2> DEFINE value == <<"">>
             set == SetHeader(h, UserAgent, value)
  <2>1. NoDefaultAgent(h) = set
    BY <1>3 DEF NoDefaultAgent
  <2>3. value # << >> /\ value[1] = ""
    OBVIOUS
  <2> HIDE DEF value
  <2>2. UserAgent \in DOMAIN set /\ set[UserAgent] = value
    BY SetHeaderAt
  <2> HIDE DEF set
  <2>4. Get(set, UserAgent) = ""
    BY <2>2, <2>3 DEF Get, Values
  <2>5. Get(Transport(set), UserAgent) = Get(set, UserAgent)
    BY <2>2, TransportAgent
  <2> QED BY <1>1, <1>3, <2>1, <2>4, <2>5
<1> QED BY <1>2, <1>3

(* The audited path builds what is neither of the connection nor of an     *)
(* identity as it came, X-Forwarded-For aside,                             *)
LEMMA BuiltSame ==
    ASSUME NEW h, NEW remote, NEW u, NEW config, NEW order, NEW n,
           ~IsIdentity(n), n # ForwardedFor
    PROVE  Same(BuildUpstreamRequest(h, remote, u, config, order), StripHopByHopHeaders(h), n)
<1> DEFINE stripped == StripHopByHopHeaders(h)
           appended == AppendForwardedFor(stripped, remote)
<1> HIDE DEF stripped
<1>1. Same(appended, stripped, n)
  BY AppendSame
<1> HIDE DEF appended
<1>2. Same(Apply(appended, u, config, order), appended, n)
  BY ApplyOther
<1> QED BY <1>1, <1>2, SameTransitive DEF BuildUpstreamRequest, appended, stripped

(* and sends it so.                                                        *)
LEMMA AuditedSame ==
    ASSUME NEW h, NEW remote, NEW u, NEW config, NEW order, NEW n,
           ~IsIdentity(n), n # ForwardedFor, n # UserAgent
    PROVE  Same(AuditedRequest(h, remote, u, config, order), StripHopByHopHeaders(h), n)
<1> DEFINE built == BuildUpstreamRequest(h, remote, u, config, order)
<1>1. Same(built, StripHopByHopHeaders(h), n)
  BY BuiltSame
<1> HIDE DEF built
<1>2. Same(Transport(built), built, n)
  BY TransportSame
<1> QED BY <1>1, <1>2, SameTransitive DEF AuditedRequest, built

(* So an upgrade never leaves the audited path as one.                     *)
LEMMA AuditedNoUpgrade ==
    ASSUME NEW h, NEW remote, NEW u, NEW config, NEW order
    PROVE  ~IsUpgrade(AuditedRequest(h, remote, u, config, order))
<1>1. Connection \notin DOMAIN StripHopByHopHeaders(h)
  BY OtherNames, StripDomain DEF Hop
<1>2. ~IsIdentity(Connection) /\ Connection # ForwardedFor /\ Connection # UserAgent
  BY OtherNames
<1>3. Connection \notin DOMAIN AuditedRequest(h, remote, u, config, order)
  BY <1>1, <1>2, AuditedSame DEF Same
<1>4. Upgrade \notin ToSet(<< >>)
  BY DEF ToSet
<1> QED BY <1>3, <1>4 DEF IsUpgrade, ConnectionTokens, Values

(* What httputil.ReverseProxy gives back of the connection's headers.      *)
LEMMA RestoredAt ==
    ASSUME NEW h
    PROVE  /\ DOMAIN Restored(h) = (IF WantsTrailers(h) THEN {TE} ELSE {})
                                     \cup (IF IsUpgrade(h) THEN {Connection, Upgrade} ELSE {})
           /\ DOMAIN Restored(h) \subseteq HopByHop
           /\ WantsTrailers(h) => Restored(h)[TE] = <<"trailers">>
           /\ IsUpgrade(h) => /\ Restored(h)[Connection] = <<Upgrade>>
                              /\ Restored(h)[Upgrade] = <<Get(h, Upgrade)>>
<1> DEFINE value(n) == CASE n = TE -> <<"trailers">>
                         [] n = Connection -> <<Upgrade>>
                         [] n = Upgrade -> <<Get(h, Upgrade)>>
           names == (IF WantsTrailers(h) THEN {TE} ELSE {})
                      \cup (IF IsUpgrade(h) THEN {Connection, Upgrade} ELSE {})
<1>1. Restored(h) = [n \in names |-> value(n)]
  BY DEF Restored
<1>2. value(TE) = <<"trailers">>
  BY OtherNames
<1>3. value(Connection) = <<Upgrade>>
  BY OtherNames
<1>4. value(Upgrade) = <<Get(h, Upgrade)>>
  BY OtherNames
<1> HIDE DEF value
<1>5. DOMAIN Restored(h) = names /\ \A n \in names : Restored(h)[n] = value(n)
  BY <1>1
<1>6. names \subseteq HopByHop
  BY OtherNames
<1>7. /\ WantsTrailers(h) => TE \in names
      /\ IsUpgrade(h) => Connection \in names /\ Upgrade \in names
  OBVIOUS
<1> QED BY <1>2, <1>3, <1>4, <1>5, <1>6, <1>7

(* What it hands to Rewrite.                                               *)
LEMMA ReverseProxyAt ==
    ASSUME NEW h, NEW n, n \notin ForwardingHeaders
    PROVE  /\ n \notin DOMAIN Restored(h) => Same(ReverseProxyOut(h), StripHopByHopHeaders(h), n)
           /\ n \in DOMAIN Restored(h) => Same(ReverseProxyOut(h), Restored(h), n)
<1> DEFINE stripped == StripHopByHopHeaders(h)
           more == Restored(h)
           set == SetHeaders(stripped, more)
<1> HIDE DEF stripped, more
<1>1. n \notin DOMAIN more => Same(set, stripped, n)
  BY SetSame
<1>2. n \in DOMAIN more => Same(set, more, n)
  BY DEF SetHeaders, Same
<1> HIDE DEF set
<1>3. Same(Del(set, ForwardingHeaders), set, n)
  BY DelSame
<1>4. ReverseProxyOut(h) = Del(set, ForwardingHeaders)
  BY DEF ReverseProxyOut, set, stripped, more
<1> QED BY <1>1, <1>2, <1>3, <1>4, SameTransitive DEF stripped, more

(* The passthrough path sends on what the ReverseProxy does, but for the   *)
(* forwarding and the identity headers                                     *)
LEMMA RewrittenSame ==
    ASSUME NEW h, NEW remote, NEW u, NEW config, NEW order, NEW n,
           ~IsIdentity(n), n \notin ForwardingHeaders
    PROVE  Same(Rewrite(h, remote, u, config, order), ReverseProxyOut(h), n)
<1> DEFINE out == ReverseProxyOut(h)
           appended == AppendForwardedFor(out, remote)
<1>0. n # ForwardedFor
  BY OtherNames
<1> HIDE DEF out
<1>1. Same(appended, out, n)
  BY <1>0, AppendSame
<1> HIDE DEF appended
<1>2. Same(Apply(appended, u, config, order), appended, n)
  BY ApplyOther
<1> QED BY <1>1, <1>2, SameTransitive DEF Rewrite, appended, out

(* and the User-Agent.                                                     *)
LEMMA SentSame ==
    ASSUME NEW h, NEW n, n # UserAgent
    PROVE  Same(Transport(NoDefaultAgent(h)), h, n)
<1>1. Same(NoDefaultAgent(h), h, n)
  BY NoDefaultSame
<1>2. Same(Transport(NoDefaultAgent(h)), NoDefaultAgent(h), n)
  BY TransportSame
<1> QED BY <1>1, <1>2, SameTransitive

(* All of it.                                                              *)
LEMMA PassedSame ==
    ASSUME NEW h, NEW remote, NEW u, NEW config, NEW order, NEW n,
           ~IsIdentity(n), n \notin ForwardingHeaders, n # UserAgent
    PROVE  Same(PassthroughRequest(h, remote, u, config, order), ReverseProxyOut(h), n)
<1> DEFINE out == Rewrite(h, remote, u, config, order)
<1>1. Same(out, ReverseProxyOut(h), n)
  BY RewrittenSame
<1> HIDE DEF out
<1>2. Same(Transport(NoDefaultAgent(out)), out, n)
  BY SentSame
<1> QED BY <1>1, <1>2, SameTransitive DEF PassthroughRequest, out

----------------------------------------------------------------------------
(* What has been written when                                              *)

Audited(out, to) ==
    /\ \E order \in Walks(user, identity) :
         out = AuditedRequest(inbound.header, inbound.remote, user, identity, order)
    /\ to = UpstreamURL(backendURL, inbound.url)

Passed(out, to) ==
    /\ \E order \in Walks(user, identity) :
         out = PassthroughRequest(inbound.header, inbound.remote, user, identity, order)
    /\ to = SetURL(backendURL, inbound.url)

FlowInv ==
    /\ inbound \in Inbound /\ backendURL \in Backends /\ identity \in Identities
    /\ header = inbound.header
    /\ pc \in {"arrived", "authenticated", "forwarded", "answered", "relayed"}
    /\ pc # "arrived" => user \in RemoteUsers(inbound.header)
    /\ Done => \/ via = "audited" /\ Audited(outbound, target)
               \/ via = "passthrough" /\ Passed(outbound, target)
    /\ pc # "relayed" => reply = << >>
    /\ pc \in {"answered", "relayed"} =>
         answer \in Answers /\ (answer.status = SwitchingProtocols => IsUpgrade(outbound))
    /\ pc = "relayed" =>
         \/ via = "audited" /\ reply = CopyHeaders(<< >>, StripHopByHopHeaders(answer.header))
         \/ via = "passthrough" /\ reply = ReverseProxyReply(answer)

(* The request the handler holds stays as it arrived, what is sent on is   *)
(* made of it and of the verified user, and what is relayed is made of the *)
(* answer.                                                                 *)
THEOREM FlowInvariant == Spec => []FlowInv
<1>1. Init => FlowInv
  BY DEF Init, FlowInv, Done
<1>2. FlowInv /\ [Next]_vars => FlowInv'
  <2> SUFFICES ASSUME FlowInv, [Next]_vars PROVE FlowInv'
    OBVIOUS
  <2> USE DEF FlowInv, inputVars, Done, Audited, Passed
  <2>1. CASE FromRequest
    BY <2>1 DEF FromRequest
  <2>2. CASE ForwardAudited
    BY <2>2 DEF ForwardAudited
  <2>3. CASE ForwardPassthrough
    BY <2>3 DEF ForwardPassthrough
  <2>4. ASSUME NEW a \in Answers, BackendAnswers(a) PROVE FlowInv'
    BY <2>4 DEF BackendAnswers
  <2>5. CASE RelayAudited
    BY <2>5 DEF RelayAudited
  <2>6. CASE RelayPassthrough
    BY <2>6 DEF RelayPassthrough
  <2>7. CASE UNCHANGED vars
    BY <2>7 DEF vars
  <2> QED BY <2>1, <2>2, <2>3, <2>4, <2>5, <2>6, <2>7 DEF Next
<1> QED BY <1>1, <1>2, PTL DEF Spec

----------------------------------------------------------------------------
(* Headers to the backend                                                  *)

(* What the two paths must send on, name by name: what is not of the       *)
(* connection, and what is given back.                                     *)
Expected(h, more, n) == (n \in DOMAIN h /\ n \notin Hop(h)) \/ n \in DOMAIN more

(* They send on that and no more.                                          *)
Arrives(h, out, more) ==
    \A n : ~IsIdentity(n) /\ n \notin ForwardingHeaders /\ n # UserAgent =>
        /\ n \in DOMAIN out <=> Expected(h, more, n)
        /\ n \in DOMAIN out /\ n \notin DOMAIN more => out[n] = h[n]
        /\ n \in DOMAIN more => out[n] = more[n]

(* The audited path, which gives nothing back.                             *)
LEMMA AuditedArrives ==
    ASSUME NEW h, NEW remote, NEW u, NEW config, NEW order
    PROVE  Arrives(h, AuditedRequest(h, remote, u, config, order), << >>)
<1> DEFINE out == AuditedRequest(h, remote, u, config, order)
<1>0. DOMAIN << >> = {}
  OBVIOUS
<1> SUFFICES ASSUME NEW n, ~IsIdentity(n), n \notin ForwardingHeaders, n # UserAgent
             PROVE  /\ n \in DOMAIN out <=> n \in DOMAIN h /\ n \notin Hop(h)
                    /\ n \in DOMAIN out => out[n] = h[n]
  BY <1>0 DEF Arrives, Expected
<1>1. Same(out, StripHopByHopHeaders(h), n)
  BY AuditedSame, OtherNames
<1> QED BY <1>1, StripDomain DEF Same

(* The passthrough path, which does.                                       *)
LEMMA PassedArrives ==
    ASSUME NEW h, NEW remote, NEW u, NEW config, NEW order
    PROVE  Arrives(h, PassthroughRequest(h, remote, u, config, order), Restored(h))
<1> DEFINE out == PassthroughRequest(h, remote, u, config, order)
           more == Restored(h)
<1> SUFFICES ASSUME NEW n, ~IsIdentity(n), n \notin ForwardingHeaders, n # UserAgent
             PROVE  /\ n \in DOMAIN out <=> Expected(h, more, n)
                    /\ n \in DOMAIN out /\ n \notin DOMAIN more => out[n] = h[n]
                    /\ n \in DOMAIN more => out[n] = more[n]
  BY DEF Arrives
<1>1. Same(out, ReverseProxyOut(h), n)
  BY PassedSame
<1>2. /\ n \notin DOMAIN more => Same(ReverseProxyOut(h), StripHopByHopHeaders(h), n)
      /\ n \in DOMAIN more => Same(ReverseProxyOut(h), more, n)
  BY ReverseProxyAt
<1> HIDE DEF out, more
<1>3. CASE n \in DOMAIN more
  <2>1. Same(out, more, n)
    BY <1>1, <1>2, <1>3, SameTransitive
  <2> QED BY <1>3, <2>1 DEF Same, Expected
<1>4. CASE n \notin DOMAIN more
  <2>1. Same(out, StripHopByHopHeaders(h), n)
    BY <1>1, <1>2, <1>4, SameTransitive
  <2> QED BY <1>4, <2>1, StripDomain DEF Same, Expected
<1> QED BY <1>3, <1>4

(* The User-Agent that arrives.                                            *)
LEMMA AgentArrives ==
    ASSUME NEW h, NEW remote, NEW u, NEW config, NEW order
    PROVE  /\ Get(AuditedRequest(h, remote, u, config, order), UserAgent) =
                IF UserAgent \in DOMAIN h /\ UserAgent \notin Hop(h) THEN Get(h, UserAgent)
                ELSE DefaultAgent
           /\ Get(PassthroughRequest(h, remote, u, config, order), UserAgent) =
                IF UserAgent \in DOMAIN h /\ UserAgent \notin Hop(h) THEN Get(h, UserAgent)
                ELSE ""
<1> DEFINE built == BuildUpstreamRequest(h, remote, u, config, order)
           written == Rewrite(h, remote, u, config, order)
           there == UserAgent \in DOMAIN h /\ UserAgent \notin Hop(h)
<1>1. /\ ~IsIdentity(UserAgent) /\ UserAgent # ForwardedFor /\ UserAgent \notin ForwardingHeaders
      /\ UserAgent \notin DOMAIN Restored(h)
  BY OtherNames, RestoredAt
<1>2. Same(built, StripHopByHopHeaders(h), UserAgent)
  BY <1>1, BuiltSame
<1>3. Same(written, StripHopByHopHeaders(h), UserAgent)
  BY <1>1, RewrittenSame, ReverseProxyAt, SameTransitive
<1>4. /\ UserAgent \in DOMAIN StripHopByHopHeaders(h) <=> there
      /\ there => StripHopByHopHeaders(h)[UserAgent] = h[UserAgent]
  BY StripDomain
<1>5. ASSUME NEW x, Same(x, StripHopByHopHeaders(h), UserAgent)
      PROVE  (UserAgent \in DOMAIN x <=> there) /\ (there => Get(x, UserAgent) = Get(h, UserAgent))
  BY <1>4, <1>5 DEF Same, Get, Values
<1> HIDE DEF built, written, there
<1>6. Get(Transport(built), UserAgent) = IF there THEN Get(h, UserAgent) ELSE DefaultAgent
  BY <1>2, <1>5, TransportAgent
<1>7. Get(Transport(NoDefaultAgent(written)), UserAgent) = IF there THEN Get(h, UserAgent) ELSE ""
  BY <1>3, <1>5, NoDefaultSame
<1> QED BY <1>6, <1>7 DEF AuditedRequest, PassthroughRequest, built, written, there

(* Nothing end to end is lost or added on the way to the backend, whatever *)
(* the request's headers, its user and the configuration, but for what the *)
(* property names: a wish for trailers and an upgrade arrive on the        *)
(* passthrough path only, and the audited path adds a User-Agent.          *)
THEOREM HeadersArrive == Spec => []EndToEndHeadersArrive
<1>1. FlowInv => EndToEndHeadersArrive
  <2> DEFINE h == inbound.header
             hop == HopByHop \cup ConnectionTokens(h)
             sentOn(g) == DOMAIN g \ ({Authorization, UserAgent} \cup ForwardingHeaders
                                        \cup RemoteNames(g) \cup ImpersonateNames(g))
             upgrade == IF IsUpgrade(h) THEN {Connection, Upgrade} ELSE {}
             trailers == IF WantsTrailers(h) THEN {TE} ELSE {}
             restored == IF via = "passthrough" THEN upgrade \cup trailers ELSE {}
             expected == (sentOn(h) \ hop) \cup restored
             more == IF via = "passthrough" THEN Restored(h) ELSE << >>
  <2> SUFFICES ASSUME FlowInv, Done
               PROVE  /\ sentOn(outbound) = expected
                      /\ \A n \in expected \ restored : outbound[n] = h[n]
                      /\ TE \in restored => outbound[TE] = <<"trailers">>
                      /\ Upgrade \in restored =>
                           IsUpgrade(outbound) /\ Get(outbound, Upgrade) = Get(h, Upgrade)
                      /\ Get(outbound, UserAgent) =
                           IF UserAgent \in DOMAIN h \ hop THEN Get(h, UserAgent)
                           ELSE IF via = "audited" THEN DefaultAgent ELSE ""
    BY DEF EndToEndHeadersArrive
  <2>1. \A x, n : n \in sentOn(x) <=>
                    n \in DOMAIN x /\ ~IsIdentity(n) /\ n \notin ForwardingHeaders /\ n # UserAgent
    BY Families DEF IsIdentity
  <2>2. \A n \in HopByHop : ~IsIdentity(n) /\ n \notin ForwardingHeaders /\ n # UserAgent
    BY OtherNames
  <2>3. /\ DOMAIN more = restored /\ restored \subseteq HopByHop
        /\ TE \in restored => more[TE] = <<"trailers">>
        /\ Upgrade \in restored => /\ IsUpgrade(h) /\ Connection \in restored
                                   /\ more[Connection] = <<Upgrade>>
                                   /\ more[Upgrade] = <<Get(h, Upgrade)>>
    <3>1. CASE via = "passthrough"
      <4>1. more = Restored(h) /\ restored = upgrade \cup trailers
        BY <3>1
      <4> HIDE DEF h, more, restored
      <4>2. TE \in restored => WantsTrailers(h)
        BY <4>1, OtherNames
      <4>3. Upgrade \in restored => IsUpgrade(h) /\ Connection \in restored
        BY <4>1, OtherNames
      <4> QED BY <4>1, <4>2, <4>3, RestoredAt
    <3>2. CASE via # "passthrough"
      <4>1. more = << >> /\ restored = {}
        BY <3>2
      <4>2. DOMAIN << >> = {}
        OBVIOUS
      <4> HIDE DEF more, restored
      <4> QED BY <4>1, <4>2
    <3> QED BY <3>1, <3>2
  <2>4. Arrives(h, outbound, more)
    BY AuditedArrives, PassedArrives DEF FlowInv, Audited, Passed
  <2>5. Get(outbound, UserAgent) =
          IF UserAgent \in DOMAIN h \ hop THEN Get(h, UserAgent)
          ELSE IF via = "audited" THEN DefaultAgent ELSE ""
    <3>1. hop = Hop(h)
      BY DEF Hop
    <3>2. CASE via = "audited"
      <4>1. PICK order : outbound = AuditedRequest(h, inbound.remote, user, identity, order)
        BY <3>2 DEF FlowInv, Audited
      <4> HIDE DEF h, hop
      <4> QED BY <3>1, <3>2, <4>1, AgentArrives
    <3>3. CASE via = "passthrough"
      <4>1. PICK order : outbound = PassthroughRequest(h, inbound.remote, user, identity, order)
        BY <3>3 DEF FlowInv, Passed
      <4> HIDE DEF h, hop
      <4> QED BY <3>1, <3>3, <4>1, AgentArrives
    <3> QED BY <3>2, <3>3 DEF FlowInv
  <2> HIDE DEF sentOn, h, restored, more
  <2>6. \A n : n \in expected <=> (n \in sentOn(h) /\ n \notin Hop(h)) \/ n \in restored
    BY DEF Hop
  <2>7. ASSUME NEW n
        PROVE  /\ n \in sentOn(outbound) <=> n \in expected
               /\ n \in expected /\ n \notin restored => outbound[n] = h[n]
               /\ n \in restored => n \in DOMAIN outbound /\ outbound[n] = more[n]
    BY <2>1, <2>2, <2>3, <2>4, <2>6 DEF Arrives, Expected
  <2>8. ASSUME Upgrade \in restored
        PROVE  IsUpgrade(outbound) /\ Get(outbound, Upgrade) = Get(h, Upgrade)
    <3>1. /\ Connection \in DOMAIN outbound /\ outbound[Connection] = <<Upgrade>>
          /\ Upgrade \in DOMAIN outbound /\ outbound[Upgrade] = <<Get(h, Upgrade)>>
          /\ IsUpgrade(h)
      BY <2>3, <2>7, <2>8
    <3> DEFINE x == Get(h, Upgrade)
    <3>2. x # ""
      BY <3>1 DEF IsUpgrade
    <3>3. outbound[Upgrade] = <<x>>
      BY <3>1
    <3> HIDE DEF x
    <3>0. <<x>> # << >> /\ <<x>>[1] = x
      OBVIOUS
    <3>4. Get(outbound, Upgrade) = x
      BY <3>0, <3>1, <3>3 DEF Get, Values
    <3>5. Upgrade \in ConnectionTokens(outbound)
      <4>1. Upgrade \in ToSet(<<Upgrade>>)
        BY DEF ToSet
      <4> QED BY <3>1, <4>1 DEF ConnectionTokens, Values
    <3> QED BY <3>2, <3>4, <3>5 DEF IsUpgrade, x
  <2>9. TE \in restored => outbound[TE] = <<"trailers">>
    BY <2>3, <2>7
  <2> QED BY <2>5, <2>7, <2>8, <2>9
<1> QED BY <1>1, FlowInvariant, PTL

(* No credential of the client gets past, and no identity header but the   *)
(* mode's own: under impersonation the Impersonate-* headers are those     *)
(* ImpersonateUser writes of the verified user, to the name and the value, *)
(* as if the request had come without any header.                          *)
NoClientIdentity ==
    Done =>
        /\ Authorization \notin DOMAIN outbound
        /\ identity.mode = "impersonation" =>
             /\ RemoteNames(outbound) = {}
             /\ \E order \in Walks(user, identity) :
                  \A n : n[1] \in ImpersonateFamily =>
                    Same(outbound, ImpersonateUser(<< >>, user, identity, order), n)
        /\ identity.mode # "impersonation" => ImpersonateNames(outbound) = {}

(* What Apply leaves under a name that is not the User-Agent is sent.      *)
LEMMA SentOfApply ==
    ASSUME NEW h, NEW remote, NEW u, NEW config, NEW order
    PROVE  \A out \in {AuditedRequest(h, remote, u, config, order),
                       PassthroughRequest(h, remote, u, config, order)} :
              \E x : \A n : n # UserAgent => Same(out, Apply(x, u, config, order), n)
<1> DEFINE audited == AppendForwardedFor(StripHopByHopHeaders(h), remote)
           passed == AppendForwardedFor(ReverseProxyOut(h), remote)
<1>1. /\ AuditedRequest(h, remote, u, config, order)
           = Transport(Apply(audited, u, config, order))
      /\ PassthroughRequest(h, remote, u, config, order)
           = Transport(NoDefaultAgent(Apply(passed, u, config, order)))
  BY DEF AuditedRequest, PassthroughRequest, BuildUpstreamRequest, Rewrite
<1> HIDE DEF audited, passed
<1>2. \A n : n # UserAgent => Same(Transport(Apply(audited, u, config, order)),
                                   Apply(audited, u, config, order), n)
  BY TransportSame
<1>3. \A n : n # UserAgent => Same(Transport(NoDefaultAgent(Apply(passed, u, config, order))),
                                   Apply(passed, u, config, order), n)
  BY SentSame
<1> QED BY <1>1, <1>2, <1>3

(* What the backend is told of an identity never comes from the client, on *)
(* either path and for any names and values the client may send.           *)
THEOREM IdentityNotClients == Spec => []NoClientIdentity
<1>1. FlowInv => NoClientIdentity
  <2> SUFFICES ASSUME FlowInv, Done PROVE NoClientIdentity
    BY DEF NoClientIdentity
  <2>1. PICK order \in Walks(user, identity) :
           outbound \in {AuditedRequest(inbound.header, inbound.remote, user, identity, order),
                         PassthroughRequest(inbound.header, inbound.remote, user, identity, order)}
    BY DEF FlowInv, Audited, Passed
  <2>2. PICK x : \A n : n # UserAgent => Same(outbound, Apply(x, user, identity, order), n)
    BY <2>1, SentOfApply
  <2> DEFINE applied == Apply(x, user, identity, order)
  <2>3. /\ Authorization \notin DOMAIN applied
        /\ identity.mode = "impersonation" =>
             /\ RemoteNames(applied) = {}
             /\ \A n : n[1] \in ImpersonateFamily =>
                  Same(applied, ImpersonateUser(<< >>, user, identity, order), n)
        /\ identity.mode # "impersonation" => ImpersonateNames(applied) = {}
    BY ApplyClean
  <2> HIDE DEF applied
  <2>4. \A n : n[1] \in RemoteFamily \/ n[1] \in ImpersonateFamily => Same(outbound, applied, n)
    BY <2>2, IdentityNames DEF applied
  <2>5. Authorization \notin DOMAIN outbound
    <3>1. Authorization # UserAgent
      BY DEF Authorization, UserAgent, Plain
    <3> QED BY <2>2, <2>3, <3>1 DEF Same, applied
  <2>6. /\ RemoteNames(applied) = {} => RemoteNames(outbound) = {}
        /\ ImpersonateNames(applied) = {} => ImpersonateNames(outbound) = {}
    BY <2>4, Families DEF Same
  <2>7. ASSUME identity.mode = "impersonation", NEW n, n[1] \in ImpersonateFamily
        PROVE  Same(outbound, ImpersonateUser(<< >>, user, identity, order), n)
    BY <2>3, <2>4, <2>7, SameTransitive
  <2> QED BY <2>3, <2>5, <2>6, <2>7 DEF NoClientIdentity
<1> QED BY <1>1, FlowInvariant, PTL

(* In forwarding mode the X-Remote-* headers are untouched on both paths.  *)
LEMMA RemoteSame ==
    ASSUME NEW h, NEW remote, NEW u, NEW config, NEW order, config.mode # "impersonation",
           ListsNoIdentity(h), NEW n, n[1] \in RemoteFamily
    PROVE  /\ Same(AuditedRequest(h, remote, u, config, order), h, n)
           /\ Same(PassthroughRequest(h, remote, u, config, order), h, n)
<1>1. /\ n \notin HopByHop /\ n \notin ForwardingHeaders /\ n # Authorization /\ n # UserAgent
      /\ n[1] \notin ImpersonateFamily
  <2>1. n[1] \notin ImpersonateFamily
    BY DEF RemoteFamily, ImpersonateFamily, RemoteExtra, ImpersonateExtra
  <2> QED BY <2>1, IdentityNames
<1>2. n # ForwardedFor /\ n \notin DOMAIN Restored(h)
  BY <1>1, OtherNames, RestoredAt
<1>3. Same(StripHopByHopHeaders(h), h, n)
  <2>1. n \in DOMAIN h => n \notin Hop(h)
    BY <1>1, Families DEF Hop, ListsNoIdentity
  <2> QED BY <2>1, StripDomain DEF Same
<1>4. Same(ReverseProxyOut(h), h, n)
  BY <1>1, <1>2, <1>3, ReverseProxyAt, SameTransitive
<1>5. ASSUME NEW x, Same(x, h, n)
      PROVE  Same(Apply(AppendForwardedFor(x, remote), u, config, order), h, n)
  <2> DEFINE y == AppendForwardedFor(x, remote)
  <2>1. Same(y, x, n)
    BY <1>2, AppendSame
  <2> HIDE DEF y
  <2>2. Same(StripImpersonationHeaders(y), y, n)
    BY <1>1, Families, DelSame DEF StripImpersonationHeaders
  <2>3. Apply(y, u, config, order) = StripImpersonationHeaders(y)
    BY DEF Apply
  <2> QED BY <1>5, <2>1, <2>2, <2>3, SameTransitive DEF y
<1>6. /\ Same(BuildUpstreamRequest(h, remote, u, config, order), h, n)
      /\ Same(Rewrite(h, remote, u, config, order), h, n)
  BY <1>3, <1>4, <1>5 DEF BuildUpstreamRequest, Rewrite
<1> QED BY <1>1, <1>6, TransportSame, SentSame, SameTransitive
        DEF AuditedRequest, PassthroughRequest

(* Headers that agree on the X-Remote-* names decode alike.                *)
LEMMA DecodeAlike ==
    ASSUME NEW g, NEW h, \A n : n[1] \in RemoteFamily => Same(g, h, n)
    PROVE  RemoteUsers(g) = RemoteUsers(h)
<1>1. /\ Plain("x-remote-user")[1] \in RemoteFamily
      /\ Plain("x-remote-uid")[1] \in RemoteFamily
      /\ Plain("x-remote-group")[1] \in RemoteFamily
  BY DEF Plain, RemoteFamily
<1>2. /\ Get(g, Plain("x-remote-user")) = Get(h, Plain("x-remote-user"))
      /\ Get(g, Plain("x-remote-uid")) = Get(h, Plain("x-remote-uid"))
      /\ Values(g, Plain("x-remote-group")) = Values(h, Plain("x-remote-group"))
  BY <1>1 DEF Get, Values, Same
<1>3. ASSUME NEW n, n[1] = RemoteExtra PROVE Same(g, h, n)
  BY <1>3 DEF RemoteFamily
<1>4. WithPrefix(g, RemoteExtra) = WithPrefix(h, RemoteExtra)
  BY <1>3 DEF WithPrefix, Same
<1>5. ASSUME NEW n \in WithPrefix(h, RemoteExtra) PROVE g[n] = h[n]
  BY <1>3, <1>5 DEF WithPrefix, Same
<1>6. Restrict(g, WithPrefix(g, RemoteExtra)) = Restrict(h, WithPrefix(h, RemoteExtra))
  BY <1>4, <1>5 DEF Restrict
<1> QED BY <1>2, <1>4, <1>6, Zenon DEF RemoteUsers, Decode

(* In forwarding mode the backend decodes the very user that the audit     *)
(* event names, from the headers that reach it on either path.             *)
ForwardedUserKept ==
    Done /\ identity.mode # "impersonation" /\ ListsNoIdentity(inbound.header) =>
        RemoteUsers(outbound) = RemoteUsers(inbound.header) /\ user \in RemoteUsers(outbound)

(* Neither path, whatever else it strips, adds or rewrites, changes what   *)
(* the X-Remote-* headers say.                                             *)
THEOREM ForwardedUserDecoded == Spec => []ForwardedUserKept
<1>1. FlowInv => ForwardedUserKept
  <2> SUFFICES ASSUME FlowInv, Done, identity.mode # "impersonation",
                      ListsNoIdentity(inbound.header)
               PROVE  /\ RemoteUsers(outbound) = RemoteUsers(inbound.header)
                      /\ user \in RemoteUsers(outbound)
    BY DEF ForwardedUserKept
  <2>1. \A n : n[1] \in RemoteFamily => Same(outbound, inbound.header, n)
    BY RemoteSame DEF FlowInv, Audited, Passed
  <2>2. RemoteUsers(outbound) = RemoteUsers(inbound.header)
    BY <2>1, DecodeAlike
  <2>3. user \in RemoteUsers(inbound.header)
    BY DEF FlowInv, Done
  <2> QED BY <2>2, <2>3
<1> QED BY <1>1, FlowInvariant, PTL

----------------------------------------------------------------------------
(* The two paths compared                                                  *)

(* The line that appendForwardedFor begins with.                           *)
ChainOf(h) == IF Values(h, ForwardedFor) = << >> THEN << >> ELSE h[ForwardedFor][1]

(* Headers that are the same under a name have the same values there.      *)
LEMMA SameValues ==
    ASSUME NEW g, NEW h, NEW n, Same(g, h, n) PROVE Values(g, n) = Values(h, n)
BY DEF Same, Values

(* A chain begins with the peer alone.                                     *)
LEMMA FirstOfChain == ASSUME NEW x \in STRING PROVE Append(<< >>, x) = <<x>>
OBVIOUS

(* appendForwardedFor leaves one line, the first with the peer behind it.  *)
LEMMA AppendedChain ==
    ASSUME NEW h, NEW host \in STRING, host # ""
    PROVE  Values(AppendForwardedFor(h, host), ForwardedFor) = << Append(ChainOf(h), host) >>
<1>1. \A lines : Values(SetHeader(h, ForwardedFor, lines), ForwardedFor) = lines
  BY DEF Values, SetHeader, SetHeaders
<1>2. CASE Values(h, ForwardedFor) = << >>
  <2>1. Append(<< >>, host) = <<host>>
    BY FirstOfChain
  <2> QED BY <1>1, <1>2, <2>1 DEF AppendForwardedFor, ChainOf
<1>3. CASE Values(h, ForwardedFor) # << >>
  BY <1>1, <1>3 DEF AppendForwardedFor, ChainOf
<1> QED BY <1>2, <1>3

(* Which path a request takes makes no difference to the backend, but for  *)
(* what the ReverseProxy gives back, the User-Agent of a request without   *)
(* one, and the forwarding headers a request brought along, of which the   *)
(* theorem says what becomes on either path.                               *)
THEOREM PathsAlike == Spec => []PathsForwardAlike
<1>1. FlowInv => PathsForwardAlike
  <2> SUFFICES ASSUME FlowInv, pc = "authenticated", NEW order \in Walks(user, identity)
               PROVE  LET audited == AuditedRequest(header, inbound.remote, user, identity, order)
                          passed == PassthroughRequest(header, inbound.remote, user, identity, order)
                          differing == (ForwardingHeaders \cap DOMAIN header)
                                         \cup DOMAIN Restored(header)
                                         \cup ({UserAgent} \ (DOMAIN header \ ConnectionTokens(header)))
                          brought == StripHopByHopHeaders(header)
                          peer == inbound.remote
                      IN  /\ Del(audited, differing) = Del(passed, differing)
                          /\ \A n \in ForwardingHeaders : n # ForwardedFor \/ peer = "" =>
                               Values(audited, n) = Values(brought, n) /\ Values(passed, n) = << >>
                          /\ peer # "" =>
                               /\ Values(audited, ForwardedFor) = << Append(ChainOf(brought), peer) >>
                               /\ Values(passed, ForwardedFor) = << <<peer>> >>
    BY DEF PathsForwardAlike, ChainOf
  <2> DEFINE remote == inbound.remote
             stripped == StripHopByHopHeaders(header)
             bare == ReverseProxyOut(header)
             appended(x) == AppendForwardedFor(x, remote)
             applied(x) == Apply(appended(x), user, identity, order)
             audited == AuditedRequest(header, remote, user, identity, order)
             passed == PassthroughRequest(header, remote, user, identity, order)
             differing == (ForwardingHeaders \cap DOMAIN header) \cup DOMAIN Restored(header)
                            \cup ({UserAgent} \ (DOMAIN header \ ConnectionTokens(header)))
  <2>1. /\ audited = Transport(applied(stripped))
        /\ passed = Transport(NoDefaultAgent(applied(bare)))
    BY DEF BuildUpstreamRequest, Rewrite, AuditedRequest, PassthroughRequest
  <2>2. remote \in STRING
    BY ForwardingAssumption DEF FlowInv
  <2>4. \A n : n \in DOMAIN bare => n \notin ForwardingHeaders
    <3> DEFINE set == SetHeaders(stripped, Restored(header))
    <3>1. bare = Del(set, ForwardingHeaders)
      BY DEF ReverseProxyOut
    <3> HIDE DEF set, bare
    <3> QED BY <3>1 DEF Del, Restrict
  <2> HIDE DEF audited, passed, remote, stripped, bare, differing
  <2>5. ASSUME NEW n, n \notin differing PROVE Same(audited, passed, n)
    <3>1. n \notin DOMAIN Restored(header) /\ (n \in ForwardingHeaders => n \notin DOMAIN header)
      BY <2>5 DEF differing
    <3>2. Same(stripped, bare, n)
      <4>1. CASE n \in ForwardingHeaders
        <5>1. n \notin DOMAIN stripped /\ n \notin DOMAIN bare
          BY <2>4, <3>1, <4>1, StripDomain DEF stripped
        <5> QED BY <5>1 DEF Same
      <4>2. CASE n \notin ForwardingHeaders
        <5>1. Same(bare, stripped, n)
          BY <3>1, <4>2, ReverseProxyAt DEF bare, stripped
        <5> QED BY <5>1 DEF Same
      <4> QED BY <4>1, <4>2
    <3>3. Same(appended(stripped), appended(bare), n)
      BY <3>2, AppendBoth
    <3> HIDE DEF appended
    <3>4. Same(applied(stripped), applied(bare), n)
      BY <3>3, ApplySame
    <3>5. CASE n # UserAgent
      <4> HIDE DEF applied
      <4>1. Same(audited, applied(stripped), n) /\ Same(passed, applied(bare), n)
        BY <2>1, <3>5, TransportSame, SentSame
      <4> QED BY <3>4, <4>1 DEF Same
    <3>6. CASE n = UserAgent
      <4>1. UserAgent \in DOMAIN header \ ConnectionTokens(header)
        BY <2>5, <3>6 DEF differing
      <4>2. UserAgent \in DOMAIN stripped
        BY <4>1, OtherNames, StripDomain DEF stripped, Hop
      <4>3. ~IsIdentity(UserAgent) /\ UserAgent # ForwardedFor
        BY OtherNames
      <4>4. Same(applied(stripped), appended(stripped), n)
        BY <3>6, <4>3, ApplyOther
      <4>5. Same(appended(stripped), stripped, n)
        BY <3>6, <4>3, AppendSame DEF appended
      <4> HIDE DEF applied
      <4>6. UserAgent \in DOMAIN applied(bare)
        BY <3>4, <3>6, <4>2, <4>4, <4>5 DEF Same
      <4>7. passed = Transport(applied(bare))
        BY <2>1, <4>6, NoDefaultSame
      <4> QED BY <2>1, <3>4, <4>7, TransportSame
    <3> QED BY <3>5, <3>6
  <2>6. Del(audited, differing) = Del(passed, differing)
    BY <2>5 DEF Same, Del, Restrict
  <2>3. \A n \in ForwardingHeaders : ~IsIdentity(n) /\ n # UserAgent
    BY OtherNames
  <2>7. ASSUME NEW n \in ForwardingHeaders
        PROVE  /\ Values(audited, n) = Values(appended(stripped), n)
               /\ Values(passed, n) = Values(appended(bare), n)
    <3> HIDE DEF appended
    <3>1. /\ Same(applied(stripped), appended(stripped), n)
          /\ Same(applied(bare), appended(bare), n)
      BY <2>3, ApplyOther
    <3> HIDE DEF applied
    <3>2. Same(audited, applied(stripped), n) /\ Same(passed, applied(bare), n)
      BY <2>1, <2>3, TransportSame, SentSame
    <3> QED BY <3>1, <3>2, SameValues
  <2>8. \A n \in ForwardingHeaders : Values(bare, n) = << >>
    BY <2>4 DEF Values
  <2>9. ASSUME NEW n \in ForwardingHeaders, n # ForwardedFor \/ remote = ""
        PROVE  Values(audited, n) = Values(stripped, n) /\ Values(passed, n) = << >>
    <3>1. \A x : Values(appended(x), n) = Values(x, n)
      <4>1. CASE remote = ""
        BY <4>1 DEF AppendForwardedFor
      <4>2. CASE n # ForwardedFor
        <5>1. \A x : Same(AppendForwardedFor(x, remote), x, n)
          BY <4>2, AppendSame
        <5> QED BY <5>1, SameValues
      <4> QED BY <2>9, <4>1, <4>2
    <3> HIDE DEF appended
    <3> QED BY <2>7, <2>8, <3>1
  <2>10. ASSUME remote # ""
         PROVE  /\ Values(audited, ForwardedFor) = << Append(ChainOf(stripped), remote) >>
                /\ Values(passed, ForwardedFor) = << <<remote>> >>
    <3>1. ForwardedFor \in ForwardingHeaders
      BY OtherNames
    <3>2. /\ Values(appended(stripped), ForwardedFor) = << Append(ChainOf(stripped), remote) >>
          /\ Values(appended(bare), ForwardedFor) = << Append(ChainOf(bare), remote) >>
      BY <2>2, <2>10, AppendedChain
    <3>3. ChainOf(bare) = << >> /\ Append(<< >>, remote) = <<remote>>
      BY <2>2, <2>8, <3>1, FirstOfChain DEF ChainOf
    <3> HIDE DEF appended
    <3> QED BY <2>7, <3>1, <3>2, <3>3
  <2> QED BY <2>6, <2>9, <2>10 DEF audited, passed, differing, remote, stripped
<1> QED BY <1>1, FlowInvariant, PTL

----------------------------------------------------------------------------
(* Headers to the client                                                   *)

(* The client gets the answer's headers, every value of them, on either    *)
(* path; the audited path never has to relay a handshake.                  *)
THEOREM RepliesWhole == Spec => []ReplyKeepsHeaders
<1>1. FlowInv => ReplyKeepsHeaders
  <2> DEFINE h == answer.header
             expected == IF answer.status = SwitchingProtocols THEN DOMAIN h
                         ELSE DOMAIN h \ (HopByHop \cup ConnectionTokens(h))
  <2> SUFFICES ASSUME FlowInv, pc = "relayed" PROVE reply = [n \in expected |-> h[n]]
    BY DEF ReplyKeepsHeaders
  <2>1. IsHeader(h)
    BY ForwardingAssumption DEF FlowInv
  <2> HIDE DEF h
  <2>2. CASE via = "audited"
    <3>1. answer.status # SwitchingProtocols
      BY <2>2, AuditedNoUpgrade DEF FlowInv, Done, Audited
    <3>2. StripHopByHopHeaders(h) = [n \in expected |-> h[n]]
      BY <3>1 DEF StripHopByHopHeaders, Del, Restrict
    <3>3. \A n \in expected : << >> \o h[n] = h[n]
      BY <2>1, <3>1, ConcatEmptySeq DEF IsHeader
    <3>4. reply = CopyHeaders(<< >>, [n \in expected |-> h[n]])
      BY <2>2, <3>2 DEF FlowInv, h
    <3> HIDE DEF expected
    <3> QED BY <3>3, <3>4 DEF CopyHeaders, SetHeaders, Values
  <2>3. CASE via = "passthrough"
    <3>1. reply = ReverseProxyReply(answer)
      BY <2>3 DEF FlowInv
    <3>2. CASE answer.status = SwitchingProtocols
      BY <2>1, <3>1, <3>2 DEF ReverseProxyReply, IsHeader, h
    <3>3. CASE answer.status # SwitchingProtocols
      BY <3>1, <3>3 DEF ReverseProxyReply, StripHopByHopHeaders, Del, Restrict, h
    <3> QED BY <3>2, <3>3
  <2> QED BY <2>2, <2>3 DEF FlowInv
<1> QED BY <1>1, FlowInvariant, PTL

----------------------------------------------------------------------------
(* The target                                                              *)

(* A URL keeps the escaped path it is made of, whichever field holds it.   *)
LEMMA EscapedURL ==
    ASSUME NEW escaped \in Seq(STRING), NEW query
    PROVE  EscapedPath(URL(escaped, query)) = escaped /\ URL(escaped, query).query = query
<1>1. CASE Unescape(escaped) = escaped
  BY <1>1 DEF URL, EscapedPath
<1>2. CASE Unescape(escaped) # escaped
  <2>1. escaped # << >>
    <3>1. Unescape(<< >>) = << >>
      BY DEF Unescape
    <3> QED BY <1>2, <3>1
  <2> QED BY <1>2, <2>1 DEF URL, EscapedPath
<1> QED BY <1>1, <1>2

(* The path of a URL is a sequence, however it is kept.                    *)
LEMMA EscapedType ==
    ASSUME NEW u, IsURL(u) PROVE EscapedPath(u) \in Seq(STRING)
BY DEF IsURL, EscapedPath

(* A path behind a prefix: the last part is the path, the first the prefix. *)
LEMMA BehindPrefix ==
    ASSUME NEW prefix \in Seq(STRING), NEW path \in Seq(STRING)
    PROVE  /\ Len(prefix \o path) - Len(path) = Len(prefix)
           /\ SubSeq(prefix \o path, Len(prefix) + 1, Len(prefix \o path)) = path
           /\ SubSeq(prefix \o path, 1, Len(prefix)) = prefix
<1>1. /\ Len(prefix) \in Nat /\ Len(path) \in Nat
      /\ prefix \o path \in Seq(STRING)
      /\ Len(prefix \o path) = Len(prefix) + Len(path)
      /\ \A i \in 1 .. Len(prefix) + Len(path) :
           (prefix \o path)[i] = IF i <= Len(prefix) THEN prefix[i] ELSE path[i - Len(prefix)]
  BY LenProperties, ConcatProperties
<1> DEFINE whole == prefix \o path
           front == SubSeq(whole, 1, Len(prefix))
           back == SubSeq(whole, Len(prefix) + 1, Len(prefix) + Len(path))
<1> HIDE DEF whole
<1>2. \A i \in 1 .. Len(prefix) + Len(path) : whole[i] \in STRING
  BY <1>1, ElementOfSeq DEF whole
<1>3. front = prefix
  <2>1. /\ front \in Seq(STRING) /\ Len(front) = Len(prefix)
        /\ \A i \in 1 .. Len(prefix) : front[i] = whole[i]
    BY <1>1, <1>2
  <2>2. \A i \in 1 .. Len(prefix) : front[i] = prefix[i]
    BY <1>1, <2>1 DEF whole
  <2> HIDE DEF front
  <2> QED BY <2>1, <2>2, SeqEqual
<1>4. back = path
  <2>1. /\ back \in Seq(STRING) /\ Len(back) = Len(path)
        /\ \A i \in 1 .. Len(path) : back[i] = whole[Len(prefix) + i]
    BY <1>1, <1>2
  <2>2. \A i \in 1 .. Len(path) : back[i] = path[i]
    BY <1>1, <2>1 DEF whole
  <2> HIDE DEF back
  <2> QED BY <2>1, <2>2, SeqEqual
<1> QED BY <1>1, <1>3, <1>4 DEF whole

(* The backend is asked for what the client asked for, to the byte and for *)
(* any path: behind the backend URL's own path and nothing else.           *)
THEOREM TargetsKept == Spec => []TargetKeepsRequest
<1>1. FlowInv => TargetKeepsRequest
  <2> DEFINE asked == EscapedPath(inbound.url)
             base == EscapedPath(backendURL)
             sent == EscapedPath(target)
  <2> SUFFICES ASSUME FlowInv, Done
               PROVE  /\ Len(sent) - Len(asked) >= 0
                      /\ SubSeq(sent, Len(sent) - Len(asked) + 1, Len(sent)) = asked
                      /\ SubSeq(sent, 1, Len(sent) - Len(asked))
                           = SubSeq(base, 1, Len(sent) - Len(asked))
                      /\ Parsable(inbound.url.query) \subseteq target.query
                      /\ target.query \subseteq inbound.url.query \cup backendURL.query
    BY DEF TargetKeepsRequest
  <2>1. asked \in Seq(STRING) /\ base \in Seq(STRING)
    BY EscapedType, ForwardingAssumption DEF FlowInv
  <2>2. Parsable(inbound.url.query) \subseteq inbound.url.query
    BY DEF Parsable
  <2>3. SUFFICES ASSUME NEW prefix \in Seq(STRING), sent = prefix \o asked,
                        prefix = SubSeq(base, 1, Len(prefix)),
                        Parsable(inbound.url.query) \subseteq target.query,
                        target.query \subseteq inbound.url.query \cup backendURL.query
                 PROVE  /\ Len(sent) - Len(asked) >= 0
                        /\ SubSeq(sent, Len(sent) - Len(asked) + 1, Len(sent)) = asked
                        /\ SubSeq(sent, 1, Len(sent) - Len(asked))
                             = SubSeq(base, 1, Len(sent) - Len(asked))
    <3>1. CASE via = "audited"
      <4>1. target = URL(asked, inbound.url.query)
        BY <3>1 DEF FlowInv, Done, Audited, UpstreamURL, ResolveReference, EscapedPath
      <4>2. sent = << >> \o asked /\ target.query = inbound.url.query
        BY <2>1, <4>1, EscapedURL, ConcatEmptySeq
      <4>3. << >> \in Seq(STRING) /\ << >> = SubSeq(base, 1, Len(<< >>))
        BY EmptySeq, SubSeqEmpty
      <4> QED BY <2>2, <2>3, <4>2, <4>3
    <3>2. CASE via = "passthrough"
      <4> DEFINE joined == IF base # << >> /\ Last(base) = "/" THEN Front(base) ELSE base
      <4>1. target = URL(joined \o asked, backendURL.query \cup Parsable(inbound.url.query))
        BY <3>2 DEF FlowInv, Done, Passed, SetURL
      <4>2. joined \in Seq(STRING) /\ joined = SubSeq(base, 1, Len(joined))
        <5>1. CASE joined = base
          BY <2>1, <5>1, SubSeqFull
        <5>2. CASE joined # base
          <6>1. joined = SubSeq(base, 1, Len(base) - 1) /\ base # << >>
            BY <5>2 DEF Front
          <6>2. Len(base) \in Nat \ {0}
            BY <2>1, <6>1, EmptySeq
          <6>3. \A i \in 1 .. Len(base) - 1 : base[i] \in STRING
            BY <2>1, <6>2, ElementOfSeq
          <6>4. joined \in Seq(STRING) /\ Len(joined) = Len(base) - 1
            BY <6>1, <6>2, <6>3, SubSeqProperties
          <6> QED BY <6>1, <6>4
        <5> QED BY <5>1, <5>2
      <4> HIDE DEF joined
      <4>3. joined \o asked \in Seq(STRING)
        BY <2>1, <4>2, ConcatProperties
      <4>4. /\ sent = joined \o asked
            /\ target.query = backendURL.query \cup Parsable(inbound.url.query)
        BY <4>1, <4>3, EscapedURL
      <4> QED BY <2>2, <2>3, <4>2, <4>4
    <3> QED BY <3>1, <3>2 DEF FlowInv
  <2> HIDE DEF asked, base, sent
  <2>4. /\ Len(sent) - Len(asked) = Len(prefix)
        /\ SubSeq(sent, Len(prefix) + 1, Len(sent)) = asked
        /\ SubSeq(sent, 1, Len(prefix)) = prefix
    BY <2>1, <2>3, BehindPrefix
  <2>5. Len(prefix) \in Nat
    BY <2>3, LenProperties
  <2> QED BY <2>3, <2>4, <2>5
<1> QED BY <1>1, FlowInvariant, PTL

----------------------------------------------------------------------------
(* Induction                                                               *)

(* Every nonempty set of natural numbers has a least element.              *)
LEMMA LeastNatural ==
    ASSUME NEW T, T \subseteq Nat, T # {}
    PROVE  \E m \in T : \A k \in T : m <= k
<1> DEFINE R == {ss \in Nat \X Nat : ss[1] < ss[2]}
<1>1. IsWellFoundedOn(R, Nat)
  BY NatLessThanWellFounded, Zenon DEF OpToRel
<1> HIDE DEF R
<1>2. PICK m \in T : \A k \in T : <<k, m>> \notin R
  BY <1>1, WFMin
<1>3. \A k \in T : k < m => <<k, m>> \in R
  BY DEF R
<1>4. \A k \in T : ~(k < m)
  BY <1>2, <1>3
<1>5. \A k \in T : m <= k
  BY <1>4
<1> QED BY <1>5

(* Induction up to n, for the set of the numbers that have the property.   *)
LEMMA InductionTo ==
    ASSUME NEW n \in Nat, NEW S, 0 \in S, \A k \in 0 .. n - 1 : k \in S => k + 1 \in S
    PROVE  \A k \in 0 .. n : k \in S
<1> DEFINE T == { k \in 0 .. n : k \notin S }
<1> SUFFICES ASSUME T # {} PROVE FALSE
  OBVIOUS
<1>1. T \subseteq Nat
  OBVIOUS
<1>2. PICK m \in T : \A k \in T : m <= k
  BY <1>1, LeastNatural
<1>3. m \in 0 .. n /\ m \notin S /\ m # 0
  OBVIOUS
<1>4. m - 1 \in 0 .. n - 1 /\ m - 1 \in S
  BY <1>2, <1>3
<1> QED BY <1>3, <1>4

(* Induction over sequences, from the end, for the set of those that have  *)
(* the property.                                                           *)
LEMMA InductionOnSeq ==
    ASSUME NEW X, NEW S, << >> \in S, \A s \in Seq(X), x \in X : s \in S => Append(s, x) \in S
    PROVE  Seq(X) \subseteq S
<1> DEFINE T == { k \in Nat : \A s \in Seq(X) : Len(s) = k => s \in S }
<1>1. 0 \in T
  BY EmptySeq
<1>2. ASSUME NEW k \in Nat, k \in T PROVE k + 1 \in T
  <2> SUFFICES ASSUME NEW s \in Seq(X), Len(s) = k + 1 PROVE s \in S
    OBVIOUS
  <2> DEFINE front == [i \in 1 .. k |-> s[i]]
  <2>1. s[k + 1] \in X /\ \A i \in 1 .. k : s[i] \in X
    OBVIOUS
  <2>2. front \in Seq(X) /\ Len(front) = k
    BY <2>1
  <2>3. front \in S
    BY <1>2, <2>2
  <2>4. s = Append(front, s[k + 1])
    BY <2>1, <2>2
  <2> HIDE DEF front
  <2> QED BY <2>1, <2>2, <2>3, <2>4
<1> SUFFICES ASSUME NEW s \in Seq(X) PROVE s \in S
  OBVIOUS
<1>3. Len(s) \in Nat
  OBVIOUS
<1> HIDE DEF T
<1>4. \A k \in 0 .. Len(s) - 1 : k \in T => k + 1 \in T
  BY <1>2, <1>3
<1>5. \A k \in 0 .. Len(s) : k \in T
  BY <1>1, <1>3, <1>4, InductionTo
<1>6. Len(s) \in T
  BY <1>3, <1>5
<1> QED BY <1>6 DEF T

----------------------------------------------------------------------------
(* FlattenSeq                                                              *)

(* f has the concatenation of the first i sequences of ss at i, up to k.   *)
Joins(f, ss, k) ==
    \A i \in 1 .. k : f[i] = IF i = 1 THEN ss[i] ELSE f[i - 1] \o ss[i]

(* Two such functions of the same sequences are the same.                  *)
LEMMA JoinsAgree ==
    ASSUME NEW f, NEW g, NEW ss, NEW tt, NEW n \in Nat,
           Joins(f, ss, n), Joins(g, tt, n), \A i \in 1 .. n : ss[i] = tt[i]
    PROVE  \A i \in 1 .. n : f[i] = g[i]
<1> DEFINE S == { k \in 0 .. n : \A i \in 1 .. k : f[i] = g[i] }
<1>1. 0 \in S
  OBVIOUS
<1>2. \A k \in 0 .. n - 1 : k \in S => k + 1 \in S
  <2> SUFFICES ASSUME NEW k \in 0 .. n - 1, k \in S PROVE f[k + 1] = g[k + 1]
    OBVIOUS
  <2>1. k + 1 \in 1 .. n /\ (k + 1) - 1 = k /\ (k + 1 # 1 => k \in 1 .. k)
    OBVIOUS
  <2>2. /\ f[k + 1] = IF k + 1 = 1 THEN ss[k + 1] ELSE f[k] \o ss[k + 1]
        /\ g[k + 1] = IF k + 1 = 1 THEN tt[k + 1] ELSE g[k] \o tt[k + 1]
    BY <2>1 DEF Joins
  <2> QED BY <2>1, <2>2
<1> HIDE DEF S
<1>3. \A k \in 0 .. n : k \in S
  BY <1>1, <1>2, InductionTo
<1> QED BY <1>3 DEF S

(* And there is one.                                                       *)
LEMMA JoinsExist ==
    ASSUME NEW X, NEW ss \in Seq(Seq(X))
    PROVE  \E f \in [1 .. Len(ss) -> Seq(X)] : Joins(f, ss, Len(ss))
<1> DEFINE S == { k \in 0 .. Len(ss) : \E f \in [1 .. k -> Seq(X)] : Joins(f, ss, k) }
<1>1. Len(ss) \in Nat /\ \A i \in 1 .. Len(ss) : ss[i] \in Seq(X)
  OBVIOUS
<1>2. 0 \in S
  <2> DEFINE f == [i \in 1 .. 0 |-> << >>]
  <2>1. f \in [1 .. 0 -> Seq(X)] /\ Joins(f, ss, 0)
    BY DEF Joins
  <2>2. 0 \in 0 .. Len(ss)
    BY <1>1
  <2> HIDE DEF f
  <2>3. \E h \in [1 .. 0 -> Seq(X)] : Joins(h, ss, 0)
    BY <2>1, Zenon
  <2> QED BY <2>2, <2>3
<1>3. \A k \in 0 .. Len(ss) - 1 : k \in S => k + 1 \in S
  <2> SUFFICES ASSUME NEW k \in 0 .. Len(ss) - 1, k \in S PROVE k + 1 \in S
    OBVIOUS
  <2>1. PICK f \in [1 .. k -> Seq(X)] : Joins(f, ss, k)
    OBVIOUS
  <2> DEFINE g == [i \in 1 .. k + 1 |->
                     IF i <= k THEN f[i] ELSE IF i = 1 THEN ss[i] ELSE f[k] \o ss[i]]
  <2>2. k \in Nat /\ k + 1 \in 0 .. Len(ss)
    BY <1>1
  <2>3. g \in [1 .. k + 1 -> Seq(X)]
    BY <1>1, <2>2
  <2>4. \A j \in 1 .. k : g[j] = f[j]
    OBVIOUS
  <2>5. g[k + 1] = IF k + 1 = 1 THEN ss[k + 1] ELSE f[k] \o ss[k + 1]
    BY <2>2
  <2> HIDE DEF g
  <2>6. ASSUME NEW i \in 1 .. k + 1 PROVE g[i] = IF i = 1 THEN ss[i] ELSE g[i - 1] \o ss[i]
    <3>1. CASE i = k + 1
      BY <2>2, <2>4, <2>5, <3>1
    <3>2. CASE i # k + 1
      <4>1. i \in 1 .. k /\ (i # 1 => i - 1 \in 1 .. k)
        BY <2>2, <3>2
      <4> QED BY <2>1, <2>4, <4>1 DEF Joins
    <3> QED BY <3>1, <3>2
  <2>7. Joins(g, ss, k + 1)
    BY <2>6 DEF Joins
  <2> QED BY <2>2, <2>3, <2>7
<1> HIDE DEF S
<1>4. \A k \in 0 .. Len(ss) : k \in S
  BY <1>1, <1>2, <1>3, InductionTo
<1>5. Len(ss) \in S
  BY <1>1, <1>4
<1> QED BY <1>5 DEF S

(* FlattenSeq meets its recursion.                                         *)
LEMMA FlattenJoins ==
    ASSUME NEW X, NEW ss \in Seq(Seq(X)), ss # << >>
    PROVE  \E f \in [1 .. Len(ss) -> Seq(X)] :
              Joins(f, ss, Len(ss)) /\ FlattenSeq(ss) = f[Len(ss)]
<1>1. PICK g \in [1 .. Len(ss) -> Seq(X)] : Joins(g, ss, Len(ss))
  BY JoinsExist
<1>2. Len(ss) \in Nat /\ Len(ss) \in 1 .. Len(ss)
  OBVIOUS
<1> DEFINE Meets(h) == h = [i \in 1 .. Len(ss) |-> IF i = 1 THEN ss[i] ELSE h[i - 1] \o ss[i]]
           f == CHOOSE h : Meets(h)
<1>3. Meets(g)
  BY <1>1 DEF Joins
<1>4. Meets(f)
  BY <1>3, Zenon
<1>5. FlattenSeq(ss) = f[Len(ss)]
  BY DEF FlattenSeq
<1> HIDE DEF f
<1>6. Joins(f, ss, Len(ss))
  BY <1>4 DEF Joins
<1>7. f[Len(ss)] = g[Len(ss)]
  BY <1>1, <1>2, <1>6, JoinsAgree
<1> QED BY <1>1, <1>5, <1>7

(* FlattenSeq, one sequence at a time.                                     *)
LEMMA FlattenAppend ==
    ASSUME NEW X, NEW ss \in Seq(Seq(X)), NEW s \in Seq(X)
    PROVE  /\ FlattenSeq(ss) \in Seq(X)
           /\ FlattenSeq(Append(ss, s)) = FlattenSeq(ss) \o s
<1> DEFINE tt == Append(ss, s)
<1>0. tt \in Seq(Seq(X)) /\ Len(tt) = Len(ss) + 1 /\ Len(ss) \in Nat
  OBVIOUS
<1>1. tt \in Seq(Seq(X)) /\ tt # << >> /\ Len(tt) = Len(ss) + 1 /\ Len(ss) \in Nat
  BY <1>0, EmptySeq
<1>2. tt[Len(tt)] = s /\ \A i \in 1 .. Len(ss) : ss[i] = tt[i]
  BY <1>1
<1> HIDE DEF tt
<1>3. PICK g : /\ g \in [1 .. Len(tt) -> Seq(X)]
               /\ Joins(g, tt, Len(tt)) /\ FlattenSeq(tt) = g[Len(tt)]
  BY <1>1, FlattenJoins
<1>4. CASE ss = << >>
  <2>1. Len(tt) = 1
    BY <1>1, <1>4
  <2>2. FlattenSeq(tt) = s
    BY <1>2, <1>3, <2>1 DEF Joins
  <2>3. FlattenSeq(ss) = << >>
    BY <1>4 DEF FlattenSeq
  <2> QED BY <2>2, <2>3, EmptySeq, ConcatEmptySeq DEF tt
<1>5. CASE ss # << >>
  <2>1. PICK f : /\ f \in [1 .. Len(ss) -> Seq(X)]
                 /\ Joins(f, ss, Len(ss)) /\ FlattenSeq(ss) = f[Len(ss)]
    BY <1>5, FlattenJoins
  <2>2. Len(ss) \in 1 .. Len(ss) /\ Len(ss) + 1 \in 1 .. Len(tt) /\ Len(ss) + 1 # 1
    BY <1>1, <1>5
  <2>3. Joins(g, tt, Len(ss))
    <3>1. \A i \in 1 .. Len(ss) : i \in 1 .. Len(tt)
      BY <1>1
    <3> QED BY <1>3, <3>1 DEF Joins
  <2>4. \A i \in 1 .. Len(ss) : f[i] = g[i]
    <3>1. Len(ss) \in Nat /\ Joins(f, ss, Len(ss)) /\ \A i \in 1 .. Len(ss) : ss[i] = tt[i]
      BY <1>1, <1>2, <2>1
    <3> QED BY <2>3, <3>1, JoinsAgree, ZenonT(60)
  <2>5. g[Len(ss) + 1] = g[Len(ss)] \o s
    <3>1. (Len(ss) + 1) - 1 = Len(ss)
      BY <1>1
    <3> QED BY <1>1, <1>2, <1>3, <2>2, <3>1 DEF Joins
  <2> QED BY <1>1, <1>3, <2>1, <2>2, <2>4, <2>5 DEF tt
<1> QED BY <1>4, <1>5

----------------------------------------------------------------------------
(* FlattenSeq of sequences of which at most one is not empty is that one,  *)
(* and it is empty only if all are.                                        *)
Flattens(ss) ==
    /\ (\A j \in 1 .. Len(ss) : ss[j] = << >>) => FlattenSeq(ss) = << >>
    /\ \A i \in 1 .. Len(ss) :
          /\ ss[i] # << >> => FlattenSeq(ss) # << >>
          /\ (\A j \in 1 .. Len(ss) : j # i => ss[j] = << >>) => FlattenSeq(ss) = ss[i]

(* So it is for all sequences of sequences.                                *)
LEMMA FlattenShape ==
    ASSUME NEW X, NEW ss \in Seq(Seq(X))
    PROVE  Flattens(ss)
<1> DEFINE S == { tt \in Seq(Seq(X)) : Flattens(tt) }
<1>1. << >> \in S
  <2>1. << >> \in Seq(Seq(X)) /\ Len(<< >>) = 0
    BY EmptySeq
  <2>2. FlattenSeq(<< >>) = << >>
    BY <2>1 DEF FlattenSeq
  <2> QED BY <2>1, <2>2 DEF Flattens
<1>2. \A tt \in Seq(Seq(X)), t \in Seq(X) : tt \in S => Append(tt, t) \in S
  <2> SUFFICES ASSUME NEW tt \in Seq(Seq(X)), NEW t \in Seq(X), Flattens(tt)
               PROVE  Flattens(Append(tt, t)) /\ Append(tt, t) \in Seq(Seq(X))
    OBVIOUS
  <2> DEFINE n == Len(tt)
             more == Append(tt, t)
             joined == FlattenSeq(tt)
  <2>1. /\ more \in Seq(Seq(X)) /\ Len(more) = n + 1 /\ n \in Nat
        /\ more[n + 1] = t /\ \A i \in 1 .. n : more[i] = tt[i] /\ i \in 1 .. n + 1
    OBVIOUS
  <2>2. joined \in Seq(X) /\ FlattenSeq(more) = joined \o t
    BY FlattenAppend
  <2>3. /\ joined = << >> => FlattenSeq(more) = t
        /\ t = << >> => FlattenSeq(more) = joined
        /\ joined # << >> \/ t # << >> => FlattenSeq(more) # << >>
    BY <2>2, ConcatEmptySeq, ConcatEqualIffEmpty
  <2> HIDE DEF more
  <2>4. ASSUME \A j \in 1 .. n + 1 : more[j] = << >> PROVE FlattenSeq(more) = << >>
    <3>1. t = << >> /\ \A j \in 1 .. n : tt[j] = << >>
      BY <2>1, <2>4
    <3> QED BY <2>3, <3>1 DEF Flattens
  <2>5. ASSUME NEW i \in 1 .. n + 1, more[i] # << >> PROVE FlattenSeq(more) # << >>
    <3>1. CASE i = n + 1
      BY <2>1, <2>3, <2>5, <3>1
    <3>2. CASE i # n + 1
      <4>a. i \in 1 .. n
        BY <2>1, <3>2
      <4>b. more[i] = tt[i]
        BY <2>1, <4>a
      <4>1. i \in 1 .. n /\ tt[i] # << >>
        BY <2>5, <4>a, <4>b
      <4>2. joined # << >>
        BY <4>1 DEF Flattens
      <4> QED BY <2>3, <4>2
    <3> QED BY <3>1, <3>2
  <2>6. ASSUME NEW i \in 1 .. n + 1, \A j \in 1 .. n + 1 : j # i => more[j] = << >>
        PROVE  FlattenSeq(more) = more[i]
    <3>1. CASE i = n + 1
      <4>1. ASSUME NEW j \in 1 .. n PROVE tt[j] = << >>
        <5>1. j \in 1 .. n + 1 /\ j # i /\ more[j] = tt[j]
          BY <2>1, <3>1
        <5> QED BY <2>6, <5>1
      <4>2. joined = << >>
        BY <4>1 DEF Flattens
      <4> QED BY <2>1, <2>3, <3>1, <4>2
    <3>2. CASE i # n + 1
      <4>a. i \in 1 .. n /\ n + 1 \in 1 .. n + 1
        BY <2>1, <3>2
      <4>b. more[n + 1] = << >>
        BY <2>6, <3>2, <4>a
      <4>c. \A j \in 1 .. n : j # i => tt[j] = << >>
        BY <2>1, <2>6
      <4>1. i \in 1 .. n /\ t = << >> /\ \A j \in 1 .. n : j # i => tt[j] = << >>
        BY <2>1, <4>a, <4>b, <4>c
      <4>2. joined = tt[i]
        BY <4>1 DEF Flattens
      <4> QED BY <2>1, <2>3, <4>1, <4>2
    <3> QED BY <3>1, <3>2
  <2> QED BY <2>1, <2>4, <2>5, <2>6 DEF Flattens, more
<1> HIDE DEF S
<1>3. Seq(Seq(X)) \subseteq S
  BY <1>1, <1>2, InductionOnSeq
<1> QED BY <1>3 DEF S

----------------------------------------------------------------------------
(* The codec of extra keys                                                 *)

(* An escaped byte is a byte or three, all of which a name may have.       *)
LEMMA EscapedForms ==
    ASSUME NEW b \in Byte
    PROVE  /\ b = "%" \/ b \in Illegal =>
                \E d, e \in Byte \ (Illegal \cup {"%"}) :
                    Hex[b] = <<d, e>> /\ EscapedByte(b) = <<"%", d, e>>
           /\ b # "%" /\ b \notin Illegal => EscapedByte(b) = <<b>>
           /\ EscapedByte(b) \in Seq(Byte \ Illegal)
<1>0. \E d, e \in Byte \ (Illegal \cup {"%"}) : Hex[b] = <<d, e>> /\ Lower[d] = d /\ Lower[e] = e
  BY CodecAssumption
<1>1. PICK d, e \in Byte \ (Illegal \cup {"%"}) : Hex[b] = <<d, e>>
  BY <1>0
<1>2. "%" \in Byte \ Illegal
  BY CodecAssumption
<1>3. CASE b = "%" \/ b \in Illegal
  <2>1. EscapedByte(b) = <<"%">> \o <<d, e>>
    BY <1>1, <1>3 DEF EscapedByte, ShouldEscapeHeaderKeyByte, LegalHeaderKeyByte
  <2>2. EscapedByte(b) = <<"%", d, e>>
    <3>1. /\ <<"%">> \in Seq(Byte) /\ <<d, e>> \in Seq(Byte) /\ <<"%", d, e>> \in Seq(Byte)
          /\ Len(<<"%">>) = 1 /\ Len(<<d, e>>) = 2 /\ Len(<<"%", d, e>>) = 3
      BY <1>1, <1>2
    <3>2. /\ <<"%">> \o <<d, e>> \in Seq(Byte) /\ Len(<<"%">> \o <<d, e>>) = 3
          /\ \A i \in 1 .. 3 : (<<"%">> \o <<d, e>>)[i] =
                                 IF i <= 1 THEN <<"%">>[i] ELSE <<d, e>>[i - 1]
      BY <3>1, ConcatProperties
    <3>3. \A i \in 1 .. 3 : (<<"%">> \o <<d, e>>)[i] = <<"%", d, e>>[i]
      BY <3>2
    <3> QED BY <2>1, <3>1, <3>2, <3>3, SeqEqual
  <2> QED BY <1>1, <1>2, <1>3, <2>2
<1>4. CASE b # "%" /\ b \notin Illegal
  <2>1. EscapedByte(b) = <<b>>
    BY <1>4 DEF EscapedByte, ShouldEscapeHeaderKeyByte, LegalHeaderKeyByte
  <2>2. <<b>> \in Seq(Byte \ Illegal)
    BY <1>4
  <2> QED BY <1>4, <2>1, <2>2
<1> QED BY <1>3, <1>4

(* A key is escaped byte by byte, into what may stand in a header name.    *)
LEMMA EscapeAppend ==
    ASSUME NEW key \in Seq(Byte), NEW b \in Byte
    PROVE  /\ HeaderKeyEscape(key) \in Seq(Byte \ Illegal)
           /\ HeaderKeyEscape(Append(key, b)) = HeaderKeyEscape(key) \o EscapedByte(b)
<1> DEFINE pieces == [i \in DOMAIN key |-> EscapedByte(key[i])]
           more == [i \in DOMAIN Append(key, b) |-> EscapedByte(Append(key, b)[i])]
<1>1. /\ DOMAIN key = 1 .. Len(key) /\ Len(key) \in Nat /\ \A i \in 1 .. Len(key) : key[i] \in Byte
      /\ DOMAIN Append(key, b) = 1 .. Len(key) + 1
  OBVIOUS
<1>2. \A i \in 1 .. Len(key) : EscapedByte(key[i]) \in Seq(Byte \ Illegal)
  BY <1>1, EscapedForms
<1>3. pieces \in Seq(Seq(Byte \ Illegal)) /\ Len(pieces) = Len(key)
  BY <1>1, <1>2
<1>4. EscapedByte(b) \in Seq(Byte \ Illegal)
  BY EscapedForms
<1>5. more = Append(pieces, EscapedByte(b))
  <2>1. \A i \in 1 .. Len(key) + 1 :
           Append(key, b)[i] = IF i = Len(key) + 1 THEN b ELSE key[i]
    OBVIOUS
  <2>2. \A i \in 1 .. Len(key) + 1 :
           Append(pieces, EscapedByte(b))[i] =
             IF i = Len(key) + 1 THEN EscapedByte(b) ELSE EscapedByte(key[i])
    BY <1>1, <1>3, <1>4
  <2>3. \A i \in 1 .. Len(key) + 1 : more[i] = Append(pieces, EscapedByte(b))[i]
    BY <1>1, <2>1, <2>2
  <2> QED BY <1>1, <1>3, <1>4, <2>3
<1> HIDE DEF pieces, more
<1> QED BY <1>3, <1>4, <1>5, FlattenAppend DEF HeaderKeyEscape, pieces, more

(* Lower case, piece by piece.                                             *)
LEMMA LowerConcat ==
    ASSUME NEW s \in Seq(Byte), NEW w \in Seq(Byte)
    PROVE  /\ ToLower(s) \in Seq(Byte) /\ Len(ToLower(s)) = Len(s)
           /\ ToLower(s \o w) = ToLower(s) \o ToLower(w)
<1>1. \A b \in Byte : Lower[b] \in Byte
  BY CodecAssumption
<1>2. ASSUME NEW x \in Seq(Byte)
      PROVE  /\ ToLower(x) \in Seq(Byte) /\ Len(ToLower(x)) = Len(x)
             /\ \A i \in 1 .. Len(x) : ToLower(x)[i] = Lower[x[i]]
  <2>1. DOMAIN x = 1 .. Len(x) /\ Len(x) \in Nat /\ \A i \in 1 .. Len(x) : x[i] \in Byte
    OBVIOUS
  <2> QED BY <1>1, <2>1 DEF ToLower
<1> DEFINE n == Len(s)
           m == Len(w)
<1>3. /\ n \in Nat /\ m \in Nat
      /\ s \o w \in Seq(Byte) /\ Len(s \o w) = n + m
      /\ \A i \in 1 .. n + m : (s \o w)[i] = IF i <= n THEN s[i] ELSE w[i - n]
  BY LenProperties, ConcatProperties
<1>4. /\ ToLower(s) \o ToLower(w) \in Seq(Byte) /\ Len(ToLower(s) \o ToLower(w)) = n + m
      /\ \A i \in 1 .. n + m : (ToLower(s) \o ToLower(w))[i] =
           IF i <= n THEN ToLower(s)[i] ELSE ToLower(w)[i - n]
  <2>1. /\ ToLower(s) \in Seq(Byte) /\ Len(ToLower(s)) = n
        /\ ToLower(w) \in Seq(Byte) /\ Len(ToLower(w)) = m
    BY <1>2
  <2> DEFINE x == ToLower(s)
             y == ToLower(w)
  <2> HIDE DEF x, y
  <2>2. /\ x \o y \in Seq(Byte) /\ Len(x \o y) = Len(x) + Len(y)
        /\ \A i \in 1 .. Len(x) + Len(y) : (x \o y)[i] = IF i <= Len(x) THEN x[i] ELSE y[i - Len(x)]
    BY <2>1, ConcatProperties DEF x, y
  <2> QED BY <2>1, <2>2 DEF x, y
<1>5. /\ ToLower(s \o w) \in Seq(Byte) /\ Len(ToLower(s \o w)) = n + m
      /\ \A i \in 1 .. n + m : ToLower(s \o w)[i] = Lower[(s \o w)[i]]
  BY <1>2, <1>3
<1>6. ASSUME NEW i \in 1 .. n + m PROVE ToLower(s \o w)[i] = (ToLower(s) \o ToLower(w))[i]
  <2>1. CASE i <= n
    <3>1. i \in 1 .. n
      BY <1>3, <2>1
    <3> QED BY <1>2, <1>3, <1>4, <1>5, <2>1, <3>1
  <2>2. CASE ~(i <= n)
    <3>1. i - n \in 1 .. m
      BY <1>3, <2>2
    <3>2. ToLower(s \o w)[i] = Lower[w[i - n]]
      BY <1>3, <1>5, <2>2
    <3>3. (ToLower(s) \o ToLower(w))[i] = ToLower(w)[i - n]
      BY <1>3, <1>4, <2>2
    <3>4. ToLower(w)[i - n] = Lower[w[i - n]]
      BY <1>2, <3>1
    <3> QED BY <3>2, <3>3, <3>4
  <2> QED BY <2>1, <2>2
<1>7. ToLower(s \o w) = ToLower(s) \o ToLower(w)
  BY <1>4, <1>5, <1>6, SeqEqual
<1> QED BY <1>2, <1>7

(* A byte in lower case is escaped as the byte is, in lower case.          *)
LEMMA LowerByte ==
    ASSUME NEW b \in Byte
    PROVE  /\ Lower[b] \in Byte
           /\ ToLower(<<b>>) = <<Lower[b]>>
           /\ ToLower(EscapedByte(b)) = EscapedByte(Lower[b])
<1>1. \A x : ToLower(<<x>>) = <<Lower[x]>>
  BY DEF ToLower
<1>2. Lower[b] \in Byte
  BY CodecAssumption
<1>3. CASE b = "%" \/ b \in Illegal
  <2>1. Lower[b] = b
    BY <1>3, CodecAssumption
  <2>2. PICK d, e \in Byte \ (Illegal \cup {"%"}) :
           Hex[b] = <<d, e>> /\ Lower[d] = d /\ Lower[e] = e
    BY CodecAssumption
  <2>3. PICK x, y \in Byte : Hex[b] = <<x, y>> /\ EscapedByte(b) = <<"%", x, y>>
    BY <1>3, EscapedForms
  <2>4. x = d /\ y = e
    BY <2>2, <2>3
  <2>5. Lower["%"] = "%"
    BY CodecAssumption
  <2>6. ToLower(<<"%", x, y>>) = <<"%", x, y>>
    BY <2>2, <2>4, <2>5 DEF ToLower
  <2> QED BY <1>1, <1>2, <2>1, <2>3, <2>6
<1>4. CASE b # "%" /\ b \notin Illegal
  <2>1. EscapedByte(b) = <<b>>
    BY <1>4, EscapedForms
  <2>2. Lower[b] # "%" /\ Lower[b] \notin Illegal
    BY <1>4, CodecAssumption
  <2>3. EscapedByte(Lower[b]) = <<Lower[b]>>
    BY <1>2, <2>2, EscapedForms
  <2> QED BY <1>1, <1>2, <2>1, <2>3
<1> QED BY <1>3, <1>4

(* So escaping and folding commute, and a key is folded on its way whether *)
(* it is escaped or not.                                                   *)
LEMMA EscapeLower ==
    ASSUME NEW key \in Seq(Byte)
    PROVE  /\ ToLower(key) \in Seq(Byte)
           /\ ToLower(HeaderKeyEscape(key)) = HeaderKeyEscape(ToLower(key))
<1> DEFINE S == { k \in Seq(Byte) : ToLower(HeaderKeyEscape(k)) = HeaderKeyEscape(ToLower(k)) }
<1>1. << >> \in S
  <2>1. << >> \in Seq(Byte) /\ DOMAIN << >> = {} /\ Len(<< >>) = 0
    BY EmptySeq
  <2>2. FlattenSeq(<< >>) = << >>
    BY <2>1 DEF FlattenSeq
  <2>3. HeaderKeyEscape(<< >>) = << >>
    BY <2>1, <2>2 DEF HeaderKeyEscape
  <2>4. ToLower(<< >>) = << >>
    BY <2>1 DEF ToLower
  <2> QED BY <2>1, <2>3, <2>4
<1>2. \A k \in Seq(Byte), b \in Byte : k \in S => Append(k, b) \in S
  <2> SUFFICES ASSUME NEW k \in Seq(Byte), NEW b \in Byte, k \in S
               PROVE  Append(k, b) \in Seq(Byte) /\
                      ToLower(HeaderKeyEscape(Append(k, b))) = HeaderKeyEscape(ToLower(Append(k, b)))
    OBVIOUS
  <2> DEFINE s == HeaderKeyEscape(k)
             w == EscapedByte(b)
  <2>1. s \in Seq(Byte) /\ w \in Seq(Byte)
    <3>1. s \in Seq(Byte \ Illegal) /\ w \in Seq(Byte \ Illegal)
      BY EscapeAppend, EscapedForms
    <3> QED BY <3>1, SeqMonotonic
  <2>2. HeaderKeyEscape(Append(k, b)) = s \o w
    BY EscapeAppend
  <2>3. ToLower(s) = HeaderKeyEscape(ToLower(k)) /\ ToLower(k) \in Seq(Byte)
    BY LowerConcat
  <2>4. ToLower(w) = EscapedByte(Lower[b]) /\ Lower[b] \in Byte /\ ToLower(<<b>>) = <<Lower[b]>>
    BY LowerByte
  <2>5. ToLower(s \o w) = ToLower(s) \o ToLower(w)
    BY <2>1, LowerConcat
  <2> HIDE DEF s, w
  <2>6. Append(k, b) = k \o <<b>> /\ <<b>> \in Seq(Byte) /\ Append(k, b) \in Seq(Byte)
    OBVIOUS
  <2>7. ToLower(Append(k, b)) = Append(ToLower(k), Lower[b])
    <3>1. ToLower(k \o <<b>>) = ToLower(k) \o <<Lower[b]>>
      BY <2>4, <2>6, LowerConcat
    <3>2. ToLower(k) \o <<Lower[b]>> = Append(ToLower(k), Lower[b])
      BY <2>3, <2>4
    <3> QED BY <2>6, <3>1, <3>2
  <2>8. HeaderKeyEscape(Append(ToLower(k), Lower[b]))
          = HeaderKeyEscape(ToLower(k)) \o EscapedByte(Lower[b])
    BY <2>3, <2>4, EscapeAppend
  <2> QED BY <2>2, <2>3, <2>4, <2>5, <2>6, <2>7, <2>8
<1> HIDE DEF S
<1>3. key \in S
  BY <1>1, <1>2, InductionOnSeq
<1>4. ToLower(key) \in Seq(Byte)
  BY LowerConcat
<1> QED BY <1>3, <1>4 DEF S

(* What UnescapeExtraKey puts together of a suffix without a bad escape.   *)
Pieces(s) == [i \in DOMAIN s |-> UnescapedAt(s, i)]

(* They are sequences of bytes, one for each byte of the suffix.           *)
LEMMA PiecesType ==
    ASSUME NEW s \in Seq(Byte), WellEscaped(s)
    PROVE  Pieces(s) \in Seq(Seq(Byte)) /\ Len(Pieces(s)) = Len(s)
<1>1. DOMAIN s = 1 .. Len(s) /\ Len(s) \in Nat /\ \A i \in 1 .. Len(s) : s[i] \in Byte
  OBVIOUS
<1>2. ASSUME NEW i \in 1 .. Len(s) PROVE UnescapedAt(s, i) \in Seq(Byte)
  <2>1. CASE s[i] = "%"
    <3>1. \E b \in Byte : Hex[b] = DigitsAt(s, i)
      BY <1>1, <2>1 DEF WellEscaped
    <3>2. (CHOOSE b \in Byte : Hex[b] = DigitsAt(s, i)) \in Byte
      BY <3>1
    <3>3. UnescapedAt(s, i) = <<CHOOSE b \in Byte : Hex[b] = DigitsAt(s, i)>>
      BY <2>1 DEF UnescapedAt
    <3> QED BY <3>2, <3>3
  <2>2. CASE s[i] # "%" /\ IsHexDigitOf(s, i)
    BY <2>2, EmptySeq DEF UnescapedAt
  <2>3. CASE s[i] # "%" /\ ~IsHexDigitOf(s, i)
    BY <1>1, <2>3 DEF UnescapedAt
  <2> QED BY <2>1, <2>2, <2>3
<1> QED BY <1>1, <1>2 DEF Pieces

(* An unescaped key is made of bytes.                                      *)
LEMMA UnescapeType == ASSUME NEW s \in Seq(Byte) PROVE UnescapeExtraKey(s) \in Seq(Byte)
BY PiecesType, FlattenAppend, EmptySeq DEF UnescapeExtraKey, Pieces

(* What comes after a suffix without a bad escape does not change how the  *)
(* suffix is read.                                                         *)
LEMMA PiecesStay ==
    ASSUME NEW s \in Seq(Byte), WellEscaped(s), NEW w \in Seq(Byte), NEW i \in 1 .. Len(s)
    PROVE  UnescapedAt(s \o w, i) = UnescapedAt(s, i)
<1> DEFINE t == s \o w
<1>1. Len(s) \in Nat /\ DOMAIN s = 1 .. Len(s)
  OBVIOUS
<1>2. \A j \in 1 .. Len(s) : t[j] = s[j]
  OBVIOUS
<1> HIDE DEF t
<1>3. IsHexDigitOf(t, i) <=> IsHexDigitOf(s, i)
  BY <1>1, <1>2 DEF IsHexDigitOf
<1>4. s[i] = "%" => DigitsAt(t, i) = DigitsAt(s, i)
  <2> SUFFICES ASSUME s[i] = "%" PROVE DigitsAt(t, i) = DigitsAt(s, i)
    OBVIOUS
  <2>1. i + 2 <= Len(s)
    BY <1>1 DEF WellEscaped
  <2> QED BY <1>1, <1>2, <2>1 DEF DigitsAt
<1> QED BY <1>2, <1>3, <1>4 DEF UnescapedAt, t

(* No byte after such a suffix is a digit of an escape in it.              *)
LEMMA NoOpenEscape ==
    ASSUME NEW s \in Seq(Byte), WellEscaped(s), NEW w \in Seq(Byte), NEW i \in 1 .. Len(s),
           i + 2 > Len(s)
    PROVE  (s \o w)[i] # "%"
<1>1. Len(s) \in Nat /\ DOMAIN s = 1 .. Len(s) /\ (s \o w)[i] = s[i]
  OBVIOUS
<1> QED BY <1>1 DEF WellEscaped

(* Where the second of two sequences is in the longer one.                 *)
LEMMA BehindConcat ==
    ASSUME NEW s \in Seq(Byte), NEW w \in Seq(Byte), NEW i \in 1 .. Len(w)
    PROVE  (s \o w)[Len(s) + i] = w[i]
OBVIOUS

(* Behind it an escaped byte is read as that byte.                         *)
LEMMA UnescapeStep ==
    ASSUME NEW s \in Seq(Byte), WellEscaped(s), NEW b \in Byte
    PROVE  LET t == s \o EscapedByte(b)
           IN  WellEscaped(t) /\ FlattenSeq(Pieces(t)) = Append(FlattenSeq(Pieces(s)), b)
<1> DEFINE n == Len(s)
           w == EscapedByte(b)
           t == s \o w
<1>1. /\ n \in Nat /\ DOMAIN s = 1 .. n
      /\ Pieces(s) \in Seq(Seq(Byte)) /\ Len(Pieces(s)) = n
      /\ \A i \in 1 .. n : Pieces(s)[i] = UnescapedAt(s, i)
  BY PiecesType DEF Pieces
<1>2. w \in Seq(Byte)
  <2>1. w \in Seq(Byte \ Illegal)
    BY EscapedForms
  <2> QED BY <2>1, SeqMonotonic
<1> HIDE DEF w
<1>3. /\ t \in Seq(Byte) /\ Len(t) = n + Len(w) /\ DOMAIN t = 1 .. n + Len(w)
      /\ \A i \in 1 .. n : t[i] = s[i]
  BY <1>1, <1>2, ConcatProperties
<1>4. \A i \in 1 .. n : UnescapedAt(t, i) = UnescapedAt(s, i)
  BY <1>2, PiecesStay
<1>5. \A i \in 1 .. n : i + 2 > n => t[i] # "%"
  BY <1>2, NoOpenEscape
<1>6. ASSUME NEW i \in 1 .. n, t[i] = "%"
      PROVE  i + 2 <= n /\ \E c \in Byte : Hex[c] = DigitsAt(t, i)
  <2>1. s[i] = "%"
    BY <1>3, <1>6
  <2>2. i + 2 <= n /\ \E c \in Byte : Hex[c] = DigitsAt(s, i)
    BY <1>1, <2>1 DEF WellEscaped
  <2>3. DigitsAt(s, i) = DigitsAt(t, i)
    BY <1>1, <1>3, <2>2 DEF DigitsAt
  <2> QED BY <2>2, <2>3
<1>7. FlattenSeq(Pieces(s)) \in Seq(Byte)
  BY <1>1, FlattenAppend, EmptySeq
<1>8. CASE b # "%" /\ b \notin Illegal
  <2>1. w = <<b>> /\ Len(w) = 1
    BY <1>8, EscapedForms DEF w
  <2>2. t[n + 1] = b
    BY <1>1, <1>2, <2>1, ConcatProperties
  <2>3. UnescapedAt(t, n + 1) = <<b>>
    <3> HIDE DEF t
    <3>1. ~IsHexDigitOf(t, n + 1)
      <4>1. (n + 1) - 1 = n /\ (n + 1) - 2 = n - 1
        BY <1>1
      <4>2. /\ n + 1 > 1 => n \in 1 .. n /\ n + 2 > n
            /\ n + 1 > 2 => n - 1 \in 1 .. n /\ (n - 1) + 2 > n
        BY <1>1
      <4> QED BY <1>5, <4>1, <4>2 DEF IsHexDigitOf
    <3> QED BY <1>8, <2>2, <3>1 DEF UnescapedAt
  <2>4. WellEscaped(t)
    <3> HIDE DEF t
    <3> SUFFICES ASSUME NEW i \in 1 .. n + 1, t[i] = "%"
                 PROVE  i + 2 <= n + 1 /\ \E c \in Byte : Hex[c] = DigitsAt(t, i)
      BY <1>3, <2>1 DEF WellEscaped
    <3>1. i \in 1 .. n
      BY <1>1, <1>8, <2>2
    <3>2. i + 2 <= n /\ \E c \in Byte : Hex[c] = DigitsAt(t, i)
      BY <1>6, <3>1
    <3> QED BY <1>1, <3>2
  <2>5. Pieces(t) = Append(Pieces(s), <<b>>)
    <3>1. Pieces(t) \in Seq(Seq(Byte)) /\ Len(Pieces(t)) = n + 1
      BY <1>3, <2>1, <2>4, PiecesType
    <3>2. \A i \in 1 .. n + 1 : Pieces(t)[i] = UnescapedAt(t, i)
      BY <1>3, <2>1 DEF Pieces
    <3> HIDE DEF t
    <3>3. \A i \in 1 .. n + 1 : Pieces(t)[i] = Append(Pieces(s), <<b>>)[i]
      BY <1>1, <1>4, <2>3, <3>2
    <3> QED BY <1>1, <3>1, <3>3
  <2>6. FlattenSeq(Pieces(t)) = FlattenSeq(Pieces(s)) \o <<b>>
    <3>1. <<b>> \in Seq(Byte)
      OBVIOUS
    <3> QED BY <1>1, <2>5, <3>1, FlattenAppend
  <2> QED BY <1>7, <2>4, <2>6 DEF w
<1>9. CASE b = "%" \/ b \in Illegal
  <2>1. PICK d, e \in Byte \ (Illegal \cup {"%"}) : Hex[b] = <<d, e>> /\ w = <<"%", d, e>>
    BY <1>9, EscapedForms DEF w
  <2>2. /\ Len(w) = 3 /\ t[n + 1] = "%" /\ t[n + 2] = d /\ t[n + 3] = e
    <3>1. Len(w) = 3 /\ w[1] = "%" /\ w[2] = d /\ w[3] = e
      BY <2>1
    <3>2. ASSUME NEW i \in 1 .. 3 PROVE t[n + i] = w[i]
      <4>1. i \in 1 .. Len(w)
        BY <3>1
      <4> QED BY <1>2, <4>1, BehindConcat
    <3> HIDE DEF t
    <3> QED BY <3>1, <3>2
  <2>3. DigitsAt(t, n + 1) = Hex[b]
    BY <1>1, <2>1, <2>2 DEF DigitsAt
  <2> HIDE DEF t
  <2>4. /\ UnescapedAt(t, n + 1) = <<b>>
        /\ UnescapedAt(t, n + 2) = << >>
        /\ UnescapedAt(t, n + 3) = << >>
    <3>1. (CHOOSE c \in Byte : Hex[c] = DigitsAt(t, n + 1)) = b
      BY <2>3, CodecAssumption
    <3>2. IsHexDigitOf(t, n + 2) /\ IsHexDigitOf(t, n + 3)
      BY <1>1, <2>2 DEF IsHexDigitOf
    <3>3. d # "%" /\ e # "%"
      BY <2>1
    <3>4. UnescapedAt(t, n + 1) = <<b>>
      BY <2>2, <3>1 DEF UnescapedAt
    <3> QED BY <2>2, <3>2, <3>3, <3>4 DEF UnescapedAt
  <2>5. WellEscaped(t)
    <3> SUFFICES ASSUME NEW i \in 1 .. n + 3, t[i] = "%"
                 PROVE  i + 2 <= n + 3 /\ \E c \in Byte : Hex[c] = DigitsAt(t, i)
      BY <1>3, <2>2 DEF WellEscaped
    <3>0. i \in 1 .. n \/ i = n + 1 \/ i = n + 2 \/ i = n + 3
      BY <1>1
    <3>1. i \in 1 .. n \/ i = n + 1
      BY <2>1, <2>2, <3>0
    <3> QED BY <1>1, <1>6, <2>3, <3>1
  <2> DEFINE one == Append(Pieces(s), <<b>>)
             two == Append(one, << >>)
             three == Append(two, << >>)
  <2>6. << >> \in Seq(Byte) /\ <<b>> \in Seq(Byte)
    BY EmptySeq
  <2>7. /\ one \in Seq(Seq(Byte)) /\ Len(one) = n + 1
        /\ two \in Seq(Seq(Byte)) /\ Len(two) = n + 2
        /\ three \in Seq(Seq(Byte)) /\ Len(three) = n + 3
    BY <1>1, <2>6
  <2>8. Pieces(t) = three
    <3>1. Pieces(t) \in Seq(Seq(Byte)) /\ Len(Pieces(t)) = n + 3
      BY <1>3, <2>2, <2>5, PiecesType
    <3>2. \A i \in 1 .. n + 3 : Pieces(t)[i] = UnescapedAt(t, i)
      BY <1>3, <2>2 DEF Pieces
    <3>3. three[n + 1] = <<b>> /\ three[n + 2] = << >> /\ three[n + 3] = << >>
      BY <1>1, <2>6, <2>7
    <3>4. \A i \in 1 .. n : three[i] = UnescapedAt(s, i)
      BY <1>1, <2>6, <2>7
    <3> HIDE DEF three
    <3>5. ASSUME NEW i \in 1 .. n + 3 PROVE Pieces(t)[i] = three[i]
      <4>1. i \in 1 .. n \/ i = n + 1 \/ i = n + 2 \/ i = n + 3
        BY <1>1
      <4>2. CASE i \in 1 .. n
        BY <1>4, <3>2, <3>4, <4>2
      <4> QED BY <2>4, <3>2, <3>3, <4>1, <4>2
    <3> QED BY <1>1, <2>7, <3>1, <3>5, SeqEqual
  <2>9. FlattenSeq(three) = FlattenSeq(Pieces(s)) \o <<b>>
    <3>1. FlattenSeq(one) = FlattenSeq(Pieces(s)) \o <<b>> /\ FlattenSeq(one) \in Seq(Byte)
      BY <1>1, <2>6, <2>7, FlattenAppend
    <3> HIDE DEF one
    <3>2. FlattenSeq(two) = FlattenSeq(one) \o << >> /\ FlattenSeq(two) \in Seq(Byte)
      BY <2>6, <2>7, FlattenAppend
    <3> HIDE DEF two
    <3>3. FlattenSeq(three) = FlattenSeq(two) \o << >>
      BY <2>6, <2>7, FlattenAppend
    <3> QED BY <3>1, <3>2, <3>3, ConcatEmptySeq
  <2> QED BY <1>7, <2>5, <2>8, <2>9 DEF t, w
<1> QED BY <1>8, <1>9

(* The backend's unescaping undoes headerKeyEscape, for every key and      *)
(* every table of bytes, and what stands in the header name is legal.      *)
THEOREM KeyCodec ==
    ASSUME NEW key \in Seq(Byte)
    PROVE  /\ UnescapeExtraKey(HeaderKeyEscape(key)) = key
           /\ ToSet(HeaderKeyEscape(key)) \cap Illegal = {}
<1> DEFINE S == { k \in Seq(Byte) : LET s == HeaderKeyEscape(k)
                                    IN  WellEscaped(s) /\ FlattenSeq(Pieces(s)) = k }
<1>1. << >> \in S
  <2>1. << >> \in Seq(Byte) /\ DOMAIN << >> = {} /\ Len(<< >>) = 0
    BY EmptySeq
  <2>2. FlattenSeq(<< >>) = << >>
    BY <2>1 DEF FlattenSeq
  <2>3. HeaderKeyEscape(<< >>) = << >>
    BY <2>1, <2>2 DEF HeaderKeyEscape
  <2>4. WellEscaped(<< >>) /\ Pieces(<< >>) = << >>
    BY <2>1 DEF WellEscaped, Pieces
  <2> QED BY <2>1, <2>2, <2>3, <2>4
<1>2. \A k \in Seq(Byte), b \in Byte : k \in S => Append(k, b) \in S
  <2> SUFFICES ASSUME NEW k \in Seq(Byte), NEW b \in Byte, k \in S PROVE Append(k, b) \in S
    OBVIOUS
  <2> DEFINE s == HeaderKeyEscape(k)
  <2>1. s \in Seq(Byte)
    <3>1. s \in Seq(Byte \ Illegal)
      BY EscapeAppend
    <3> QED BY <3>1, SeqMonotonic
  <2>2. WellEscaped(s) /\ FlattenSeq(Pieces(s)) = k
    OBVIOUS
  <2>3. HeaderKeyEscape(Append(k, b)) = s \o EscapedByte(b)
    BY EscapeAppend
  <2> HIDE DEF s
  <2>4. Append(k, b) \in Seq(Byte)
    OBVIOUS
  <2> QED BY <2>1, <2>2, <2>3, <2>4, UnescapeStep
<1> HIDE DEF S
<1>3. key \in S
  BY <1>1, <1>2, InductionOnSeq
<1>4. HeaderKeyEscape(key) \in Seq(Byte \ Illegal)
  <2>1. "%" \in Byte
    BY CodecAssumption
  <2> QED BY <2>1, EscapeAppend
<1>5. ToSet(HeaderKeyEscape(key)) \cap Illegal = {}
  BY <1>4 DEF ToSet
<1>6. UnescapeExtraKey(HeaderKeyEscape(key)) = key
  BY <1>3 DEF S, UnescapeExtraKey, Pieces
<1> QED BY <1>5, <1>6

----------------------------------------------------------------------------
(* Users in headers                                                        *)

(* An order of a finite set has every member at one place.                 *)
LEMMA OrderCovers ==
    ASSUME NEW S, IsFiniteSet(S)
    PROVE  /\ SetToSeqs(S) # {}
           /\ \A order \in SetToSeqs(S) :
                /\ DOMAIN order = 1 .. Cardinality(S)
                /\ \A i \in DOMAIN order : order[i] \in S
                /\ \A x \in S : \E i \in DOMAIN order : order[i] = x
                /\ \A i, j \in DOMAIN order : i # j => order[i] # order[j]
<1> DEFINE n == Cardinality(S)
<1>1. n \in Nat /\ ExistsBijection(1 .. n, S)
  BY FS_CardinalityType
<1>2. IsFiniteSet(1 .. n) /\ Cardinality(1 .. n) = n
  BY <1>1, FS_Interval
<1> HIDE DEF n
<1>3. SetToSeqs(S) = { f \in [1 .. n -> S] : \A i, j \in 1 .. n : i # j => f[i] # f[j] }
  BY DEF SetToSeqs, n
<1>4. SetToSeqs(S) = Injection(1 .. n, S)
  BY <1>3 DEF Injection, IsInjective
<1>5. SetToSeqs(S) # {}
  BY <1>1, <1>4 DEF ExistsBijection, Bijection
<1>6. ASSUME NEW order \in SetToSeqs(S)
      PROVE  /\ order \in [1 .. n -> S]
             /\ \A x \in S : \E i \in 1 .. n : order[i] = x
             /\ \A i, j \in 1 .. n : i # j => order[i] # order[j]
  <2>1. order \in Surjection(1 .. n, S)
    BY <1>2, <1>4, FS_Injection DEF n
  <2> QED BY <1>3, <2>1 DEF Surjection
<1> QED BY <1>5, <1>6 DEF n

(* A user whose extra keys and values a header map may have carried.       *)
IsUser(u, X) ==
    /\ u = [username |-> u.username, uid |-> u.uid, groups |-> u.groups, extra |-> u.extra]
    /\ u.extra = [key \in DOMAIN u.extra |-> u.extra[key]]
    /\ IsFiniteSet(DOMAIN u.extra) /\ DOMAIN u.extra \subseteq Seq(Byte)
    /\ \A key \in DOMAIN u.extra : u.extra[key] \in Seq(X) /\ u.extra[key] # << >>

(* The lines of a header map.                                              *)
Lines(h) == UNION { ToSet(h[n]) : n \in DOMAIN h }

(* What Gather puts together under a name.                                 *)
Gathered(lines, order, names, name) ==
    [i \in DOMAIN order |-> IF names[i] = name THEN lines[order[i]] ELSE << >>]

(* The entries of an order have lines.                                     *)
LinesIn(X, lines, order, k) ==
    k \in Nat /\ DOMAIN order = 1 .. k /\ \A i \in 1 .. k : lines[order[i]] \in Seq(X)

(* What Gather puts together: sequences of lines, one for each entry.      *)
PiecesOf(pieces, X, lines, order, names, name, k) ==
    /\ pieces \in Seq(Seq(X)) /\ Len(pieces) = k
    /\ \A i \in 1 .. k : pieces[i] = IF names[i] = name THEN lines[order[i]] ELSE << >>

(* It does.                                                                *)
LEMMA GatheredType ==
    ASSUME NEW X, NEW lines, NEW k, NEW order, NEW names, NEW name, LinesIn(X, lines, order, k)
    PROVE  PiecesOf(Gathered(lines, order, names, name), X, lines, order, names, name, k)
<1> DEFINE pieces == Gathered(lines, order, names, name)
<1>1. pieces = [i \in 1 .. k |-> IF names[i] = name THEN lines[order[i]] ELSE << >>]
  BY DEF Gathered, LinesIn
<1>2. << >> \in Seq(X)
  BY EmptySeq
<1> HIDE DEF pieces
<1>3. pieces \in [1 .. k -> Seq(X)]
  BY <1>1, <1>2 DEF LinesIn
<1>4. pieces \in Seq(Seq(X)) /\ Len(pieces) = k
  BY <1>3 DEF LinesIn
<1> QED BY <1>1, <1>4 DEF pieces, PiecesOf

(* Gather, name by name.                                                   *)
ByName(g, lines, order, names, k) ==
    /\ DOMAIN g = { names[i] : i \in 1 .. k } /\ g = [name \in DOMAIN g |-> g[name]]
    /\ \A i \in 1 .. k : g[names[i]] = FlattenSeq(Gathered(lines, order, names, names[i]))

(* It is that.                                                             *)
LEMMA GatherAt ==
    ASSUME NEW lines, NEW k, NEW order, NEW names, DOMAIN order = 1 .. k
    PROVE  ByName(Gather(lines, order, names), lines, order, names, k)
<1> DEFINE value(name) == FlattenSeq(Gathered(lines, order, names, name))
           of == { names[i] : i \in 1 .. k }
           g == Gather(lines, order, names)
<1>1. g = [name \in of |-> value(name)]
  BY DEF Gather, Gathered
<1> HIDE DEF value, g
<1>2. DOMAIN g = of /\ g = [name \in DOMAIN g |-> g[name]]
  BY <1>1
<1>3. ASSUME NEW i \in 1 .. k PROVE g[names[i]] = value(names[i])
  <2>1. names[i] \in of
    OBVIOUS
  <2> HIDE DEF of
  <2> QED BY <1>1, <2>1
<1> HIDE DEF of
<1>4. \A i \in 1 .. k : g[names[i]] = value(names[i])
  BY <1>3
<1> QED BY <1>2, <1>4 DEF value, g, of, ByName

(* A finite map to lines.                                                  *)
IsMap(g, X) ==
    IsFiniteSet(DOMAIN g) /\ \A name \in DOMAIN g : g[name] \in Seq(X) /\ g[name] # << >>

(* Gather leaves lines under finitely many names.                          *)
LEMMA GatherType ==
    ASSUME NEW X, NEW lines, NEW k, NEW order, NEW names, LinesIn(X, lines, order, k),
           \A i \in 1 .. k : lines[order[i]] # << >>
    PROVE  IsMap(Gather(lines, order, names), X)
<1> DEFINE g == Gather(lines, order, names)
           of == { names[i] : i \in 1 .. k }
<1>0. k \in Nat /\ DOMAIN order = 1 .. k
  BY DEF LinesIn
<1>a. ByName(g, lines, order, names, k)
  BY <1>0, GatherAt
<1> HIDE DEF g
<1>1. /\ DOMAIN g = of
      /\ \A i \in 1 .. k : g[names[i]] = FlattenSeq(Gathered(lines, order, names, names[i]))
  BY <1>a DEF ByName
<1>2. IsFiniteSet(of)
  <2> DEFINE f == [i \in 1 .. k |-> names[i]]
  <2>1. f \in Surjection(1 .. k, of)
    BY DEF Surjection
  <2>2. IsFiniteSet(1 .. k)
    BY <1>0, FS_Interval
  <2> HIDE DEF f, of
  <2> QED BY <2>1, <2>2, FS_Surjection
<1>3. ASSUME NEW i \in 1 .. k PROVE g[names[i]] \in Seq(X) /\ g[names[i]] # << >>
  <2> DEFINE name == names[i]
             pieces == Gathered(lines, order, names, name)
  <2>1. /\ pieces \in Seq(Seq(X)) /\ Len(pieces) = k
        /\ \A j \in 1 .. k : pieces[j] = IF names[j] = name THEN lines[order[j]] ELSE << >>
    <3> HIDE DEF name
    <3>1. PiecesOf(pieces, X, lines, order, names, name, k)
      BY GatheredType
    <3> HIDE DEF pieces
    <3> QED BY <3>1 DEF PiecesOf
  <2> HIDE DEF pieces
  <2>2. pieces[i] # << >>
    BY <2>1
  <2>3. FlattenSeq(pieces) # << >>
    BY <2>1, <2>2, FlattenShape DEF Flattens
  <2>4. FlattenSeq(pieces) \in Seq(X)
    BY <2>1, FlattenAppend, EmptySeq
  <2> QED BY <1>1, <2>3, <2>4 DEF pieces
<1>4. ASSUME NEW name \in DOMAIN g PROVE g[name] \in Seq(X) /\ g[name] # << >>
  <2>1. PICK i \in 1 .. k : name = names[i]
    BY <1>1
  <2> QED BY <1>3, <2>1
<1> HIDE DEF of
<1> QED BY <1>1, <1>2, <1>4 DEF g, IsMap

(* The lines of one entry stay as they are where it has a name of its own. *)
LEMMA GatherOne ==
    ASSUME NEW X, NEW lines, NEW k, NEW order, NEW names, LinesIn(X, lines, order, k),
           NEW i \in 1 .. k, \A j \in 1 .. k : j # i => names[j] # names[i]
    PROVE  Gather(lines, order, names)[names[i]] = lines[order[i]]
<1> DEFINE name == names[i]
           pieces == Gathered(lines, order, names, name)
<1>0. DOMAIN order = 1 .. k
  BY DEF LinesIn
<1>a. ByName(Gather(lines, order, names), lines, order, names, k)
  BY <1>0, GatherAt
<1>1. Gather(lines, order, names)[name] = FlattenSeq(pieces)
  BY <1>a DEF ByName
<1>2. /\ pieces \in Seq(Seq(X)) /\ Len(pieces) = k
      /\ \A j \in 1 .. k : pieces[j] = IF names[j] = name THEN lines[order[j]] ELSE << >>
  <2> HIDE DEF name
  <2>1. PiecesOf(pieces, X, lines, order, names, name, k)
    BY GatheredType
  <2> HIDE DEF pieces
  <2> QED BY <2>1 DEF PiecesOf
<1> HIDE DEF pieces
<1>3. pieces[i] = lines[order[i]] /\ \A j \in 1 .. k : j # i => pieces[j] = << >>
  BY <1>2
<1>4. FlattenSeq(pieces) = pieces[i]
  BY <1>2, <1>3, FlattenShape DEF Flattens
<1> QED BY <1>1, <1>3, <1>4

(* The authenticator reads such a user.                                    *)
LEMMA RemoteUserType ==
    ASSUME NEW h, IsHeader(h), NEW u \in RemoteUsers(h)
    PROVE  IsUser(u, Lines(h))
<1> DEFINE S == WithPrefix(h, RemoteExtra)
           k == Cardinality(S)
           r == Restrict(h, S)
<1>1. S \subseteq DOMAIN h
  BY DEF WithPrefix
<1>2. IsFiniteSet(S)
  BY <1>1, FS_Subset DEF IsHeader
<1>3. \A n \in S : r[n] \in Seq(Lines(h)) /\ r[n] # << >> /\ n[2] \in Seq(Byte)
  <2>1. \A n \in S : n[2] \in Seq(Byte)
    BY <1>1 DEF IsHeader
  <2>2. ASSUME NEW n \in S PROVE h[n] \in Seq(Lines(h)) /\ h[n] # << >>
    <3>1. h[n] \in Seq(ToSet(h[n])) /\ h[n] # << >>
      BY <1>1 DEF IsHeader
    <3>2. ToSet(h[n]) \subseteq Lines(h)
      BY <1>1 DEF Lines
    <3> QED BY <3>1, <3>2, SeqMonotonic
  <2> QED BY <2>1, <2>2 DEF Restrict
<1> HIDE DEF S, r
<1>4. PICK order :
         /\ order \in SetToSeqs(S)
         /\ u = [username |-> Get(h, Plain("x-remote-user")), uid |-> Get(h, Plain("x-remote-uid")),
                 groups |-> Values(h, Plain("x-remote-group")), extra |-> Extras(r, order)]
  BY DEF RemoteUsers, Decode, S, r
<1>5. k \in Nat /\ DOMAIN order = 1 .. k /\ \A i \in 1 .. k : order[i] \in S
  BY <1>2, <1>4, OrderCovers, FS_CardinalityType
<1> HIDE DEF k
<1> DEFINE of == [i \in DOMAIN order |-> UnescapeExtraKey(order[i][2])]
           g == Gather(r, order, of)
<1>6. Extras(r, order) = g
  BY DEF Extras
<1>7. \A i \in 1 .. k : of[i] \in Seq(Byte)
  BY <1>3, <1>5, UnescapeType
<1>8. LinesIn(Lines(h), r, order, k) /\ \A i \in 1 .. k : r[order[i]] # << >>
  BY <1>3, <1>5 DEF LinesIn
<1> HIDE DEF of
<1>a. ByName(g, r, order, of, k)
  BY <1>5, GatherAt
<1>b. IsMap(g, Lines(h))
  BY <1>8, GatherType
<1> HIDE DEF g
<1>9. DOMAIN g = { of[i] : i \in 1 .. k } /\ g = [key \in DOMAIN g |-> g[key]]
  BY <1>a DEF ByName
<1>10. IsFiniteSet(DOMAIN g) /\ \A key \in DOMAIN g : g[key] \in Seq(Lines(h)) /\ g[key] # << >>
  BY <1>b DEF IsMap
<1>11. DOMAIN g \subseteq Seq(Byte)
  BY <1>7, <1>9
<1> QED BY <1>4, <1>6, <1>9, <1>10, <1>11 DEF IsUser

----------------------------------------------------------------------------
(* The verified user through both codecs                                   *)

(* The name an extra key is written under, before it is folded.            *)
ExtraName(key) == <<ImpersonateExtra, HeaderKeyEscape(key)>>

(* No two extra keys are written under one name, and the name gives the    *)
(* key back.                                                               *)
LEMMA ExtraNames ==
    ASSUME NEW key \in Seq(Byte)
    PROVE  /\ UnescapeExtraKey(ExtraName(key)[2]) = key
           /\ \A other \in Seq(Byte) : ExtraName(other) = ExtraName(key) => other = key
<1>1. \A k \in Seq(Byte) : ExtraName(k)[2] = HeaderKeyEscape(k)
  BY DEF ExtraName
<1>2. \A k \in Seq(Byte) : UnescapeExtraKey(HeaderKeyEscape(k)) = k
  BY KeyCodec
<1> QED BY <1>1, <1>2

(* The keys in an order, none of them twice.                               *)
Walked(u, X, keys, order, k) ==
    /\ LinesIn(X, u.extra, order, k)
    /\ \A i \in 1 .. k : order[i] \in keys /\ order[i] \in Seq(Byte) /\ u.extra[order[i]] # << >>
    /\ \A key \in keys : \E i \in 1 .. k : order[i] = key
    /\ \A i, j \in 1 .. k : i # j => order[i] # order[j]

(* So Apply walks the keys that are let through.                           *)
LEMMA KeysWalked ==
    ASSUME NEW u, NEW X, NEW config, IsUser(u, X), NEW order, order \in Walks(u, config)
    PROVE  \E k : Walked(u, X, ForwardedKeys(u, config), order, k)
<1> DEFINE S == ForwardedKeys(u, config)
           k == Cardinality(S)
<1>1. S \subseteq DOMAIN u.extra
  BY DEF ForwardedKeys
<1>2. IsFiniteSet(S)
  BY <1>1, FS_Subset DEF IsUser
<1>3. \A key \in S : key \in Seq(Byte) /\ u.extra[key] \in Seq(X) /\ u.extra[key] # << >>
  BY <1>1 DEF IsUser
<1>4. order \in SetToSeqs(S)
  BY DEF Walks
<1> HIDE DEF S
<1>5. k \in Nat
  BY <1>2, FS_CardinalityType
<1>6. /\ DOMAIN order = 1 .. k
      /\ \A i \in DOMAIN order : order[i] \in S
      /\ \A x \in S : \E i \in DOMAIN order : order[i] = x
      /\ \A i, j \in DOMAIN order : i # j => order[i] # order[j]
  BY <1>2, <1>4, OrderCovers, ZenonT(60)
<1> HIDE DEF k
<1>7. \A i \in 1 .. k : order[i] \in S
  BY <1>6
<1>8. Walked(u, X, S, order, k)
  BY <1>3, <1>5, <1>6, <1>7 DEF Walked, LinesIn
<1> QED BY <1>8 DEF S

(* The keys, folded.                                                       *)
Folded(order) == [i \in DOMAIN order |-> ToLower(order[i])]

(* The extra headers that ImpersonateUser writes are the extras of the     *)
(* user as it is presented, each under its name.                           *)
Written(w, e, X) ==
    /\ w = [n \in DOMAIN w |-> w[n]]
    /\ DOMAIN w = { ExtraName(key) : key \in DOMAIN e }
    /\ \A key \in DOMAIN e : w[ExtraName(key)] = e[key]
    /\ e = [key \in DOMAIN e |-> e[key]]
    /\ IsMap(e, X) /\ DOMAIN e \subseteq Seq(Byte)

(* So they are.                                                            *)
LEMMA ExtrasWritten ==
    ASSUME NEW u, NEW X, NEW config, IsUser(u, X), NEW order, order \in Walks(u, config)
    PROVE  Written(ImpersonateExtras(u, order), Gather(u.extra, order, Folded(order)), X)
<1> DEFINE folds == Folded(order)
           names == [i \in DOMAIN order |-> <<ImpersonateExtra, ToLower(HeaderKeyEscape(order[i]))>>]
           w == ImpersonateExtras(u, order)
           e == Gather(u.extra, order, folds)
<1>0. PICK k : Walked(u, X, ForwardedKeys(u, config), order, k)
  BY KeysWalked
<1>1. /\ k \in Nat /\ DOMAIN order = 1 .. k /\ LinesIn(X, u.extra, order, k)
      /\ \A i \in 1 .. k : order[i] \in Seq(Byte)
      /\ \A i \in 1 .. k : u.extra[order[i]] # << >>
  BY <1>0 DEF Walked, LinesIn
<1>2. ASSUME NEW i \in 1 .. k PROVE folds[i] \in Seq(Byte) /\ names[i] = ExtraName(folds[i])
  <2>1. order[i] \in Seq(Byte)
    BY <1>1
  <2>2. folds[i] = ToLower(order[i])
    BY <1>1 DEF Folded
  <2>3. names[i] = <<ImpersonateExtra, ToLower(HeaderKeyEscape(order[i]))>>
    BY <1>1
  <2> HIDE DEF folds, names
  <2> QED BY <2>1, <2>2, <2>3, EscapeLower DEF ExtraName
<1>3. w = Gather(u.extra, order, names)
  BY DEF ImpersonateExtras
<1> HIDE DEF folds, names
<1>4. ASSUME NEW i \in 1 .. k, NEW j \in 1 .. k PROVE names[i] = names[j] <=> folds[i] = folds[j]
  BY <1>2, ExtraNames
<1>a. ByName(w, u.extra, order, names, k)
  BY <1>1, <1>3, GatherAt
<1>b. ByName(e, u.extra, order, folds, k)
  BY <1>1, GatherAt
<1>7. IsMap(e, X)
  BY <1>1, GatherType
<1> HIDE DEF w, e
<1>5. /\ DOMAIN w = { names[i] : i \in 1 .. k } /\ w = [n \in DOMAIN w |-> w[n]]
      /\ \A i \in 1 .. k : w[names[i]] = FlattenSeq(Gathered(u.extra, order, names, names[i]))
  BY <1>a DEF ByName
<1>6. /\ DOMAIN e = { folds[i] : i \in 1 .. k } /\ e = [key \in DOMAIN e |-> e[key]]
      /\ \A i \in 1 .. k : e[folds[i]] = FlattenSeq(Gathered(u.extra, order, folds, folds[i]))
  BY <1>b DEF ByName
<1>8. ASSUME NEW i \in 1 .. k PROVE w[ExtraName(folds[i])] = e[folds[i]]
  <2>1. Gathered(u.extra, order, names, names[i]) = Gathered(u.extra, order, folds, folds[i])
    BY <1>1, <1>4 DEF Gathered
  <2> QED BY <1>2, <1>5, <1>6, <2>1
<1>9. ASSUME NEW key \in DOMAIN e PROVE key \in Seq(Byte) /\ w[ExtraName(key)] = e[key]
  <2>1. PICK i \in 1 .. k : key = folds[i]
    BY <1>6
  <2> QED BY <1>2, <1>8, <2>1
<1>10. DOMAIN w = { ExtraName(key) : key \in DOMAIN e }
  BY <1>2, <1>5, <1>6
<1>11. Written(w, e, X)
  BY <1>5, <1>6, <1>7, <1>9, <1>10 DEF Written
<1> QED BY <1>11 DEF w, e, folds

(* Read back in any order, they are those extras again.                    *)
LEMMA ExtrasRead ==
    ASSUME NEW X, NEW w, NEW e, Written(w, e, X)
    PROVE  /\ SetToSeqs(DOMAIN w) # {}
           /\ \A order \in SetToSeqs(DOMAIN w) : Extras(w, order) = e
<1> DEFINE S == DOMAIN w
           keys == DOMAIN e
           k == Cardinality(S)
<1>0. /\ e = [key \in keys |-> e[key]] /\ IsFiniteSet(keys) /\ keys \subseteq Seq(Byte)
      /\ \A key \in keys : e[key] \in Seq(X) /\ w[ExtraName(key)] = e[key]
      /\ S = { ExtraName(key) : key \in keys }
  BY DEF Written, IsMap
<1> HIDE DEF S, keys
<1>1. IsFiniteSet(S)
  <2> DEFINE f == [key \in keys |-> ExtraName(key)]
  <2>1. f \in Surjection(keys, S)
    BY <1>0 DEF Surjection
  <2> HIDE DEF f
  <2> QED BY <1>0, <2>1, FS_Surjection
<1>2. SetToSeqs(S) # {} /\ k \in Nat
  BY <1>1, OrderCovers, FS_CardinalityType
<1>3. ASSUME NEW order, order \in SetToSeqs(S) PROVE Extras(w, order) = e
  <2>1. /\ DOMAIN order = 1 .. k
        /\ \A i \in DOMAIN order : order[i] \in S
        /\ \A n \in S : \E i \in DOMAIN order : order[i] = n
        /\ \A i, j \in DOMAIN order : i # j => order[i] # order[j]
    BY <1>1, <1>3, OrderCovers, ZenonT(60)
  <2> HIDE DEF k
  <2> DEFINE of == [i \in DOMAIN order |-> UnescapeExtraKey(order[i][2])]
             g == Gather(w, order, of)
  <2>2. Extras(w, order) = g
    BY DEF Extras
  <2>3. \A i \in 1 .. k : of[i] = UnescapeExtraKey(order[i][2])
    BY <2>1
  <2> HIDE DEF of
  <2>4. ASSUME NEW i \in 1 .. k PROVE of[i] \in keys /\ order[i] = ExtraName(of[i])
    <3>1. PICK key \in keys : order[i] = ExtraName(key)
      BY <1>0, <2>1
    <3>2. UnescapeExtraKey(ExtraName(key)[2]) = key
      BY <1>0, <3>1, ExtraNames
    <3> QED BY <2>3, <3>1, <3>2
  <2>5. ASSUME NEW key \in keys PROVE \E i \in 1 .. k : of[i] = key
    <3>1. ExtraName(key) \in S
      BY <1>0
    <3>2. PICK i \in 1 .. k : order[i] = ExtraName(key)
      BY <2>1, <3>1
    <3>3. UnescapeExtraKey(ExtraName(key)[2]) = key
      BY <1>0, ExtraNames
    <3> QED BY <2>3, <3>2, <3>3
  <2>a. ByName(g, w, order, of, k)
    BY <2>1, GatherAt
  <2>6. DOMAIN g = { of[i] : i \in 1 .. k } /\ g = [key \in DOMAIN g |-> g[key]]
    <3> HIDE DEF g
    <3> QED BY <2>a DEF ByName
  <2>7. ASSUME NEW i \in 1 .. k PROVE w[order[i]] \in Seq(X) /\ w[order[i]] = e[of[i]]
    <3>1. of[i] \in keys /\ order[i] = ExtraName(of[i])
      BY <2>4
    <3> QED BY <1>0, <3>1
  <2>8. ASSUME NEW i \in 1 .. k PROVE g[of[i]] = e[of[i]]
    <3>1. ASSUME NEW j \in 1 .. k, j # i PROVE of[j] # of[i]
      BY <2>1, <2>4, <3>1
    <3>2. LinesIn(X, w, order, k)
      BY <1>2, <2>1, <2>7 DEF LinesIn
    <3>3. \A j \in 1 .. k : j # i => of[j] # of[i]
      BY <3>1
    <3>4. g[of[i]] = w[order[i]]
      BY <3>2, <3>3, GatherOne
    <3> QED BY <2>7, <3>4
  <2> HIDE DEF g
  <2>9. DOMAIN g = keys
    BY <2>4, <2>5, <2>6
  <2>10. ASSUME NEW key \in keys PROVE g[key] = e[key]
    BY <2>5, <2>8
  <2> QED BY <1>0, <2>2, <2>6, <2>9, <2>10
<1> QED BY <1>2, <1>3 DEF S

(* The other headers that ImpersonateUser writes.                          *)
LEMMA FieldsWritten ==
    ASSUME NEW u, NEW X, NEW config, IsUser(u, X), NEW order, order \in Walks(u, config)
    PROVE  LET h == ImpersonateUser(<< >>, u, config, order)
           IN  /\ Get(h, Plain("impersonate-user")) = u.username
               /\ Get(h, Plain("impersonate-uid")) = IF config.forwardUID THEN u.uid ELSE ""
               /\ Values(h, Plain("impersonate-group")) = u.groups
               /\ WithPrefix(h, ImpersonateExtra) = DOMAIN ImpersonateExtras(u, order)
               /\ Restrict(h, WithPrefix(h, ImpersonateExtra)) = ImpersonateExtras(u, order)
<1> DEFINE name == Plain("impersonate-user")
           group == Plain("impersonate-group")
           id == Plain("impersonate-uid")
           named == SetHeader(<< >>, name, <<u.username>>)
           grouped == IF u.groups = << >> THEN named ELSE SetHeader(named, group, u.groups)
           sendsUID == config.forwardUID /\ u.uid # ""
           identified == IF sendsUID THEN SetHeader(grouped, id, <<u.uid>>) ELSE grouped
           extras == ImpersonateExtras(u, order)
           h == ImpersonateUser(<< >>, u, config, order)
<1>1. /\ name # group /\ name # id /\ group # id
      /\ name[1] # ImpersonateExtra /\ group[1] # ImpersonateExtra /\ id[1] # ImpersonateExtra
  BY DEF Plain, ImpersonateExtra
<1>2. h = SetHeaders(identified, extras)
  BY DEF ImpersonateUser
<1>3. /\ extras = [n \in DOMAIN extras |-> extras[n]]
      /\ \A n \in DOMAIN extras : n[1] = ImpersonateExtra
  <2> DEFINE e == Gather(u.extra, order, Folded(order))
  <2>1. Written(extras, e, X)
    BY ExtrasWritten
  <2> HIDE DEF extras, e
  <2> QED BY <2>1 DEF Written, ExtraName
<1> HIDE DEF name, group, id, extras, h
<1>4. /\ DOMAIN named = {name} /\ named[name] = <<u.username>>
  BY DEF SetHeader, SetHeaders
<1> HIDE DEF named
<1>5. /\ DOMAIN grouped = IF u.groups = << >> THEN {name} ELSE {name, group}
      /\ grouped[name] = <<u.username>>
      /\ u.groups # << >> => grouped[group] = u.groups
  BY <1>1, <1>4 DEF SetHeader, SetHeaders
<1> HIDE DEF grouped
<1>6. /\ DOMAIN identified = IF sendsUID THEN DOMAIN grouped \cup {id} ELSE DOMAIN grouped
      /\ identified[name] = <<u.username>>
      /\ u.groups # << >> => identified[group] = u.groups
      /\ sendsUID => identified[id] = <<u.uid>>
  BY <1>1, <1>5 DEF SetHeader, SetHeaders
<1> HIDE DEF identified
<1>7. /\ DOMAIN h = DOMAIN identified \cup DOMAIN extras
      /\ \A n \in DOMAIN h : h[n] = IF n \in DOMAIN extras THEN extras[n] ELSE identified[n]
  BY <1>2 DEF SetHeaders
<1>8. name \notin DOMAIN extras /\ group \notin DOMAIN extras /\ id \notin DOMAIN extras
  BY <1>1, <1>3
<1>9. Get(h, name) = u.username
  <2>1. name \in DOMAIN h /\ h[name] = <<u.username>>
    BY <1>5, <1>6, <1>7, <1>8
  <2> QED BY <2>1 DEF Get, Values
<1>10. Values(h, group) = u.groups
  <2>1. group \in DOMAIN h <=> u.groups # << >>
    BY <1>1, <1>5, <1>6, <1>7, <1>8
  <2>2. u.groups # << >> => h[group] = u.groups
    BY <1>6, <1>7, <1>8, <2>1
  <2> QED BY <2>1, <2>2 DEF Values
<1>11. Get(h, id) = IF config.forwardUID THEN u.uid ELSE ""
  <2>1. id \in DOMAIN h <=> sendsUID
    BY <1>1, <1>5, <1>6, <1>7, <1>8
  <2>2. CASE sendsUID
    <3>1. h[id] = <<u.uid>>
      BY <1>6, <1>7, <1>8, <2>1, <2>2
    <3>2. config.forwardUID /\ id \in DOMAIN h
      BY <2>1, <2>2
    <3> HIDE DEF sendsUID
    <3> DEFINE x == u.uid
    <3>3. h[id] = <<x>>
      BY <3>1
    <3> HIDE DEF x
    <3>4. Get(h, id) = x
      BY <3>2, <3>3 DEF Get, Values
    <3> QED BY <3>2, <3>4, Zenon DEF x
  <2>3. CASE ~sendsUID
    BY <2>1, <2>3 DEF Get, Values
  <2> QED BY <2>2, <2>3
<1>12. WithPrefix(h, ImpersonateExtra) = DOMAIN extras
  BY <1>1, <1>3, <1>5, <1>6, <1>7 DEF WithPrefix
<1>13. Restrict(h, DOMAIN extras) = extras
  BY <1>3, <1>7 DEF Restrict
<1> QED BY <1>9, <1>10, <1>11, <1>12, <1>13 DEF name, group, id, extras, h

(* What ImpersonateUser writes decodes to the user, as far as it is let    *)
(* through, with its extra keys folded, and to nobody else.                *)
LEMMA ImpersonateDecodes ==
    ASSUME NEW u, NEW X, NEW config, IsUser(u, X), NEW order, order \in Walks(u, config)
    PROVE  ImpersonatedUsers(ImpersonateUser(<< >>, u, config, order))
             = {Presented(u, config, order)}
<1> DEFINE h == ImpersonateUser(<< >>, u, config, order)
           w == ImpersonateExtras(u, order)
           e == Gather(u.extra, order, Folded(order))
           uid == IF config.forwardUID THEN u.uid ELSE ""
           presented == [username |-> u.username, uid |-> uid, groups |-> u.groups, extra |-> e]
<1>1. presented = Presented(u, config, order)
  <2>1. u = [username |-> u.username, uid |-> u.uid, groups |-> u.groups, extra |-> u.extra]
    BY DEF IsUser
  <2>2. Presented(u, config, order) = [u EXCEPT !.uid = uid, !.extra = e]
    BY DEF Presented, Folded
  <2> HIDE DEF uid, e
  <2> QED BY <2>1, <2>2
<1>2. /\ Get(h, Plain("impersonate-user")) = u.username
      /\ Get(h, Plain("impersonate-uid")) = uid
      /\ Values(h, Plain("impersonate-group")) = u.groups
      /\ WithPrefix(h, ImpersonateExtra) = DOMAIN w
      /\ Restrict(h, WithPrefix(h, ImpersonateExtra)) = w
  BY FieldsWritten
<1>3. Written(w, e, X)
  BY ExtrasWritten
<1> HIDE DEF h, w, e, uid
<1>4. SetToSeqs(DOMAIN w) # {} /\ \A o \in SetToSeqs(DOMAIN w) : Extras(w, o) = e
  BY <1>3, ExtrasRead
<1>5. ImpersonatedUsers(h)
        = { [username |-> u.username, uid |-> uid, groups |-> u.groups,
             extra |-> Extras(w, o)] : o \in SetToSeqs(DOMAIN w) }
  BY <1>2 DEF ImpersonatedUsers, Decode
<1>6. ImpersonatedUsers(h) = {presented}
  BY <1>4, <1>5
<1> QED BY <1>1, <1>6 DEF h

(* A user whose keys are in lower case is presented as it is.              *)
LEMMA PresentedWhole ==
    ASSUME NEW u, NEW X, NEW config, IsUser(u, X), NEW order, order \in Walks(u, config),
           \A key \in ForwardedKeys(u, config) : ToLower(key) = key
    PROVE  Presented(u, config, order) = Projected(u, config)
<1> DEFINE keys == ForwardedKeys(u, config)
           folds == Folded(order)
           e == Gather(u.extra, order, folds)
<1>0. PICK k : Walked(u, X, keys, order, k)
  BY KeysWalked
<1>2. \A key \in keys : ToLower(key) = key
  OBVIOUS
<1> HIDE DEF keys
<1>1. /\ k \in Nat /\ DOMAIN order = 1 .. k /\ LinesIn(X, u.extra, order, k)
      /\ \A i \in 1 .. k : order[i] \in keys
      /\ \A key \in keys : \E i \in 1 .. k : order[i] = key
      /\ \A i, j \in 1 .. k : i # j => order[i] # order[j]
  BY <1>0 DEF Walked, LinesIn
<1>3. \A i \in 1 .. k : folds[i] = order[i]
  BY <1>1, <1>2 DEF Folded
<1> HIDE DEF folds
<1>a. ByName(e, u.extra, order, folds, k)
  BY <1>1, GatherAt
<1>4. DOMAIN e = { folds[i] : i \in 1 .. k } /\ e = [key \in DOMAIN e |-> e[key]]
  <2> HIDE DEF e
  <2> QED BY <1>a DEF ByName
<1>5. ASSUME NEW i \in 1 .. k PROVE e[folds[i]] = u.extra[order[i]]
  <2>1. ASSUME NEW j \in 1 .. k, j # i PROVE folds[j] # folds[i]
    BY <1>1, <1>3, <2>1
  <2>2. \A j \in 1 .. k : j # i => folds[j] # folds[i]
    BY <2>1
  <2> QED BY <1>1, <2>2, GatherOne
<1> HIDE DEF e
<1>6. DOMAIN e = keys
  BY <1>1, <1>3, <1>4
<1>7. ASSUME NEW key \in keys PROVE e[key] = u.extra[key]
  BY <1>1, <1>3, <1>5
<1>8. e = Restrict(u.extra, keys)
  BY <1>4, <1>6, <1>7 DEF Restrict
<1> QED BY <1>8 DEF Presented, Projected, Folded, e, folds, keys

(* Headers that agree on the Impersonate-* names decode alike.             *)
LEMMA ImpersonatedAlike ==
    ASSUME NEW g, NEW h, \A n : n[1] \in ImpersonateFamily => Same(g, h, n)
    PROVE  ImpersonatedUsers(g) = ImpersonatedUsers(h)
<1>1. /\ Plain("impersonate-user")[1] \in ImpersonateFamily
      /\ Plain("impersonate-uid")[1] \in ImpersonateFamily
      /\ Plain("impersonate-group")[1] \in ImpersonateFamily
  BY DEF Plain, ImpersonateFamily
<1>2. /\ Get(g, Plain("impersonate-user")) = Get(h, Plain("impersonate-user"))
      /\ Get(g, Plain("impersonate-uid")) = Get(h, Plain("impersonate-uid"))
      /\ Values(g, Plain("impersonate-group")) = Values(h, Plain("impersonate-group"))
  BY <1>1 DEF Get, Values, Same
<1>3. ASSUME NEW n, n[1] = ImpersonateExtra PROVE Same(g, h, n)
  BY <1>3 DEF ImpersonateFamily
<1>4. WithPrefix(g, ImpersonateExtra) = WithPrefix(h, ImpersonateExtra)
  BY <1>3 DEF WithPrefix, Same
<1>5. ASSUME NEW n \in WithPrefix(h, ImpersonateExtra) PROVE g[n] = h[n]
  BY <1>3, <1>5 DEF WithPrefix, Same
<1>6. Restrict(g, WithPrefix(g, ImpersonateExtra)) = Restrict(h, WithPrefix(h, ImpersonateExtra))
  BY <1>4, <1>5 DEF Restrict
<1> QED BY <1>2, <1>4, <1>6, Zenon DEF ImpersonatedUsers, Decode

(* On either path the backend decodes the very user that the audit event   *)
(* names, through both codecs, for any extra keys and values, any headers  *)
(* the client brings along and any configuration: to the letter if the     *)
(* keys are in lower case, and with its keys folded if they are not.       *)
THEOREM BackendDecodes == Spec => []BackendDecodesUser
<1>1. FlowInv /\ NoClientIdentity /\ ForwardedUserKept => BackendDecodesUser
  <2> SUFFICES ASSUME FlowInv, NoClientIdentity, ForwardedUserKept, Done
               PROVE  BackendDecodesUser
    BY DEF BackendDecodesUser
  <2>1. CASE identity.mode # "impersonation"
    BY <2>1 DEF NoClientIdentity, ForwardedUserKept, BackendDecodesUser
  <2>2. CASE identity.mode = "impersonation"
    <3>1. user \in RemoteUsers(inbound.header) /\ IsHeader(inbound.header)
      BY ForwardingAssumption DEF FlowInv, Done
    <3>2. IsUser(user, Lines(inbound.header))
      BY <3>1, RemoteUserType
    <3>3. PICK order :
             /\ order \in Walks(user, identity)
             /\ \A n : n[1] \in ImpersonateFamily =>
                  Same(outbound, ImpersonateUser(<< >>, user, identity, order), n)
      BY <2>2 DEF NoClientIdentity
    <3>4. ImpersonatedUsers(outbound)
            = ImpersonatedUsers(ImpersonateUser(<< >>, user, identity, order))
      BY <3>3, ImpersonatedAlike
    <3>5. ImpersonatedUsers(outbound) = {Presented(user, identity, order)}
      BY <3>2, <3>3, <3>4, ImpersonateDecodes
    <3>6. ASSUME \A key \in ForwardedKeys(user, identity) : ToLower(key) = key
          PROVE  ImpersonatedUsers(outbound) = {Projected(user, identity)}
      BY <3>2, <3>3, <3>5, <3>6, PresentedWhole
    <3>7. RemoteNames(outbound) = {} /\ Authorization \notin DOMAIN outbound
      BY <2>2 DEF NoClientIdentity
    <3> QED BY <2>2, <3>3, <3>5, <3>6, <3>7 DEF BackendDecodesUser
  <2> QED BY <2>1, <2>2
<1> QED BY <1>1, FlowInvariant, IdentityNotClients, ForwardedUserDecoded, PTL
=============================================================================
