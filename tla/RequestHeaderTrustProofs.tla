---------------------- MODULE RequestHeaderTrustProofs ----------------------
(***************************************************************************)
(* Safety of the requestheader trust for any ConfigMaps, certificates and  *)
(* requests, and any number of versions; and, at the end, of what main     *)
(* makes of its command line before it looks for that trust.               *)
(***************************************************************************)
EXTENDS RequestHeaderTrust, FiniteSetTheorems, TLAPS

Lists == [valid : BOOLEAN, names : SUBSET STRING, users : SUBSET STRING]

(* What the controllers hold was published.                                *)
HeldInv ==
    /\ ca # NoCA => \E m \in Published : m.present /\ m.ca = ca
    /\ headers.valid => headers \in { m.headers : m \in Published }
    /\ ~headers.valid => headers = NoLists

(* Ready's first question cannot be taken back, and so the gate holds.     *)
GateInv ==
    /\ main = "ready2" => ca # NoCA
    /\ main \in {"setup", "serving", "stopped"} => ca # NoCA /\ headers.valid

(* What a verification has found so far.                                   *)
VerdictInv ==
    \A r \in Requests :
        /\ verdict[r] \in {"chained", "named", "accepted"} =>
             \E m \in Published : m.present /\ m.ca = cert[r].ca /\ m.ca \in CAs
        /\ verdict[r] \in {"named", "accepted"} =>
             \E m \in Published : m.headers.valid /\ Allowed(m.headers, cert[r].cn)
        /\ verdict[r] = "accepted" =>
             \E m \in Published : m.headers.valid /\ UserHeader \in m.headers.users

TrustInv == TypeOK /\ HeldInv /\ GateInv /\ VerdictInv

----------------------------------------------------------------------------
(* A ConfigMap has the fields the readers use.                             *)
LEMMA ConfigMapFields ==
    ASSUME NEW m \in ConfigMaps
    PROVE  m.present \in BOOLEAN /\ m.ca \in STRING /\ m.headers \in Lists
BY TrustAssumption DEF Lists

(* Every version is published, the latest among them.                      *)
LEMMA VersionsPublished ==
    ASSUME TypeOK
    PROVE  /\ \A i \in 1 .. Len(versions) : versions[i] \in Published /\ versions[i] \in ConfigMaps
           /\ Latest \in Published
           /\ Latest \in ConfigMaps
           /\ Published \subseteq ConfigMaps
BY DEF TypeOK, Published, Latest

(* A worker whose key is queued loads a version that was published.        *)
LEMMA SeenPublished ==
    ASSUME TypeOK
    PROVE  /\ caDue => versions[caSeen] \in Published
           /\ headersDue => versions[headersSeen] \in Published
<1>1. caDue => caSeen \in 1 .. Len(versions)
  BY DEF TypeOK
<1>2. headersDue => headersSeen \in 1 .. Len(versions)
  BY DEF TypeOK
<1> QED
  BY <1>1, <1>2 DEF Published

(* Publishing adds one version and keeps the others.                       *)
LEMMA PublishExtends ==
    ASSUME TypeOK, NEW m \in ConfigMaps, Publish(m)
    PROVE  /\ versions' \in Seq(ConfigMaps)
           /\ Len(versions') = Len(versions) + 1
           /\ Len(versions') \in 1 .. MaxVersions
           /\ Published \subseteq Published'
BY TrustAssumption DEF TypeOK, Publish, Published

(* Bundles that are adopted parse, and lists that are adopted are JSON.    *)
LEMMA AdoptTypes ==
    ASSUME TypeOK, NEW m \in ConfigMaps
    PROVE  /\ AdoptCA(m) \in CAs \cup {NoCA}
           /\ ca # NoCA => AdoptCA(m) # NoCA
           /\ AdoptLists(m) \in Lists
           /\ headers.valid => AdoptLists(m).valid
BY ConfigMapFields, TrustAssumption DEF TypeOK, AdoptCA, AdoptLists, Lists

(* What is adopted was published.                                          *)
LEMMA AdoptHeld ==
    ASSUME TypeOK, HeldInv, NEW m \in Published
    PROVE  /\ AdoptCA(m) # NoCA => \E p \in Published : p.present /\ p.ca = AdoptCA(m)
           /\ AdoptLists(m).valid => AdoptLists(m) \in { p.headers : p \in Published }
           /\ ~AdoptLists(m).valid => AdoptLists(m) = NoLists
BY VersionsPublished, ConfigMapFields DEF HeldInv, AdoptCA, AdoptLists

----------------------------------------------------------------------------
(* The invariant holds at start-up, before anything was read.              *)
LEMMA InitTrust == Init => TrustInv
<1> SUFFICES ASSUME Init PROVE TrustInv
  OBVIOUS
<1>1. TypeOK
  <2>1. PICK m \in ConfigMaps : versions = <<m>>
    BY DEF Init
  <2>2. /\ versions \in Seq(ConfigMaps)
        /\ Len(versions) \in 1 .. MaxVersions
        /\ 0 \in 0 .. Len(versions)
    BY <2>1, TrustAssumption
  <2>3. headers \in [valid : BOOLEAN, names : SUBSET STRING, users : SUBSET STRING]
    BY DEF Init, NoLists
  <2>4. /\ cert \in [Requests -> Certs \cup {NoCert}]
        /\ verdict \in [Requests -> {"none", "chained", "named", "accepted", "rejected"}]
    BY DEF Init
  <2> QED
    BY <2>2, <2>3, <2>4 DEF Init, TypeOK
<1>2. HeldInv /\ GateInv /\ VerdictInv
  BY DEF Init, HeldInv, GateInv, VerdictInv, NoLists
<1> QED
  BY <1>1, <1>2 DEF TrustInv

(* Every step keeps the types.                                             *)
LEMMA TypeStep == TypeOK /\ [Next]_vars => TypeOK'
<1> SUFFICES ASSUME TypeOK, [Next]_vars PROVE TypeOK'
  OBVIOUS
<1>1. ASSUME NEW m \in ConfigMaps, Publish(m) PROVE TypeOK'
  BY <1>1, PublishExtends DEF Publish, TypeOK, informerVars, trustVars, mainVars, verifierVars
<1>2. CASE FlipReadable
  BY <1>2 DEF FlipReadable, TypeOK, informerVars, trustVars, mainVars, verifierVars
<1>3. CASE DeadlinePasses
  BY <1>3 DEF DeadlinePasses, TypeOK, clusterVars, informerVars, trustVars, verifierVars
<1>4. CASE Signal
  BY <1>4 DEF Signal, TypeOK, clusterVars, informerVars, trustVars, verifierVars
<1>5. ASSUME NEW i \in 1 .. Len(versions), ShowCA(i) \/ ShowHeaders(i) PROVE TypeOK'
  <2>1. CASE ShowCA(i)
    <3>1. caSeen' \in 0 .. Len(versions) /\ caSeen' > 0 /\ caDue' \in BOOLEAN
      BY <2>1 DEF ShowCA, TypeOK
    <3> QED
      BY <2>1, <3>1 DEF ShowCA, TypeOK, clusterVars, mainVars, verifierVars
  <2>2. CASE ShowHeaders(i)
    <3>1. headersSeen' \in 0 .. Len(versions) /\ headersSeen' > 0 /\ headersDue' \in BOOLEAN
      BY <2>2 DEF ShowHeaders, TypeOK
    <3> QED
      BY <2>2, <3>1 DEF ShowHeaders, TypeOK, clusterVars, mainVars, verifierVars
  <2> QED
    BY <1>5, <2>1, <2>2
<1>6. CASE LoadCA
  <2>1. AdoptCA(versions[caSeen]) \in CAs \cup {NoCA}
    BY <1>6, SeenPublished, VersionsPublished, AdoptTypes DEF LoadCA
  <2> QED
    BY <1>6, <2>1 DEF LoadCA, TypeOK, clusterVars, mainVars, verifierVars
<1>7. CASE LoadHeaders
  <2>1. AdoptLists(versions[headersSeen]) \in Lists
    BY <1>7, SeenPublished, VersionsPublished, AdoptTypes DEF LoadHeaders
  <2> QED
    BY <1>7, <2>1 DEF LoadHeaders, TypeOK, Lists, clusterVars, mainVars, verifierVars
<1>8. CASE RunOnce
  <2>1. AdoptLists(Latest) \in Lists
    BY VersionsPublished, AdoptTypes
  <2> QED
    BY <1>8, <2>1 DEF RunOnce, Main, TypeOK, Lists, clusterVars, informerVars, verifierVars
<1>9. CASE CheckConfigMap \/ ReadyFirst \/ WaitTick \/ GiveUp \/ SetUp \/ Stop \/ ServeFails
  BY <1>9 DEF CheckConfigMap, ReadyFirst, WaitTick, GiveUp, SetUp, Stop, ServeFails,
              Main, TypeOK, clusterVars, informerVars, trustVars, verifierVars
<1>13. CASE ReadySecond
  <2>1. expired' \in BOOLEAN
    BY <1>13, Zenon DEF ReadySecond
  <2> QED
    BY <1>13, <2>1 DEF ReadySecond, Main, TypeOK, clusterVars, informerVars, trustVars, verifierVars
<1>10. ASSUME NEW r \in Requests, NEW c \in Certs, VerifyChain(r, c) PROVE TypeOK'
  BY <1>10 DEF VerifyChain, Verdict, TypeOK, clusterVars, informerVars, trustVars, mainVars
<1>11. ASSUME NEW r \in Requests, VerifySubject(r) \/ ReadIdentity(r) PROVE TypeOK'
  BY <1>11 DEF VerifySubject, ReadIdentity, Verdict, TypeOK, clusterVars, informerVars,
               trustVars, mainVars
<1>12. CASE UNCHANGED vars
  BY <1>12 DEF vars, TypeOK, clusterVars, informerVars, trustVars, mainVars, verifierVars
<1> QED
  BY <1>1, <1>2, <1>3, <1>4, <1>5, <1>6, <1>7, <1>8, <1>9, <1>10, <1>11, <1>12, <1>13
  DEF Next, MainStep

----------------------------------------------------------------------------
(* The steps, by what they do to the trust.                                *)
KeepsTrust == UNCHANGED <<versions, ca, headers>>

(* A step publishes, moves the trust by a worker, or leaves it alone.      *)
LEMMA StepKinds ==
    ASSUME TypeOK, [Next]_vars
    PROVE  \/ \E m \in ConfigMaps : Publish(m)
           \/ LoadCA
           \/ LoadHeaders
           \/ RunOnce
           \/ KeepsTrust
BY DEF Next, MainStep, FlipReadable, DeadlinePasses, Signal, ShowCA, ShowHeaders,
       CheckConfigMap, ReadyFirst, ReadySecond, WaitTick, GiveUp, SetUp, Stop, ServeFails,
       VerifyChain, VerifySubject, ReadIdentity, KeepsTrust, vars, clusterVars, trustVars

(* What was published stays published.                                     *)
LEMMA PublishedKept ==
    ASSUME TypeOK, [Next]_vars
    PROVE  Published \subseteq Published'
<1>1. CASE \E m \in ConfigMaps : Publish(m)
  BY <1>1, PublishExtends
<1>2. CASE versions' = versions
  BY <1>2 DEF Published
<1> QED
  BY <1>1, <1>2, StepKinds DEF LoadCA, LoadHeaders, RunOnce, KeepsTrust, clusterVars

(* Each half in use was published.                                         *)
LEMMA HeldStep == TrustInv /\ [Next]_vars => HeldInv'
<1> SUFFICES ASSUME TrustInv, [Next]_vars PROVE HeldInv'
  OBVIOUS
<1> USE DEF TrustInv
<1>1. ASSUME NEW m \in ConfigMaps, Publish(m) PROVE HeldInv'
  BY <1>1, PublishExtends DEF HeldInv, Publish, trustVars
<1>2. CASE LoadCA
  <2>1. Published' = Published /\ ca' = AdoptCA(versions[caSeen]) /\ headers' = headers
    BY <1>2 DEF LoadCA, Published, clusterVars
  <2>2. versions[caSeen] \in Published
    BY <1>2, SeenPublished DEF LoadCA
  <2> QED
    BY <2>1, <2>2, AdoptHeld DEF HeldInv
<1>3. CASE LoadHeaders
  <2>1. Published' = Published /\ ca' = ca /\ headers' = AdoptLists(versions[headersSeen])
    BY <1>3 DEF LoadHeaders, Published, clusterVars
  <2>2. versions[headersSeen] \in Published
    BY <1>3, SeenPublished DEF LoadHeaders
  <2> QED
    BY <2>1, <2>2, AdoptHeld DEF HeldInv
<1>4. CASE RunOnce
  <2>1. Published' = Published /\ ca' = ca /\ headers' \in {AdoptLists(Latest), headers}
    BY <1>4 DEF RunOnce, Published, clusterVars
  <2> QED
    BY <2>1, VersionsPublished, AdoptHeld DEF HeldInv
<1>5. CASE KeepsTrust
  BY <1>5 DEF KeepsTrust, HeldInv, Published
<1> QED
  BY <1>1, <1>2, <1>3, <1>4, <1>5, StepKinds

(* A gate that has seen both halves stands on what is never given up.      *)
LEMMA GateStep == TrustInv /\ [Next]_vars => GateInv'
<1> SUFFICES ASSUME TrustInv, [Next]_vars PROVE GateInv'
  OBVIOUS
<1> USE DEF TrustInv
<1>1. /\ ca # NoCA => ca' # NoCA
      /\ headers.valid => headers'.valid
  <2>1. CASE LoadCA \/ LoadHeaders
    BY <2>1, SeenPublished, VersionsPublished, AdoptTypes DEF LoadCA, LoadHeaders
  <2>2. CASE RunOnce
    BY <2>2, VersionsPublished, AdoptTypes DEF RunOnce
  <2> QED
    BY <2>1, <2>2, StepKinds DEF Publish, KeepsTrust, trustVars
<1>2. CASE ReadyFirst
  BY <1>2 DEF ReadyFirst, Main, ReadyHalf, GateInv, trustVars
<1>3. CASE ReadySecond
  <2>1. UsableLists(headers) => headers.valid
    BY DEF UsableLists, HeldInv, NoLists
  <2> QED
    BY <1>3, <2>1 DEF ReadySecond, Main, ReadyHalf, GateInv, trustVars
<1>4. CASE SetUp \/ Stop
  BY <1>4 DEF SetUp, Stop, Main, GateInv, trustVars
<1>5. CASE main' = main \/ main' \notin {"ready2", "setup", "serving", "stopped"}
  BY <1>1, <1>5 DEF GateInv
<1> QED
  BY <1>2, <1>3, <1>4, <1>5 DEF Next, MainStep, Publish, FlipReadable, DeadlinePasses, Signal,
     ShowCA, ShowHeaders, LoadCA, LoadHeaders, CheckConfigMap, RunOnce, WaitTick, GiveUp,
     ServeFails, Main, VerifyChain, VerifySubject, ReadIdentity, vars, mainVars

(* A verdict rests on published trust, at every part of the check.         *)
LEMMA VerdictStep == TrustInv /\ [Next]_vars => VerdictInv'
<1> SUFFICES ASSUME TrustInv, [Next]_vars, NEW q \in Requests
             PROVE  VerdictInv!(q)'
  BY DEF VerdictInv
<1> USE DEF TrustInv
<1>0. Published \subseteq Published'
  BY PublishedKept
<1>1. CASE verdict'[q] = verdict[q] /\ cert'[q] = cert[q]
  BY <1>0, <1>1 DEF VerdictInv
<1>2. CASE verdict'[q] \in {"none", "rejected"}
  BY <1>2
<1>3. ASSUME NEW c \in Certs, VerifyChain(q, c) PROVE VerdictInv!(q)'
  <2>1. cert'[q] = c /\ verdict'[q] \in {"chained", "rejected"}
    BY <1>3 DEF VerifyChain, Verdict, TypeOK
  <2>2. verdict'[q] = "chained" => ca # NoCA /\ c.ca = ca
    BY <1>3 DEF VerifyChain, Verdict, TypeOK
  <2>3. verdict'[q] = "chained" =>
          \E m \in Published : m.present /\ m.ca = cert'[q].ca /\ m.ca \in CAs
    BY <2>1, <2>2 DEF HeldInv, TypeOK
  <2> QED
    BY <1>0, <2>1, <2>3
<1>4. CASE VerifySubject(q)
  <2>1. /\ verdict[q] = "chained" /\ cert'[q] = cert[q]
        /\ verdict'[q] \in {"named", "rejected"}
        /\ verdict'[q] = "named" => Allowed(headers, cert[q].cn)
    BY <1>4 DEF VerifySubject, Verdict, TypeOK
  <2>2. headers.valid /\ headers \in { m.headers : m \in Published }
    BY <1>4 DEF VerifySubject, GateInv, HeldInv
  <2>3. verdict'[q] = "named" =>
          \E m \in Published : m.headers.valid /\ Allowed(m.headers, cert'[q].cn)
    BY <2>1, <2>2
  <2> QED
    BY <1>0, <2>1, <2>3 DEF VerdictInv
<1>5. CASE ReadIdentity(q)
  <2>1. /\ verdict[q] = "named" /\ cert'[q] = cert[q]
        /\ verdict'[q] \in {"accepted", "rejected"}
        /\ verdict'[q] = "accepted" => UserHeader \in headers.users
    BY <1>5 DEF ReadIdentity, Verdict, TypeOK
  <2>2. headers.valid /\ headers \in { m.headers : m \in Published }
    BY <1>5 DEF ReadIdentity, GateInv, HeldInv
  <2>3. verdict'[q] = "accepted" =>
          \E m \in Published : m.headers.valid /\ UserHeader \in m.headers.users
    BY <2>1, <2>2
  <2> QED
    BY <1>0, <2>1, <2>3 DEF VerdictInv
<1>6. ASSUME NEW r \in Requests, NEW c \in Certs, VerifyChain(r, c), r # q
      PROVE  verdict'[q] = verdict[q] /\ cert'[q] = cert[q]
  BY <1>6 DEF VerifyChain, Verdict, TypeOK
<1>7. ASSUME NEW r \in Requests, VerifySubject(r) \/ ReadIdentity(r), r # q
      PROVE  verdict'[q] = verdict[q] /\ cert'[q] = cert[q]
  BY <1>7 DEF VerifySubject, ReadIdentity, Verdict, TypeOK
<1>8. \/ \E r \in Requests, c \in Certs : VerifyChain(r, c)
      \/ \E r \in Requests : VerifySubject(r) \/ ReadIdentity(r)
      \/ UNCHANGED verifierVars
  BY DEF Next, MainStep, Publish, FlipReadable, DeadlinePasses, Signal, ShowCA, ShowHeaders,
         LoadCA, LoadHeaders, CheckConfigMap, RunOnce, ReadyFirst, ReadySecond, WaitTick,
         GiveUp, SetUp, Stop, ServeFails, vars
<1> QED
  BY <1>1, <1>3, <1>4, <1>5, <1>6, <1>7, <1>8 DEF verifierVars

----------------------------------------------------------------------------
(* The inductive invariant.                                                *)
THEOREM TrustInvariant == Spec => []TrustInv
<1>1. TrustInv /\ [Next]_vars => TrustInv'
  BY TypeStep, HeldStep, GateStep, VerdictStep DEF TrustInv
<1> QED
  BY <1>1, InitTrust, PTL DEF Spec

(* Type correctness: no bundle that does not parse is ever in use.         *)
THEOREM TrustTypeCorrect == Spec => []TypeOK
BY TrustInvariant, PTL DEF TrustInv

(* Past the gate trust is never lost, whatever the ConfigMap becomes.      *)
THEOREM TrustKept == Spec => []TrustIsKept
<1>1. TrustInv => TrustIsKept
  BY DEF TrustInv, HeldInv, GateInv, TrustIsKept
<1> QED
  BY <1>1, TrustInvariant, PTL

(* Nobody is accepted on trust the cluster never gave.                     *)
THEOREM AcceptanceIsPublished == Spec => []AcceptedUnderPublishedTrust
<1>1. TrustInv => AcceptedUnderPublishedTrust
  BY DEF TrustInv, VerdictInv, AcceptedUnderPublishedTrust
<1> QED
  BY <1>1, TrustInvariant, PTL



(* waitForTrust returns without an error only on usable trust.             *)
THEOREM GateOpens == Spec => GateOpensOnUsableTrust
<1>1. TrustInv /\ [Next]_vars => [main # "setup" /\ main' = "setup" => Usable]_vars
  <2> SUFFICES ASSUME TrustInv, Next, main # "setup", main' = "setup" PROVE Usable
    OBVIOUS
  <2>1. ReadySecond
    BY DEF Next, MainStep, Publish, FlipReadable, DeadlinePasses, Signal, ShowCA, ShowHeaders,
           LoadCA, LoadHeaders, CheckConfigMap, RunOnce, ReadyFirst, WaitTick, GiveUp, SetUp,
           Stop, ServeFails, Main, VerifyChain, VerifySubject, ReadIdentity, mainVars
  <2> QED
    BY <2>1 DEF ReadySecond, Main, ReadyHalf, Usable, TrustInv, GateInv
<1> QED
  BY <1>1, TrustInvariant, PTL DEF Spec, GateOpensOnUsableTrust

----------------------------------------------------------------------------
(* Before the trust: the command line                                      *)

CONSTANTS Flags, Schemes, Modes

VARIABLES pc, command, transport, identity, exitCode

Config == INSTANCE Configuration

CommandLine == [flags : SUBSET Flags, scheme : Schemes, mode : Modes]

(* What main has built so far it has built of a command line it accepts.   *)
ConfigInv ==
    /\ command \in CommandLine
    /\ pc \in {"parse", "transport", "identity", "trust", "exited"}
    /\ pc \in {"transport", "identity", "trust"} => Config!Parses(command)
    /\ pc \in {"identity", "trust"} =>
         /\ Config!TransportAccepts(command)
         /\ transport = Config!BuildBackendTransport(command)
    /\ pc = "trust" => identity = Config!BackendIdentity(command)

(* Whatever the command line and whichever file cannot be read.            *)
LEMMA ConfigInvariant == Config!Spec => []ConfigInv
<1>1. Config!Init => ConfigInv
  BY DEF Config!Init, ConfigInv, CommandLine
<1>2. ConfigInv /\ [Config!Next]_(Config!vars) => ConfigInv'
  <2> SUFFICES ASSUME ConfigInv, [Config!Next]_(Config!vars) PROVE ConfigInv'
    OBVIOUS
  <2>1. CASE Config!ParseFlags
    BY <2>1 DEF ConfigInv, Config!ParseFlags, Config!Exit
  <2>2. CASE Config!ConfigureTransport
    BY <2>2 DEF ConfigInv, Config!ConfigureTransport
  <2>3. CASE Config!TransportFails
    BY <2>3 DEF ConfigInv, Config!TransportFails, Config!Exit
  <2>4. CASE Config!ConfigureIdentity
    BY <2>4 DEF ConfigInv, Config!ConfigureIdentity
  <2>5. CASE Config!IdentityFails
    BY <2>5 DEF ConfigInv, Config!IdentityFails, Config!Exit
  <2>6. CASE UNCHANGED Config!vars
    BY <2>6 DEF ConfigInv, Config!vars
  <2> QED BY <2>1, <2>2, <2>3, <2>4, <2>5, <2>6 DEF Config!Next
<1> QED BY <1>1, <1>2, PTL DEF Config!Spec

(* A command line without some of its flags is a command line.             *)
LEMMA WithoutFlags ==
    ASSUME NEW c \in CommandLine, NEW dropped
    PROVE  LET d == [c EXCEPT !.flags = @ \ dropped]
           IN  /\ d.flags = c.flags \ dropped /\ d.scheme = c.scheme /\ d.mode = c.mode
BY DEF CommandLine

(* Two command lines for the same backend that main accepts and that       *)
(* amount to the same have the same flags, but for the certificate of a    *)
(* metrics listener that is off.                                           *)
LEMMA EffectTellsFlags ==
    ASSUME NEW c, NEW d, d.scheme = c.scheme, d.mode = c.mode, d.flags \subseteq c.flags,
           c.flags \subseteq Config!Known,
           Config!Parses(c), Config!TransportAccepts(c),
           Config!Parses(d), Config!TransportAccepts(d),
           Config!BuildBackendTransport(d) = Config!BuildBackendTransport(c),
           Config!BackendIdentity(d) = Config!BackendIdentity(c),
           Config!Serve(d) = Config!Serve(c),
           Config!RunMetricsServer(d) = Config!RunMetricsServer(c)
    PROVE  \/ d.flags = c.flags
           \/ c.flags \ d.flags = Config!MetricsPair /\ Config!MetricsOff \in c.flags
<1>1. Config!Required \subseteq d.flags /\ Config!NoCapture \notin c.flags
  BY DEF Config!Parses
<1>2. c.flags \cap Config!ServingPair \subseteq d.flags
  <2>1. /\ Config!TogetherOrNot(Config!ServingPair, c.flags)
        /\ Config!TogetherOrNot(Config!ServingPair, d.flags)
    BY DEF Config!Parses
  <2> QED BY <2>1 DEF Config!TogetherOrNot, Config!ServingPair, Config!Serve
<1>3. c.flags \cap Config!BackendTLS \subseteq d.flags
  <2>1. CASE c.scheme = "http"
    BY <2>1 DEF Config!TransportAccepts
  <2>2. CASE c.scheme # "http"
    <3>1. /\ Config!TogetherOrNot(Config!BackendPair, c.flags)
          /\ Config!TogetherOrNot(Config!BackendPair, d.flags)
      BY DEF Config!Parses
    <3>2. \A f \in {"backend-insecure-skip-verify", "backend-server-name", "backend-ca-file"} :
             f \in Config!BuildBackendTransport(c) => f \in d.flags
      BY <2>2 DEF Config!BuildBackendTransport, Config!BackendPair
    <3>3. \A f \in {"backend-insecure-skip-verify", "backend-server-name", "backend-ca-file"} :
             f \in c.flags => f \in d.flags
      BY <2>2, <3>2 DEF Config!BuildBackendTransport
    <3>4. "backend-client-cert-file" \in c.flags => "backend-client-cert-file" \in d.flags
      BY <2>2 DEF Config!BuildBackendTransport, Config!BackendPair
    <3>5. c.flags \cap Config!BackendPair \subseteq d.flags
      BY <3>1, <3>4 DEF Config!TogetherOrNot, Config!BackendPair
    <3> QED BY <3>3, <3>5 DEF Config!BackendTLS
  <2> QED BY <2>1, <2>2
<1>4. c.flags \cap Config!ImpersonationOnly \subseteq d.flags
  <2>1. CASE c.mode = "impersonation"
    BY <2>1 DEF Config!BackendIdentity, Config!ImpersonationOnly
  <2>2. CASE c.mode # "impersonation"
    BY <2>2 DEF Config!Parses, Config!ValidBackendIdentityFlags
  <2> QED BY <2>1, <2>2
<1>5. Config!MetricsOff \in c.flags => Config!MetricsOff \in d.flags
  BY DEF Config!RunMetricsServer, Config!MetricsPair, Config!MetricsOff
<1>6. c.flags \ d.flags \subseteq Config!MetricsPair
  BY <1>1, <1>2, <1>3, <1>4, <1>5 DEF Config!Known
<1>7. /\ Config!TogetherOrNot(Config!MetricsPair, c.flags)
      /\ Config!TogetherOrNot(Config!MetricsPair, d.flags)
  BY DEF Config!Parses
<1>8. CASE c.flags \cap Config!MetricsPair \subseteq d.flags
  BY <1>6, <1>8
<1>9. CASE ~(c.flags \cap Config!MetricsPair \subseteq d.flags)
  <2>1. Config!MetricsPair \subseteq c.flags /\ Config!MetricsPair \cap d.flags = {}
    BY <1>7, <1>9 DEF Config!TogetherOrNot
  <2>2. Config!MetricsOff \in c.flags
    BY <2>1 DEF Config!RunMetricsServer, Config!MetricsPair, Config!MetricsOff
  <2> QED BY <1>6, <2>1, <2>2
<1> QED BY <1>8, <1>9

(* No flag of an accepted command line is without effect, alone or with    *)
(* others, for any scheme and any mode.                                    *)
THEOREM FlagsCount ==
    ASSUME Flags \subseteq Config!Known PROVE Config!Spec => []Config!NoFlagIgnored
<1>1. ConfigInv => Config!NoFlagIgnored
  <2> SUFFICES ASSUME ConfigInv, pc = "trust", NEW dropped \in SUBSET command.flags, dropped # {},
                      Config!Effect([command EXCEPT !.flags = @ \ dropped]) = Config!Effect(command)
               PROVE  dropped = Config!MetricsPair /\ Config!MetricsOff \in command.flags
    BY DEF Config!NoFlagIgnored
  <2> DEFINE c == command
             d == [command EXCEPT !.flags = @ \ dropped]
  <2>1. /\ d.flags = c.flags \ dropped /\ d.scheme = c.scheme /\ d.mode = c.mode
        /\ c.flags \subseteq Config!Known
    BY WithoutFlags DEF ConfigInv, CommandLine
  <2>2. Config!Parses(c) /\ Config!TransportAccepts(c)
    BY DEF ConfigInv
  <2>3. Config!Effect(d) = Config!Effect(c)
    OBVIOUS
  <2> HIDE DEF c, d
  <2>4. Config!Effect(c) = <<Config!BuildBackendTransport(c), Config!BackendIdentity(c),
                             Config!Serve(c), Config!RunMetricsServer(c)>>
    BY <2>2 DEF Config!Effect
  <2>5. Config!Parses(d) /\ Config!TransportAccepts(d)
    BY <2>3, <2>4 DEF Config!Effect
  <2>6. Config!Effect(d) = <<Config!BuildBackendTransport(d), Config!BackendIdentity(d),
                             Config!Serve(d), Config!RunMetricsServer(d)>>
    BY <2>5 DEF Config!Effect
  <2>7. /\ Config!BuildBackendTransport(d) = Config!BuildBackendTransport(c)
        /\ Config!BackendIdentity(d) = Config!BackendIdentity(c)
        /\ Config!Serve(d) = Config!Serve(c)
        /\ Config!RunMetricsServer(d) = Config!RunMetricsServer(c)
    BY <2>3, <2>4, <2>6
  <2>8. d.flags \subseteq c.flags /\ d.flags # c.flags /\ c.flags \ d.flags = dropped
    BY <2>1 DEF c
  <2> QED BY <2>1, <2>2, <2>5, <2>7, <2>8, EffectTellsFlags DEF c
<1> QED BY <1>1, ConfigInvariant, PTL

(* Configuration counts as this module does.                               *)
LEMMA SameCount == ASSUME NEW S PROVE Config!Cardinality(S) = Cardinality(S)
BY DEF Cardinality, Config!Cardinality

(* Two different elements are two.                                         *)
LEMMA CountPair == ASSUME NEW a, NEW b, a # b PROVE Cardinality({a, b}) = 2
<1>1. Cardinality({a}) = 1 /\ IsFiniteSet({a})
  BY FS_Singleton
<1>2. {a, b} = {a} \cup {b} /\ b \notin {a}
  OBVIOUS
<1> QED BY <1>1, <1>2, FS_AddElement

(* Trust in an https backend is always a decision, and there is never more *)
(* than one credential, for any command line.                              *)
THEOREM TrustDecided == Config!Spec => []Config!BackendTrustDecided
<1>1. ConfigInv => Config!BackendTrustDecided
  <2> SUFFICES ASSUME ConfigInv, pc = "trust" PROVE Config!BackendTrustDecided
    BY DEF Config!BackendTrustDecided
  <2> DEFINE c == command
             trust == transport \cap {"backend-ca-file", "backend-insecure-skip-verify"}
             pair == Config!BackendPair \cap transport
  <2>1. /\ Config!Parses(c) /\ Config!TransportAccepts(c)
        /\ transport = Config!BuildBackendTransport(c)
        /\ identity = Config!BackendIdentity(c)
    BY DEF ConfigInv
  <2>2. ASSUME c.scheme = "https" PROVE Config!Cardinality(trust) = 1
    <3>1. "backend-insecure-skip-verify" \in c.flags <=> "backend-ca-file" \notin c.flags
      BY <2>1, <2>2 DEF Config!TransportAccepts
    <3>2. trust = c.flags \cap {"backend-ca-file", "backend-insecure-skip-verify"}
      BY <2>1, <2>2 DEF Config!BuildBackendTransport, Config!BackendPair
    <3>3. trust = {"backend-ca-file"} \/ trust = {"backend-insecure-skip-verify"}
      BY <3>1, <3>2
    <3> HIDE DEF trust
    <3> QED BY <3>3, FS_Singleton, SameCount
  <2>3. pair = {} \/ (pair = Config!BackendPair /\ Config!BackendPair \subseteq c.flags)
    <3>1. Config!TogetherOrNot(Config!BackendPair, c.flags)
      BY <2>1 DEF Config!Parses
    <3>2. pair \subseteq c.flags
      BY <2>1 DEF Config!BuildBackendTransport, Config!BackendPair
    <3>3. CASE c.scheme = "http"
      BY <2>1, <3>3 DEF Config!BuildBackendTransport, Config!BackendPair
    <3>4. CASE c.scheme # "http" /\ Config!BackendPair \subseteq c.flags
      BY <2>1, <3>4 DEF Config!BuildBackendTransport, Config!BackendPair
    <3>5. CASE Config!BackendPair \cap c.flags = {}
      BY <3>2, <3>5
    <3> QED BY <3>1, <3>3, <3>4, <3>5 DEF Config!TogetherOrNot
  <2>4. Config!Cardinality(pair) \in {0, 2}
    <3>1. Cardinality(Config!BackendPair) = 2
      BY CountPair DEF Config!BackendPair
    <3> HIDE DEF pair
    <3> QED BY <2>3, <3>1, SameCount, FS_EmptySet
  <2>5. ASSUME "impersonation" \in identity PROVE pair = {}
    <3>1. c.mode = "impersonation"
      BY <2>1, <2>5 DEF Config!BackendIdentity
    <3>2. Config!BackendPair \cap c.flags = {}
      BY <2>1, <3>1 DEF Config!Parses, Config!ValidBackendIdentityFlags
    <3> QED BY <2>3, <3>2 DEF Config!BackendPair
  <2> QED BY <2>2, <2>4, <2>5 DEF Config!BackendTrustDecided
<1> QED BY <1>1, ConfigInvariant, PTL
=============================================================================
