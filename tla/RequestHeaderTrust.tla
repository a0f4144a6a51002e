------------------------- MODULE RequestHeaderTrust -------------------------
(***************************************************************************)
(* Where the proxy's inbound trust comes from: the strict start-up gate    *)
(* (startRequestHeaderTrust and waitForTrust, cmd/server/main.go), the two *)
(* controllers that follow the cluster's ConfigMap                         *)
(* (RequestHeaderTrustController, pkg/identity/cluster.go), and the        *)
(* verifier that reads what they hold, a part at a time, for each request. *)
(*                                                                         *)
(* The controllers are external (k8s.io/apiserver).  Each has an informer  *)
(* of its own, which sees the ConfigMap's versions in order but late and   *)
(* may skip some, and a worker behind a queue, which loads what the        *)
(* informer shows by then.  The CA controller keeps its bundle when a      *)
(* version has none that parses, the headers controller keeps its lists    *)
(* when one of them is not JSON.  Time is abstract: the start-up deadline  *)
(* and the signal may come at any moment.                                  *)
(***************************************************************************)
EXTENDS Integers, Sequences, FiniteSets

CONSTANTS
    Requests,      \* the requests that may be verified
    CAs,           \* CA bundles that parse
    ConfigMaps,    \* what the ConfigMap may hold: [present, ca, headers]
    Certs,         \* client certificates: [ca, cn]
    MaxVersions    \* bound: how often the ConfigMap is published

(* The lists of a version: valid when they are JSON; names are the allowed *)
(* common names, empty for any; users the username headers.                *)
NoLists == [valid |-> FALSE, names |-> {}, users |-> {}]

NoCA == "none"
UserHeader == "X-Remote-User"

ASSUME TrustAssumption ==
    /\ CAs \subseteq STRING \ {NoCA}
    /\ ConfigMaps \subseteq
         [present : BOOLEAN, ca : STRING,
          headers : [valid : BOOLEAN, names : SUBSET STRING, users : SUBSET STRING]]
    /\ Certs \subseteq [ca : STRING, cn : STRING]
    /\ MaxVersions \in Nat \ {0}

VARIABLES
    (* the cluster *)
    versions,      \* what the ConfigMap has held, the latest last
    readable,      \* the API server answers, and RBAC lets the proxy read
    (* the controllers *)
    caSeen,        \* the version the CA controller's informer last showed
    caDue,         \* the CA controller's queue holds its key
    headersSeen,   \* the version the headers controller's informer last showed
    headersDue,    \* the headers controller's queue holds its key
    ca,            \* the bundle VerifyOptions uses
    headers,       \* the lists AllowedClientNames and UsernameHeaders use
    (* main *)
    main,          \* where main is
    expired,       \* startupCtx is over: it was cancelled or its deadline passed
    signalled,     \* SIGTERM: ctx is done
    (* the verifier *)
    cert,          \* the client certificate of each request
    verdict        \* where its verification is

clusterVars == <<versions, readable>>
informerVars == <<caSeen, caDue, headersSeen, headersDue>>
trustVars == <<informerVars, ca, headers>>
mainVars == <<main, expired, signalled>>
verifierVars == <<cert, verdict>>
vars == <<clusterVars, trustVars, mainVars, verifierVars>>

NoCert == [ca |-> NoCA, cn |-> ""]

Latest == versions[Len(versions)]

(* go controller.Run(ctx, 1) has been reached and the process is there.    *)
Started == main \notin {"get", "runOnce", "failed", "stopped"}

(* Its informers run until ctx is done.                                    *)
Watching == Started /\ ~signalled

UsableLists(lists) == lists.users # {}

(* Ready, where no step separates its two reads.                           *)
Usable == ca # NoCA /\ UsableLists(headers)

----------------------------------------------------------------------------
Init ==
    /\ versions \in { <<m>> : m \in ConfigMaps }
    /\ readable \in BOOLEAN
    /\ caSeen = 0
    /\ caDue = FALSE
    /\ headersSeen = 0
    /\ headersDue = FALSE
    /\ ca = NoCA
    /\ headers = NoLists
    /\ main = "get"
    /\ expired = FALSE
    /\ signalled = FALSE
    /\ cert = [r \in Requests |-> NoCert]
    /\ verdict = [r \in Requests |-> "none"]

----------------------------------------------------------------------------
(* The cluster, the clock and the signal                                   *)

Publish(m) ==
    /\ Len(versions) < MaxVersions
    /\ versions' = Append(versions, m)
    /\ UNCHANGED <<readable, trustVars, mainVars, verifierVars>>

(* A RoleBinding comes or goes, the API server fails or recovers.          *)
FlipReadable ==
    /\ readable' = ~readable
    /\ UNCHANGED <<versions, trustVars, mainVars, verifierVars>>

DeadlinePasses ==
    /\ main \notin {"failed", "stopped"}
    /\ ~expired
    /\ expired' = TRUE
    /\ UNCHANGED <<clusterVars, trustVars, main, signalled, verifierVars>>

Signal ==
    /\ ~signalled
    /\ signalled' = TRUE
    /\ UNCHANGED <<clusterVars, trustVars, main, expired, verifierVars>>

----------------------------------------------------------------------------
(* The controllers                                                         *)

(* Mutant: a version without a bundle takes the old one away.              *)
MutantAdoptAnyCA(m) == IF m.present /\ m.ca \in CAs THEN m.ca ELSE NoCA

(* Mutant: the first bundle is kept for good.                              *)
MutantAdoptFirstCA(m) == IF ca = NoCA /\ m.present /\ m.ca \in CAs THEN m.ca ELSE ca

AdoptCA(m) == IF m.present /\ m.ca \in CAs THEN m.ca ELSE ca



AdoptLists(m) == IF m.present /\ m.headers.valid THEN m.headers ELSE headers

(* ConfigMapCAController: its informer moves on to version i, so that its  *)
(* event handler puts the key in the queue, ...                            *)
ShowCA(i) ==
    /\ Watching
    /\ readable
    /\ i > caSeen
    /\ caSeen' = i
    /\ caDue' = TRUE
    /\ UNCHANGED <<clusterVars, headersSeen, headersDue, ca, headers, mainVars, verifierVars>>

(* ... and its worker takes the key and loads what the informer shows now. *)
(* It empties the queue also when ctx is done.  A resync, and a key put    *)
(* back because its load failed, only repeat a load until the informer     *)
(* moves: they are left out.                                               *)
LoadCA ==
    /\ Started
    /\ caDue
    /\ caDue' = FALSE
    /\ ca' = AdoptCA(versions[caSeen])
    /\ UNCHANGED <<clusterVars, caSeen, headersSeen, headersDue, headers, mainVars, verifierVars>>

(* RequestHeaderAuthRequestController, the same way.                       *)
ShowHeaders(i) ==
    /\ Watching
    /\ readable
    /\ i > headersSeen
    /\ headersSeen' = i
    /\ headersDue' = TRUE
    /\ UNCHANGED <<clusterVars, caSeen, caDue, ca, headers, mainVars, verifierVars>>

LoadHeaders ==
    /\ Started
    /\ headersDue
    /\ headersDue' = FALSE
    /\ headers' = AdoptLists(versions[headersSeen])
    /\ UNCHANGED <<clusterVars, caSeen, caDue, headersSeen, ca, mainVars, verifierVars>>

----------------------------------------------------------------------------
(* startRequestHeaderTrust                                                 *)

Main(from, to) == main = from /\ main' = to

StartupDone == expired \/ signalled

(* Get: Forbidden, NotFound, a failed call and a late one all end it.      *)
CheckConfigMap ==
    /\ Main("get", IF readable /\ Latest.present /\ ~StartupDone THEN "runOnce" ELSE "failed")
    /\ UNCHANGED <<clusterVars, trustVars, expired, signalled, verifierVars>>

(* RunOnce: the CA half has no informer to load from yet and says nothing; *)
(* the header half reads the live object, to which absence is no error.    *)
RunOnce ==
    LET malformed == Latest.present /\ ~Latest.headers.valid
    IN /\ Main("runOnce", IF readable /\ ~malformed /\ ~StartupDone THEN "ready1" ELSE "failed")
       /\ headers' = IF main' = "ready1" THEN AdoptLists(Latest) ELSE headers
       /\ UNCHANGED <<clusterVars, informerVars, ca, expired, signalled, verifierVars>>

(* Mutant: Ready asks for the header names first.                          *)
MutantReadyHalfSwapped(half) == IF half = 1 THEN UsableLists(headers) ELSE ca # NoCA

(* The two questions of Ready, in their order.                             *)
ReadyHalf(half) == IF half = 1 THEN ca # NoCA ELSE UsableLists(headers)

(* Ready, as waitForTrust calls it: a controller may move between the two. *)
(* On its return startRequestHeaderTrust cancels its context.              *)
ReadyFirst ==
    /\ Main("ready1", IF ReadyHalf(1) THEN "ready2" ELSE "select")
    /\ UNCHANGED <<clusterVars, trustVars, expired, signalled, verifierVars>>

ReadySecond ==
    /\ Main("ready2", IF ReadyHalf(2) THEN "setup" ELSE "select")
    /\ expired' = (expired \/ ReadyHalf(2))
    /\ UNCHANGED <<clusterVars, trustVars, signalled, verifierVars>>

(* The select of waitForTrust: the tick, ...                               *)
WaitTick ==
    /\ Main("select", "ready1")
    /\ UNCHANGED <<clusterVars, trustVars, expired, signalled, verifierVars>>

(* Mutant: it waits on ctx, which has no deadline.                         *)
MutantGiveUpOnSignal ==
    /\ signalled
    /\ Main("select", "failed")
    /\ UNCHANGED <<clusterVars, trustVars, expired, signalled, verifierVars>>

(* ... or the context; either of them when both are due.                   *)
GiveUp ==
    /\ StartupDone
    /\ Main("select", "failed")
    /\ UNCHANGED <<clusterVars, trustVars, expired, signalled, verifierVars>>

(* The rest of main up to the listener; any part of it may fail.           *)
SetUp ==
    /\ \/ Main("setup", "serving")
       \/ Main("setup", "failed")
    /\ UNCHANGED <<clusterVars, trustVars, expired, signalled, verifierVars>>

(* The server has shut down and main returns.                              *)
Stop ==
    /\ signalled
    /\ Main("serving", "stopped")
    /\ UNCHANGED <<clusterVars, trustVars, expired, signalled, verifierVars>>

(* The listener fails.                                                     *)
ServeFails ==
    /\ Main("serving", "failed")
    /\ UNCHANGED <<clusterVars, trustVars, expired, signalled, verifierVars>>

----------------------------------------------------------------------------
(* The verifier: it loads each part when it needs it.                      *)

Verdict(r, to) == verdict' = [verdict EXCEPT ![r] = to]

Allowed(lists, cn) == lists.names = {} \/ cn \in lists.names

(* Verify of the chain, with the options of the moment.                    *)
VerifyChain(r, c) ==
    /\ main = "serving"
    /\ verdict[r] = "none"
    /\ cert' = [cert EXCEPT ![r] = c]
    /\ Verdict(r, IF ca # NoCA /\ c.ca = ca THEN "chained" ELSE "rejected")
    /\ UNCHANGED <<clusterVars, trustVars, mainVars>>

(* Mutant: the subject is not looked at.                                   *)
MutantVerifySubject(r) ==
    /\ main = "serving"
    /\ verdict[r] = "chained"
    /\ Verdict(r, "named")
    /\ UNCHANGED <<clusterVars, trustVars, mainVars, cert>>

VerifySubject(r) ==
    /\ main = "serving"
    /\ verdict[r] = "chained"
    /\ Verdict(r, IF Allowed(headers, cert[r].cn) THEN "named" ELSE "rejected")
    /\ UNCHANGED <<clusterVars, trustVars, mainVars, cert>>

(* The user's name is in a header; without one the handler answers 401.    *)
ReadIdentity(r) ==
    /\ main = "serving"
    /\ verdict[r] = "named"
    /\ Verdict(r, IF UserHeader \in headers.users THEN "accepted" ELSE "rejected")
    /\ UNCHANGED <<clusterVars, trustVars, mainVars, cert>>

----------------------------------------------------------------------------
MainStep ==
    CheckConfigMap \/ RunOnce \/ ReadyFirst \/ ReadySecond \/ WaitTick \/ GiveUp \/ SetUp \/ Stop

Next ==
    \/ \E m \in ConfigMaps : Publish(m)
    \/ FlipReadable
    \/ DeadlinePasses
    \/ Signal
    \/ \E i \in 1 .. Len(versions) : ShowCA(i) \/ ShowHeaders(i)
    \/ LoadCA
    \/ LoadHeaders
    \/ MainStep
    \/ ServeFails
    \/ \E r \in Requests :
         \/ \E c \in Certs : VerifyChain(r, c)
         \/ VerifySubject(r)
         \/ ReadIdentity(r)

Spec == Init /\ [][Next]_vars

(* main runs and its timer fires; a select does not pass over a context    *)
(* that is done for ever; each informer that may read the object gets to   *)
(* its latest version, since it lists again whenever a watch ends; and a   *)
(* worker waits for nobody once its queue holds the key.                   *)
Fairness ==
    /\ WF_vars(MainStep)
    /\ WF_vars(DeadlinePasses)
    /\ SF_vars(GiveUp)
    /\ WF_vars(ShowCA(Len(versions)))
    /\ WF_vars(LoadCA)
    /\ WF_vars(ShowHeaders(Len(versions)))
    /\ WF_vars(LoadHeaders)

FairSpec == Spec /\ Fairness

----------------------------------------------------------------------------
(* Properties                                                              *)

TypeOK ==
    /\ versions \in Seq(ConfigMaps)
    /\ Len(versions) \in 1 .. MaxVersions
    /\ readable \in BOOLEAN
    /\ caSeen \in 0 .. Len(versions)
    /\ caDue \in BOOLEAN
    /\ caDue => caSeen > 0
    /\ headersSeen \in 0 .. Len(versions)
    /\ headersDue \in BOOLEAN
    /\ headersDue => headersSeen > 0
    /\ ca \in CAs \cup {NoCA}
    /\ headers \in [valid : BOOLEAN, names : SUBSET STRING, users : SUBSET STRING]
    /\ main \in {"get", "runOnce", "ready1", "ready2", "select", "setup", "serving",
                 "stopped", "failed"}
    /\ expired \in BOOLEAN
    /\ signalled \in BOOLEAN
    /\ cert \in [Requests -> Certs \cup {NoCert}]
    /\ verdict \in [Requests -> {"none", "chained", "named", "accepted", "rejected"}]

Published == { versions[i] : i \in 1 .. Len(versions) }

(* No request is accepted on trust the cluster never gave: its chain is of *)
(* a CA the ConfigMap has named, and its common name and its username      *)
(* header are in lists the ConfigMap has held, whatever the controllers    *)
(* did between the three checks.                                           *)
AcceptedUnderPublishedTrust ==
    \A r \in Requests : verdict[r] = "accepted" =>
        /\ \E m \in Published : m.present /\ m.ca = cert[r].ca /\ m.ca \in CAs
        /\ \E m \in Published : m.headers.valid /\ Allowed(m.headers, cert[r].cn)
        /\ \E m \in Published : m.headers.valid /\ UserHeader \in m.headers.users

(* Past the gate the proxy always has a CA and lists, whatever becomes of  *)
(* the ConfigMap: it is deleted, it is garbled, it cannot be read.  Only a *)
(* version that names no username header ends its readiness.               *)
TrustIsKept ==
    main \in {"setup", "serving", "stopped"} =>
        /\ ca # NoCA
        /\ headers.valid
        /\ UsableLists(headers) \/ \E m \in Published : m.headers.valid /\ ~UsableLists(m.headers)



(* The gate opens in a state in which both halves are usable, though Ready *)
(* looks at them one after the other while the controllers go on.          *)
GateOpensOnUsableTrust ==
    [][main # "setup" /\ main' = "setup" => Usable]_vars

(* Start-up ends, in service or in failure, whatever the cluster does.     *)
StartupEnds == <>(main \in {"serving", "stopped", "failed"})

(* A version that stays the latest is adopted, as far as it is good, with  *)
(* no restart.                                                             *)
AdoptsLatest ==
    \A m \in ConfigMaps :
        <>[](Latest = m /\ Watching /\ readable) =>
        <>[](/\ m.present /\ m.ca \in CAs => ca = m.ca
             /\ m.present /\ m.headers.valid => headers = m.headers)

=============================================================================
