---------------------------- MODULE Configuration ----------------------------
(***************************************************************************)
(* What main (cmd/server/main.go) makes of its command line before it      *)
(* looks at the cluster: parseFlags and its four validators,               *)
(* buildBackendTransport, the backend identity, and the two listeners.     *)
(*                                                                         *)
(* A flag is in the command line with a value other than its default, or   *)
(* it is not; the allowlist of extra keys has a key in it.  Flags whose    *)
(* value is only copied (addresses, the timeout, the capture directory)    *)
(* are left out, but for the two that are required, the address that turns *)
(* metrics off and a capture limit below one.  A backend URL that does not *)
(* parse ends as one with a scheme nobody knows does.                      *)
(***************************************************************************)
EXTENDS FiniteSets

CONSTANTS
    Flags,      \* the flags that may be given
    Schemes,    \* the schemes --backend-url may have
    Modes       \* the values --backend-identity-mode may have

ServingPair == {"tls-cert-file", "tls-private-key-file"}
MetricsPair == {"metrics-tls-cert-file", "metrics-tls-private-key-file"}
BackendPair == {"backend-client-cert-file", "backend-client-key-file"}
BackendTLS == BackendPair \cup
    {"backend-insecure-skip-verify", "backend-ca-file", "backend-server-name"}
ImpersonationOnly ==
    {"backend-impersonation-token-file", "backend-impersonation-extra-keys",
     "backend-impersonation-forward-all-extras", "backend-impersonation-forward-uid"}
Required == {"backend-url", "webhook-kubeconfig"}
MetricsOff == "metrics-listen-address=0"
NoCapture == "max-audit-body-bytes=0"

Known == Required \cup ServingPair \cup MetricsPair \cup BackendTLS \cup ImpersonationOnly
           \cup {MetricsOff, NoCapture}

(* The flag package refuses any other.                                     *)
ASSUME FlagAssumption == Flags \subseteq Known

VARIABLES
    pc,          \* where main is: parse, transport, identity, trust, exited
    command,     \* the command line: [flags, scheme, mode]
    transport,   \* the backend transport
    identity,    \* the backend identity
    exitCode     \* 0 while main runs

vars == <<pc, command, transport, identity, exitCode>>

ExitFailure == 1
ExitUsage == 2

----------------------------------------------------------------------------
(* parseFlags                                                              *)

(* validateServingTLSFlags, validateMetricsTLSFlags and                    *)
(* validateBackendClientTLSFlags: a pair is given whole or not at all.     *)
TogetherOrNot(pair, flags) == pair \subseteq flags \/ pair \cap flags = {}

(* Mutant: the mode of the flags that need it is not looked at.            *)
MutantIdentityFlagsAnyMode(c) ==
    /\ c.mode \in {"requestheader", "impersonation"}
    /\ c.mode = "impersonation" =>
         /\ BackendPair \cap c.flags = {}
         /\ ~{"backend-impersonation-extra-keys",
              "backend-impersonation-forward-all-extras"} \subseteq c.flags

ValidBackendIdentityFlags(c) ==
    /\ c.mode \in {"requestheader", "impersonation"}
    /\ c.mode = "requestheader" => ImpersonationOnly \cap c.flags = {}
    /\ c.mode = "impersonation" =>
         /\ BackendPair \cap c.flags = {}
         /\ ~{"backend-impersonation-extra-keys",
              "backend-impersonation-forward-all-extras"} \subseteq c.flags

Parses(c) ==
    /\ Required \subseteq c.flags
    /\ NoCapture \notin c.flags
    /\ TogetherOrNot(ServingPair, c.flags)
    /\ TogetherOrNot(MetricsPair, c.flags)
    /\ TogetherOrNot(BackendPair, c.flags)
    /\ ValidBackendIdentityFlags(c)

----------------------------------------------------------------------------
(* buildBackendTransport                                                   *)

(* Mutant: an http backend needs no look at the TLS flags.                 *)
MutantTransportPlainAlways(c) ==
    \/ c.scheme = "http"
    \/ /\ c.scheme = "https"
       /\ "backend-insecure-skip-verify" \in c.flags <=> "backend-ca-file" \notin c.flags

(* Mutant: a CA bundle beside a skipped check.                             *)
MutantTransportEither(c) ==
    \/ c.scheme = "http" /\ BackendTLS \cap c.flags = {}
    \/ /\ c.scheme = "https"
       /\ {"backend-insecure-skip-verify", "backend-ca-file"} \cap c.flags # {}

TransportAccepts(c) ==
    \/ c.scheme = "http" /\ BackendTLS \cap c.flags = {}
    \/ /\ c.scheme = "https"
       /\ "backend-insecure-skip-verify" \in c.flags <=> "backend-ca-file" \notin c.flags

(* The tls.Config; a transport without one is the default transport.       *)
BuildBackendTransport(c) ==
    IF c.scheme = "http" THEN {"plain"}
    ELSE {"minVersion"}
      \cup { f \in c.flags : f \in {"backend-insecure-skip-verify", "backend-server-name",
                                    "backend-ca-file"} }
      \cup (IF "backend-client-cert-file" \in c.flags THEN BackendPair \cap c.flags ELSE {})

(* The files the transport and the bearer token are read from.             *)
TransportFiles == BackendPair \cup {"backend-ca-file"}

----------------------------------------------------------------------------
(* The identity and the listeners                                          *)

BackendIdentity(c) ==
    IF c.mode = "impersonation" THEN {c.mode} \cup (ImpersonationOnly \cap c.flags) ELSE {c.mode}

(* serve and buildServingTLSConfig: TLS where there is a certificate.      *)
Serve(c) ==
    IF "tls-cert-file" \in c.flags THEN ServingPair \cap c.flags ELSE {}

(* runMetricsServer, unless it is off.                                     *)
RunMetricsServer(c) ==
    CASE MetricsOff \in c.flags -> {"off"}
      [] MetricsOff \notin c.flags /\ "metrics-tls-cert-file" \in c.flags ->
           MetricsPair \cap c.flags
      [] OTHER -> {}

----------------------------------------------------------------------------
Init ==
    /\ pc = "parse"
    /\ command \in [flags : SUBSET Flags, scheme : Schemes, mode : Modes]
    /\ transport = {}
    /\ identity = {}
    /\ exitCode = 0

Exit(code) ==
    /\ pc' = "exited"
    /\ exitCode' = code

ParseFlags ==
    /\ pc = "parse"
    /\ IF Parses(command) THEN pc' = "transport" /\ UNCHANGED exitCode ELSE Exit(ExitUsage)
    /\ UNCHANGED <<command, transport, identity>>

ConfigureTransport ==
    /\ pc = "transport"
    /\ TransportAccepts(command)
    /\ transport' = BuildBackendTransport(command)
    /\ pc' = "identity"
    /\ UNCHANGED <<command, identity, exitCode>>

(* A contradiction, or a file that cannot be read or holds no certificate. *)
TransportFails ==
    /\ pc = "transport"
    /\ ~TransportAccepts(command) \/ TransportFiles \cap command.flags # {}
    /\ Exit(ExitFailure)
    /\ UNCHANGED <<command, transport, identity>>

ConfigureIdentity ==
    /\ pc = "identity"
    /\ identity' = BackendIdentity(command)
    /\ pc' = "trust"
    /\ UNCHANGED <<command, transport, exitCode>>

(* The bearer token cannot be read.                                        *)
IdentityFails ==
    /\ pc = "identity"
    /\ command.mode = "impersonation"
    /\ Exit(ExitFailure)
    /\ UNCHANGED <<command, transport, identity>>

Next == ParseFlags \/ ConfigureTransport \/ TransportFails \/ ConfigureIdentity \/ IdentityFails

Spec == Init /\ [][Next]_vars

----------------------------------------------------------------------------
(* Properties                                                              *)

(* What a command line amounts to, should main accept it.                  *)
Effect(c) ==
    IF Parses(c) /\ TransportAccepts(c)
      THEN <<BuildBackendTransport(c), BackendIdentity(c), Serve(c), RunMetricsServer(c)>>
      ELSE << >>

(* Where main has accepted its command line, all of it counts: with any of *)
(* its flags left out, a pair or several at once too, main would refuse to *)
(* start or would build another proxy.  Of the flags modelled here only    *)
(* the certificate and key of a metrics listener that is off are accepted  *)
(* for nothing.  Values are not modelled: a webhook timeout above five     *)
(* seconds and an allowlist of blank keys change nothing either.           *)
NoFlagIgnored ==
    pc = "trust" =>
        \A dropped \in (SUBSET command.flags) \ {{}} :
            \/ Effect([command EXCEPT !.flags = @ \ dropped]) # Effect(command)
            \/ dropped = MetricsPair /\ MetricsOff \in command.flags

(* An https backend is trusted by a CA bundle or, where that was asked     *)
(* for, by no check at all, never by default; and the proxy presents one   *)
(* credential of its own to it, a certificate with its key or the token.   *)
BackendTrustDecided ==
    pc = "trust" =>
        /\ command.scheme = "https" =>
             Cardinality(transport \cap {"backend-ca-file", "backend-insecure-skip-verify"}) = 1
        /\ Cardinality(BackendPair \cap transport) \in {0, 2}
        /\ "impersonation" \in identity => BackendPair \cap transport = {}
=============================================================================
